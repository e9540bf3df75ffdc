SPECIFICATION FairSpec

CONSTANTS
    Gateways = {g1, g2}
    MaxVersion = 2
    MaxSetbacks = 2

PROPERTIES
    EveryActionPerformed
    NewPolicyGoverns
