----------------------------- MODULE Redaction -----------------------------
(***************************************************************************)
(* redact of redaction.py: the approval preview without the arguments that *)
(* the tool's sensitive_fields name, and the list of what was taken out.   *)
(*                                                                         *)
(* A document is a function from the paths of its nodes to their kind: the *)
(* root is <<>>, and a node's parent is a node.  What a list holds are     *)
(* nodes under it too.  A sensitive path is one whose dots were split.     *)
(***************************************************************************)
EXTENDS Sequences, SequencesExt

Kind == {"dict", "list", "scalar"}

IsDocument(doc) ==
    /\ <<>> \in DOMAIN doc /\ doc[<<>>] = "dict"
    /\ \A p \in DOMAIN doc :
         /\ doc[p] \in Kind
         /\ p # <<>> => Front(p) \in DOMAIN doc /\ doc[Front(p)] # "scalar"

(* _remove descends through dictionaries only: a path that leads into a     *)
(* list is not found.                                                       *)
Found(doc, path) ==
    /\ path \in DOMAIN doc
    /\ \A p \in DOMAIN doc : IsStrictPrefix(p, path) => doc[p] = "dict"

Removed(doc, path) ==
    [p \in {q \in DOMAIN doc : ~IsPrefix(path, q)} |-> doc[p]]

Unredacted(doc) == [preview |-> doc, redacted |-> <<>>]

MutTakeOut(done, path) ==
    [preview |-> Removed(done.preview, path), redacted |-> Append(done.redacted, path)]

(* One turn of the loop: a path is listed only if there was something.      *)
TakeOut(done, path) ==
    IF Found(done.preview, path)
    THEN [preview |-> Removed(done.preview, path),
          redacted |-> Append(done.redacted, path)]
    ELSE done

Redact(doc, sensitive) == FoldLeft(TakeOut, Unredacted(doc), sensitive)

-----------------------------------------------------------------------------
(* Whatever order the paths come in and however they overlap, what they     *)
(* name and dictionaries lead to is not left in the preview, what is missing*)
(* from it is under a path on the list, what is on the list was there, and  *)
(* the rest is untouched.  A path through a list is exempt (~Found): what it*)
(* names stays in the preview and is not listed.                            *)
Honest(doc, sensitive) ==
    LET out == Redact(doc, sensitive)
    IN  /\ \A s \in ToSet(sensitive) : ~Found(doc, s) \/ s \notin DOMAIN out.preview
        /\ \A p \in DOMAIN doc \ DOMAIN out.preview :
             \E s \in ToSet(out.redacted) : IsPrefix(s, p)
        /\ ToSet(out.redacted) \subseteq DOMAIN doc
        /\ \A p \in DOMAIN out.preview : p \in DOMAIN doc /\ out.preview[p] = doc[p]
=============================================================================
