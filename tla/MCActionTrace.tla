------------------------------ MODULE MCActionTrace -----------------------------
(* ActionTrace for TLC: fields are interchangeable.  What a request holds and     *)
(* what a reader sees do not meet: a reader is at work on an action without a      *)
(* request, or with one that has no marked field and no default.                   *)
EXTENDS ActionTrace, TLC

FieldSymmetry == Permutations(Fields)

IsPlain(q) == q = NoRequest \/ (q.marked = {} /\ q.default = Nothing)
ReaderOrRedaction ==
    reading # "none" => IsPlain(asked) /\ \A i \in DOMAIN events : IsPlain(events[i].request)
===============================================================================
