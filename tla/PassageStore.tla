---------------------------- MODULE PassageStore ----------------------------
(***************************************************************************)
(* What the passage cache promises the controller: a lookup finds what was *)
(* last stored under its key, or nothing.  Anything may be forgotten at    *)
(* any time; nothing is served under a key it was not stored under, and    *)
(* nothing that was replaced comes back.  PassageCache implements this     *)
(* module and VerseFetch relies on no more than it.                        *)
(***************************************************************************)
CONSTANTS LookupKeys,   \* provider, verse and key fingerprint
          Values        \* what is stored

VARIABLE cache          \* the entries that may be served

Entries == [key : LookupKeys, value : Values]

Init == cache = {}

Put(e) == e \in cache' /\ cache' \subseteq {f \in cache : f.key # e.key} \cup {e}

Forget == cache' \subseteq cache

\* The entry put is the only one the step may add.
Next ==
  \/ Forget
  \/ \E e \in cache' : e \in Entries /\ Put(e)

Spec == Init /\ [][Next]_cache
=============================================================================
