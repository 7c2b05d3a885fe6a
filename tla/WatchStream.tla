---------------------------- MODULE WatchStream ----------------------------
(***************************************************************************)
(* The objects of one Kubernetes type as the API server and the manager's  *)
(* informer cache see them.  mgr.GetClient() reads a shared informer cache *)
(* that follows the API server through one ordered watch per type, while   *)
(* writes go to the API server and are refused with a conflict when the    *)
(* object's resourceVersion is not the stored one.                         *)
(*                                                                         *)
(* A stream s is the sequence of versions of the whole type from the one   *)
(* the cache holds (first) to the one the API server stores (last); each   *)
(* version is a function from the type's objects to their values.          *)
(***************************************************************************)
EXTENDS Naturals, Sequences

\* What a read through the manager's client returns.
Cached(s) == s[1]

\* What the API server holds.
Stored(s) == s[Len(s)]

\* The cached copy of object o carries the stored resourceVersion: no version
\* that changes o is still on its way to the cache.
Fresh(s, o) == \A k \in 1..Len(s) : s[k][o] = s[Len(s)][o]

\* The stored version with object o changed to v.
Changed(s, o, v) == [Stored(s) EXCEPT ![o] = v]

\* The stream after object o is stored with value v.  An update that changes
\* nothing keeps the resourceVersion and sends no watch event.
Put(s, o, v) ==
    IF v = Stored(s)[o] THEN s ELSE Append(s, Changed(s, o, v))

\* The watch delivers the oldest change the cache has not seen.
CanDeliver(s) == Len(s) > 1
Deliver(s) == Tail(s)

\* A restarted manager lists the type anew.
Relisted(s) == <<Stored(s)>>
=============================================================================
