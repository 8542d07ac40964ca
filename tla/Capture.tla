------------------------------- MODULE Capture -------------------------------
(***************************************************************************)
(* What the collector promises of its captures, without a buffer: the      *)
(* records observed so far are an archive that forgets nothing, and a      *)
(* bundle is cut out of it.                                                *)
(*                                                                         *)
(*   - one capture at a time; a trigger during a capture is absorbed;      *)
(*   - an anchor is inside the window of the bundle before it by no more   *)
(*     than Skew, is never older than Staleness, so that what precedes it  *)
(*     is at hand, nor ahead of what was observed by more than Skew;       *)
(*   - the first half of a bundle is what had been observed of             *)
(*     [anchor - PreSec, anchor) when the capture opened, the second what  *)
(*     had been observed of [anchor, anchor + PostSec) when it closed;     *)
(*   - a capture closes only after the end of its window was observed;     *)
(*   - a bundle leaves once.                                               *)
(***************************************************************************)
EXTENDS Integers, Sequences

CONSTANTS Modality, Anchors, PreSec, PostSec, Staleness, Skew,
          NoTime, NoSession

VARIABLES
  archive,   \* archive[m]: every record of modality m observed so far
  observed,  \* how far time has been observed, or NoTime
  session,   \* the capture in progress, or NoSession
  since,     \* the end of the last bundle's window, or NoTime
  outbox     \* the bundles not yet sent

vars == <<archive, observed, session, since, outbox>>

Init ==
  /\ archive = [m \in Modality |-> {}]
  /\ observed = NoTime
  /\ session = NoSession
  /\ since = NoTime
  /\ outbox = <<>>

Cut(start, end) ==
  [m \in Modality |-> {r \in archive[m] : start <= r.ts /\ r.ts < end}]

Observe ==
  /\ DOMAIN archive' = Modality
  /\ \A m \in Modality : archive[m] \subseteq archive'[m]
  /\ observed' # NoTime \/ observed = NoTime
  /\ observed # NoTime => observed' >= observed
  /\ UNCHANGED <<session, since, outbox>>

Open(anchor) ==
  /\ session = NoSession
  /\ since # NoTime => anchor + Skew >= since
  /\ anchor <= observed + Skew /\ observed <= anchor + Staleness
  /\ \E fired \in (SUBSET Modality) \ {{}} :
       session' = [anchor  |-> anchor,
                   pre     |-> Cut(anchor - PreSec, anchor),
                   firedBy |-> fired]
  /\ UNCHANGED <<archive, observed, since, outbox>>

Absorb ==
  /\ session # NoSession
  /\ \E fired \in SUBSET Modality :
       session' = [session EXCEPT !.firedBy = @ \cup fired]
  /\ UNCHANGED <<archive, observed, since, outbox>>

Close ==
  /\ session # NoSession
  /\ outbox = <<>>
  /\ observed >= session.anchor + PostSec
  /\ LET post == Cut(session.anchor, session.anchor + PostSec) IN
     outbox' = <<[anchor  |-> session.anchor,
                  records |-> [m \in Modality |-> session.pre[m] \cup post[m]],
                  firedBy |-> session.firedBy]>>
  /\ since' = session.anchor + PostSec
  /\ session' = NoSession
  /\ UNCHANGED <<archive, observed>>

Emit ==
  /\ outbox # <<>>
  /\ outbox' = Tail(outbox)
  /\ UNCHANGED <<archive, observed, session, since>>

Next == Observe \/ (\E a \in Anchors : Open(a)) \/ Absorb \/ Close \/ Emit

Spec == Init /\ [][Next]_vars
=============================================================================
