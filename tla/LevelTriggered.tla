-------------------------- MODULE LevelTriggered --------------------------
(***************************************************************************)
(* What a level-triggered controller promises about the objects it owns,   *)
(* whatever it does in between.  A user's wish reaches the controller in   *)
(* two hops, each of which may lag: the informer's mirror of the resource  *)
(* and the copy a running Reconcile took from that mirror; the objects are *)
(* shown by informers that lag as well.  Objects only ever move to         *)
(* something the copy allows; an object that is, and is shown to be, what  *)
(* the copy allows is never taken away.                                    *)
(***************************************************************************)
CONSTANTS
  Specs,         \* what a user may wish for
  Objects,       \* the objects the controller owns
  Absent,        \* stands for an object that does not exist
  Allowed(_, _)  \* Allowed(s, o): what o may be under s; {} if o is left alone

VARIABLES
  want,          \* the wish stored by the API server
  mirror,        \* what the informer shows of it
  seen,          \* what the current, or the last, Reconcile works from
  have,          \* object -> what it is
  shown          \* object -> what the informers show of it

vars == <<want, mirror, seen, have, shown>>

Init ==
  /\ want \in Specs
  /\ mirror = want
  /\ seen = want
  /\ have = [o \in Objects |-> Absent]
  /\ shown = have

\* The informers show what is there, or was there last, or what they did before.
Lag == /\ DOMAIN shown' = Objects
       /\ \A o \in Objects : shown'[o] \in {shown[o], have[o], have'[o]}

Edit ==
  /\ want' \in Specs
  /\ UNCHANGED <<mirror, seen, have, shown>>

Sync ==
  /\ mirror' = want
  /\ Lag /\ UNCHANGED <<want, seen, have>>

Observe ==
  /\ seen' = mirror
  /\ UNCHANGED <<want, mirror, have, shown>>

Show == Lag /\ UNCHANGED <<want, mirror, seen, have>>

Apply(o) ==
  /\ \E c \in Allowed(seen, o) : have' = [have EXCEPT ![o] = c]
  /\ Lag /\ UNCHANGED <<want, mirror, seen>>

\* An object that is not what it should be, or is not shown to be, may be
\* removed, to be made anew.
Discard(o) ==
  /\ Allowed(seen, o) # {}
  /\ ~({have[o], shown[o]} \subseteq Allowed(seen, o))
  /\ have' = [have EXCEPT ![o] = Absent]
  /\ Lag /\ UNCHANGED <<want, mirror, seen>>

Next ==
  \/ Edit \/ Sync \/ Observe \/ Show
  \/ \E o \in Objects : Apply(o) \/ Discard(o)

Spec == Init /\ [][Next]_vars
===========================================================================
