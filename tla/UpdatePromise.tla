---------------------------- MODULE UpdatePromise ----------------------------
(***************************************************************************)
(* What a firmware update promises its user, whatever hops, retries, saved *)
(* packages and crashes it takes: the device only ever moves to a newer    *)
(* firmware, all at once, and "Update complete" is said only of a version  *)
(* the device already runs.                                                *)
(***************************************************************************)
EXTENDS Naturals

CONSTANTS Updaters,  \* programs that may update the device
          Versions,  \* firmware versions, oldest first
          Nothing    \* told to a user who has been promised nothing

VARIABLES running,   \* the version the device runs
          told       \* the version each updater says the device is now on

Init == running \in Versions /\ told = [u \in Updaters |-> Nothing]

\* The device restarts on a newer image.
Upgrade ==
  /\ \E v \in Versions : v > running /\ running' = v
  /\ UNCHANGED told

\* "Update complete - device is now on v."
Announce(u) ==
  /\ \E v \in Versions : v <= running /\ told' = [told EXCEPT ![u] = v]
  /\ UNCHANGED running

\* The message leaves the screen.
Withdraw(u) ==
  /\ told' = [told EXCEPT ![u] = Nothing]
  /\ UNCHANGED running

Next == Upgrade \/ \E u \in Updaters : Announce(u) \/ Withdraw(u)

Spec == Init /\ [][Next]_<<running, told>>
=============================================================================
