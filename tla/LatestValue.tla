---------------------------- MODULE LatestValue ----------------------------
(***************************************************************************)
(* What the hand-over from modbus_task to mqtt_pub_task promises: a mailbox *)
(* of one cell that keeps only the latest value.  The producer may         *)
(* overwrite a value nobody took; the consumer never takes the same        *)
(* deposit twice and never takes anything but the last deposit.            *)
(***************************************************************************)
EXTENDS Naturals

CONSTANT Value          \* the values that can be deposited

VARIABLES cell,         \* the last value deposited
          fresh,        \* it has not been taken yet
          out           \* the value the consumer holds

vars == <<cell, fresh, out>>

Init == /\ cell = 0
        /\ fresh = FALSE
        /\ out = 0

Put == /\ cell' \in Value
       /\ fresh' = TRUE
       /\ UNCHANGED out

Take == /\ fresh
        /\ out' = cell
        /\ fresh' = FALSE
        /\ UNCHANGED cell

\* The consumer starts over (a new connection) and forgets what it held.
Restart == /\ out' = 0
           /\ UNCHANGED <<cell, fresh>>

Next == Put \/ Take \/ Restart

Spec == Init /\ [][Next]_vars
=============================================================================
