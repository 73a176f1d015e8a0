-------------------------- MODULE MCBookingWindow ---------------------------
(* BookingWindow for TLC. *)
EXTENDS BookingWindow
Timings == {[prep |-> 3, auth |-> 1, poll |-> 2], [prep |-> 2, auth |-> 2, poll |-> 3],
            [prep |-> 0, auth |-> 0, poll |-> 1]}
=============================================================================
