------------------------------ MODULE MCAsync ------------------------------
(***************************************************************************)
(* Requests q1 with a callback that repeats the inference, and q2 without, *)
(* whose owner starts inferences, waits and lets go as it likes; or the    *)
(* application of samples/hello_request_classification alone.              *)
(***************************************************************************)
EXTENDS AsyncRequest

CONSTANTS q1, q2

CRepeats == [q \in Request |-> IF q = q1 THEN 3 ELSE 1]
=============================================================================
