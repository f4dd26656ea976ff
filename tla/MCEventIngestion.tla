-------------------------- MODULE MCEventIngestion --------------------------
(* Instances of EventIngestion for TLC. *)
EXTENDS EventIngestion, TLC

CONSTANTS d1, d2, e1, e2, e3, e4, bad, odd, r1, r2

\* One device, whose retries overlap its own abandoned requests.
OneDevice == d1 :> {e1, e2, e3}

\* Oldest first: every batch keeps the order in which the device recorded.
OldestFirst ==
    {<<e1>>, <<e2>>, <<e3>>, <<e1, e2>>, <<e1, e3>>, <<e2, e3>>, <<e1, e2, e3>>}

\* Any order, an event that may be invalid (e3 or bad), one whose INSERT may
\* raise (bad) and one that may not be encoded (odd); a second device that
\* has only one event to upload.
WithBadEvent == d1 :> {e1, e2, e3, bad}
WithHealthyDevice == d1 :> {e1, e2, e3, bad, odd} @@ d2 :> {e4}
AnyOrder ==
    {<<e1>>, <<e2>>, <<bad>>, <<e1, e2>>, <<e2, e1>>,
     <<e1, bad>>, <<bad, e2>>, <<e1, bad, e2>>, <<e1, e2, bad>>, <<e2, e3>>}
AnyOrderOfBoth == AnyOrder \union {<<e4>>, <<odd, e1>>}

\* All that is in the outbox, oldest first, as UploadEventsWorker sends it.
WholeOutbox == {<<bad, e1>>, <<bad>>, <<e1>>}
BadFirst == d1 :> {bad, e1}
=============================================================================
