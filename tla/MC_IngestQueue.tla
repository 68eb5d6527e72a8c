--------------------------- MODULE MC_IngestQueue ---------------------------
(* The ring at its minimum capacity of 8 with 4-bit counters, so that     *)
(* head_ and tail_ wrap after 16 pushes; 17 frames make the producer      *)
(* fill the ring, drop, and wrap.                                          *)
EXTENDS IngestQueue

MCCap == 8
MCW == 4
MCNFrames == 17
MCMaxClears == 1

=============================================================================
