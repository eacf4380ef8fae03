----------------------------- MODULE MCAiapidevPoll -----------------------------
(* AiapidevPoll for TLC: room for a few polls, a request that may take longer *)
(* than the interval, and a row of two failures.                              *)
EXTENDS AiapidevPoll
================================================================================
