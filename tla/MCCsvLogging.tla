----------------------------- MODULE MCCsvLogging -----------------------------
(***************************************************************************)
(* CsvLogging for TLC: the first log takes up to MaxSamples samples, one   *)
(* more than those after it, in the same process or in the next.           *)
(***************************************************************************)
EXTENDS CsvLogging

MCNext == Next /\ (turns > 1 /\ published' > published => published' < MaxSamples)

MCSpec == Init /\ [][MCNext]_vars /\ CsvFairness
===============================================================================
