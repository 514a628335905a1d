---------------------------- MODULE MCPeriodicNotes ----------------------------
(***************************************************************************)
(* A finite instance of PeriodicNotes: days around the ends of months, of  *)
(* a leap February, of a year and of an ISO year, and lists of two.        *)
(***************************************************************************)
EXTENDS PeriodicNotes, TLC

MCFirstDay == {Days(2024, 2, 29), Days(2024, 3, 31), Days(2024, 12, 31)}

Recent(g) == [kind |-> "recent", g |-> g, from |-> 0, count |-> 2]

MCCall == {Recent(g) : g \in Granularity}
          \cup {[kind |-> "one", g |-> "weekly", from |-> -1, count |-> 1],
                [kind |-> "weekly", g |-> "daily", from |-> 7, count |-> 2]}

\* Other folders for two granularities, one without a folder, and the rest not there.
Custom == [g \in {"daily", "weekly", "monthly"} |->
              [folder |-> IF g = "weekly" THEN "" ELSE "Journal", format |-> {"YYYY", "MM"}]]

MCFile == {Absent, Broken, Custom}

Callers == Permutations(Caller)
===============================================================================
