----------------------------- MODULE PeriodicNotes -----------------------------
(***************************************************************************)
(* Periodic notes (internal/periodic/periodic.go) and the calls that list  *)
(* several of them: get_recent_periodic_notes, and the weekly_review       *)
(* prompt.  The dates of a list come from one reading of the clock, and    *)
(* the path of each from another, some reads of notes later.  The          *)
(* configuration of the Obsidian plugin is read by the first call and kept *)
(* from then on; nothing is locked, so that several calls may be the       *)
(* first.                                                                  *)
(*                                                                         *)
(* Dates are numbers of days since 1970-01-01, in the calendar of package  *)
(* time, and the clock is read as a day.  A format is the set of its       *)
(* tokens and a name the values of them: literals, paddings and the order  *)
(* are left out, which the default formats can do without.                 *)
(***************************************************************************)
EXTENDS Integers, Sequences

CONSTANTS
    Caller,         \* requests under way at the same time
    FirstDay,       \* days on which the server may start
    Call,           \* what is asked: a kind, a granularity, an offset and a number
    File,           \* what the file of the plugin may hold: a configuration or
    Absent, Broken, \* nothing, or no JSON
    MaxCount,       \* bound on the entries of a list
    MaxMidnights,   \* bound on the nights
    MaxEdits,       \* bound on the changes of the file
    None            \* no configuration, no call

VARIABLES
    now,            \* the day
    nights,         \* how many there have been
    file, edits,    \* the file, and how often it was changed
    cache,          \* configCache
    loader,         \* the call that set it
    raced,          \* two calls have set it
    pc, call,       \* what each caller does, and what it has asked
    base,           \* the day RecentDates read
    i,              \* periods back from it
    cfg,            \* what LoadConfig has read
    list            \* the entries so far

locals == <<pc, call, base, i, cfg, list>>
vars   == <<now, nights, file, edits, cache, loader, raced, locals>>

Granularity == {"daily", "weekly", "monthly", "quarterly", "yearly"}
Token       == {"YYYY", "MM", "DD", "gggg", "ww", "Q"}

\* The formats of defaultConfig.
Default ==
    [g \in Granularity |->
        [folder |-> g,
         format |-> CASE g = "daily"     -> {"YYYY", "MM", "DD"}
                      [] g = "weekly"    -> {"gggg", "ww"}
                      [] g = "monthly"   -> {"YYYY", "MM"}
                      [] g = "quarterly" -> {"YYYY", "Q"}
                      [] g = "yearly"    -> {"YYYY"}]]

Folder   == Granularity \cup {"", "Journal"}
Settings == [folder : Folder, format : SUBSET Token]

IsConfig(f) == DOMAIN f \subseteq Granularity /\ f \in [DOMAIN f -> Settings]

ASSUME PeriodicConstants ==
    /\ FirstDay \subseteq Nat /\ MaxMidnights \in Nat /\ MaxEdits \in Nat /\ MaxCount \in Nat
    /\ Call \subseteq [kind : {"one", "recent", "weekly"}, g : Granularity, from : Int, count : 1..MaxCount]
    /\ \A r \in Call : r.kind = "weekly" => r.g = "daily"
    /\ \A f \in File \ {Absent, Broken} : IsConfig(f) /\ f # None
    /\ None # Default /\ None \notin Call /\ None \notin Caller

------------------------------------------------------------------------------
\* The calendar of package time

Leap(y) == y % 4 = 0 /\ (y % 100 # 0 \/ y % 400 = 0)
LeapsBefore(y) == (y - 1) \div 4 - (y - 1) \div 100 + (y - 1) \div 400
BeforeMonth == <<0, 31, 59, 90, 120, 151, 181, 212, 243, 273, 304, 334>>

\* time.Date: the day may be beyond the end of the month.
Days(y, m, d) == 365 * (y - 1970) + LeapsBefore(y) - LeapsBefore(1970)
                 + BeforeMonth[m] + (IF m > 2 /\ Leap(y) THEN 1 ELSE 0) + d - 1

\* 400 years are 146097 days, and no year begins far from where it would if all were alike.
MeanYear(n) == 1970 + (400 * n) \div 146097
Year(n)  == CHOOSE y \in MeanYear(n) - 1..MeanYear(n) + 1 :
                Days(y, 1, 1) <= n /\ n < Days(y + 1, 1, 1)
Month(n) == LET y == Year(n) IN
            CHOOSE m \in 1..12 : Days(y, m, 1) <= n /\ (m < 12 => n < Days(y, m + 1, 1))
Day(n)   == n - Days(Year(n), Month(n), 1) + 1

\* time.AddDate normalises: 31 March less a month is 31 February, which is 3 March.
AddDate(n, years, months, days) ==
    LET m == Month(n) - 1 + months
    IN  Days(Year(n) + years + m \div 12, (m % 12) + 1, Day(n) + days)

\* time.ISOWeek: a week is of the year its Thursday is in.
Thursday(n) == n - ((n + 3) % 7) + 3
ISOYear(n)  == Year(Thursday(n))
ISOWeek(n)  == (Thursday(n) - Days(ISOYear(n), 1, 1)) \div 7 + 1

------------------------------------------------------------------------------
\* Resolve and RecentDates

applyOffset_Bug(g, n, offset) ==         \* a quarter back is a month back
    CASE g = "daily"     -> AddDate(n, 0, 0, offset)
      [] g = "weekly"    -> AddDate(n, 0, 0, 7 * offset)
      [] g \in {"monthly", "quarterly"} -> AddDate(n, 0, offset, 0)
      [] g = "yearly"    -> AddDate(n, offset, 0, 0)

\* granularityOffset
applyOffset(g, n, offset) ==
    CASE g = "daily"     -> AddDate(n, 0, 0, offset)
      [] g = "weekly"    -> AddDate(n, 0, 0, 7 * offset)
      [] g = "monthly"   -> AddDate(n, 0, offset, 0)
      [] g = "quarterly" -> AddDate(n, 0, 3 * offset, 0)
      [] g = "yearly"    -> AddDate(n, offset, 0, 0)

formatMoment_Bug(format, n) ==           \* the week with the year of the day
    [token \in format |->
        CASE token = "YYYY" -> Year(n)
          [] token = "MM"   -> Month(n)
          [] token = "DD"   -> Day(n)
          [] token = "gggg" -> Year(n)
          [] token = "ww"   -> ISOWeek(n)
          [] token = "Q"    -> (Month(n) - 1) \div 3 + 1]

formatMoment(format, n) ==
    [token \in format |->
        CASE token = "YYYY" -> Year(n)
          [] token = "MM"   -> Month(n)
          [] token = "DD"   -> Day(n)
          [] token = "gggg" -> ISOYear(n)
          [] token = "ww"   -> ISOWeek(n)
          [] token = "Q"    -> (Month(n) - 1) \div 3 + 1]

Init ==
    /\ now \in FirstDay /\ nights = 0
    /\ file \in File /\ edits = 0
    /\ cache = None /\ loader = None /\ raced = FALSE
    /\ pc = [c \in Caller |-> "idle"]
    /\ call = [c \in Caller |-> None]
    /\ base = [c \in Caller |-> 0]
    /\ i = [c \in Caller |-> 0]
    /\ cfg = [c \in Caller |-> None]
    /\ list = [c \in Caller |-> <<>>]

At(c, step) == pc' = [pc EXCEPT ![c] = step]

\* RecentDates reads the clock; a single note has no other date than its path's.
Begin(c) ==
    /\ pc[c] = "idle"
    /\ \E r \in Call : /\ call' = [call EXCEPT ![c] = r]
                       /\ i' = [i EXCEPT ![c] = r.from]
    /\ base' = [base EXCEPT ![c] = now]
    /\ At(c, "load")
    /\ UNCHANGED <<now, nights, file, edits, cache, loader, raced, cfg, list>>

\* LoadConfig: what is cached, or the file.
UseCache(c) ==
    /\ pc[c] = "load" /\ cache # None
    /\ cfg' = [cfg EXCEPT ![c] = cache]
    /\ At(c, "resolve")
    /\ UNCHANGED <<now, nights, file, edits, cache, loader, raced, call, base, i, list>>

FindNoCache(c) ==
    /\ pc[c] = "load" /\ cache = None
    /\ At(c, "read")
    /\ UNCHANGED <<now, nights, file, edits, cache, loader, raced, call, base, i, cfg, list>>

ReadFile(c) ==
    /\ pc[c] = "read" /\ file # Broken
    /\ cfg' = [cfg EXCEPT ![c] = IF file = Absent THEN Default ELSE file]
    /\ At(c, "store")
    /\ UNCHANGED <<now, nights, file, edits, cache, loader, raced, call, base, i, list>>

StoreCache(c) ==
    /\ pc[c] = "store"
    /\ cache' = cfg[c] /\ loader' = c
    /\ raced' = (raced \/ cache # None)
    /\ At(c, "resolve")
    /\ UNCHANGED <<now, nights, file, edits, call, base, i, cfg, list>>

\* On to the next entry, or to the answer.
Proceed(c) ==
    /\ i' = [i EXCEPT ![c] = @ + 1]
    /\ cfg' = [cfg EXCEPT ![c] = None]
    /\ At(c, IF i[c] + 1 < call[c].from + call[c].count THEN "load" ELSE "done")
    /\ UNCHANGED <<now, nights, file, edits, cache, loader, raced, call, base>>

Error_Bug(c) == list' = list /\ Proceed(c)    \* every call goes on after an error

\* get_recent_periodic_notes returns the error; weekly_review leaves the day out.
Error(c) == /\ IF call[c].kind = "weekly" THEN list' = list
               ELSE list' = [list EXCEPT ![c] = <<>>]
            /\ IF call[c].kind = "weekly" THEN Proceed(c)
               ELSE /\ i' = [i EXCEPT ![c] = 0] /\ cfg' = [cfg EXCEPT ![c] = None]
                    /\ base' = [base EXCEPT ![c] = 0] /\ call' = [call EXCEPT ![c] = None]
                    /\ At(c, "idle")
                    /\ UNCHANGED <<now, nights, file, edits, cache, loader, raced>>

\* A broken file is an error of this time only.
LoadFails(c) == pc[c] = "read" /\ file = Broken /\ Error(c)

Configured(c) == LET g == call[c].g
                 IN  g \in DOMAIN cfg[c] /\ cfg[c][g].folder # ""

\* The clock is read again.
Resolve(c) ==
    /\ pc[c] = "resolve" /\ Configured(c)
    /\ LET g == call[c].g
       IN  list' = [list EXCEPT ![c] = Append(@,
                       [date   |-> applyOffset(g, base[c], -i[c]),
                        clock  |-> now,
                        folder |-> cfg[c][g].folder,
                        name   |-> formatMoment(cfg[c][g].format, applyOffset(g, now, -i[c]))])]
    /\ Proceed(c)

\* The granularity is not configured; or the map that another call has published
\* without synchronisation is read as empty, which the Go memory model allows.
ResolveFails(c) == /\ pc[c] = "resolve"
                   /\ ~ Configured(c) \/ loader # c
                   /\ Error(c)

Answer(c) ==
    /\ pc[c] = "done"
    /\ list' = [list EXCEPT ![c] = <<>>]
    /\ call' = [call EXCEPT ![c] = None]
    /\ base' = [base EXCEPT ![c] = 0]
    /\ i' = [i EXCEPT ![c] = 0]
    /\ At(c, "idle")
    /\ UNCHANGED <<now, nights, file, edits, cache, loader, raced, cfg>>

------------------------------------------------------------------------------
Midnight ==
    /\ nights < MaxMidnights
    /\ nights' = nights + 1 /\ now' = now + 1
    /\ UNCHANGED <<file, edits, cache, loader, raced, locals>>

\* Obsidian writes the settings of the plugin.
Edit ==
    /\ edits < MaxEdits
    /\ edits' = edits + 1
    /\ file' \in File \ {file}
    /\ UNCHANGED <<now, nights, cache, loader, raced, locals>>

Step(c) == \/ Begin(c) \/ UseCache(c) \/ FindNoCache(c) \/ ReadFile(c) \/ StoreCache(c)
           \/ LoadFails(c) \/ Resolve(c) \/ ResolveFails(c) \/ Answer(c)

Next == Midnight \/ Edit \/ \E c \in Caller : Step(c)

Spec == Init /\ [][Next]_vars

------------------------------------------------------------------------------
\* Properties

IsEntry(e) == /\ DOMAIN e = {"date", "clock", "folder", "name"}
              /\ e.date \in Int /\ e.clock \in Nat /\ e.folder \in Folder
              /\ DOMAIN e.name \subseteq Token /\ e.name \in [DOMAIN e.name -> Int]

\* The locals of a call are of their types and at rest when there is none, and a list
\* is as long as the entries it has been asked for, except where an error left one out.
TypeOK ==
    /\ now \in Nat /\ nights \in 0..MaxMidnights
    /\ file \in File /\ edits \in 0..MaxEdits
    /\ (cache # None => IsConfig(cache)) /\ loader \in Caller \cup {None} /\ raced \in BOOLEAN
    /\ (cache = None) <=> (loader = None)
    /\ pc \in [Caller -> {"idle", "load", "read", "store", "resolve", "done"}]
    /\ call \in [Caller -> Call \cup {None}]
    /\ base \in [Caller -> Nat] /\ i \in [Caller -> Int]
    /\ DOMAIN cfg = Caller /\ DOMAIN list = Caller
    /\ \A c \in Caller :
          /\ cfg[c] # None => IsConfig(cfg[c])
          /\ \A k \in DOMAIN list[c] : IsEntry(list[c][k])
          /\ (pc[c] = "idle") <=> (call[c] = None)
          /\ (pc[c] \in {"store", "resolve"}) <=> (cfg[c] # None)
          /\ IF pc[c] = "idle" THEN list[c] = <<>> /\ i[c] = 0
             ELSE /\ i[c] \in call[c].from..call[c].from + call[c].count
                  /\ Len(list[c]) <= i[c] - call[c].from
                  /\ call[c].kind # "weekly" => Len(list[c]) = i[c] - call[c].from

\* The number of a period: the day, the week from Monday, the month, and so on.
Period(g, n) == CASE g = "daily"     -> n
                  [] g = "weekly"    -> (n + 3) \div 7
                  [] g = "monthly"   -> 12 * Year(n) + Month(n)
                  [] g = "quarterly" -> 4 * Year(n) + (Month(n) - 1) \div 3
                  [] g = "yearly"    -> Year(n)

Listed == {p \in Caller \X (1..MaxCount) : p[2] \in DOMAIN list[p[1]]}
EntryAt(p) == list[p[1]][p[2]]

\* The entry is named after the day its date is computed from.
InTime(p) == EntryAt(p).clock = base[p[1]]
Usual(p)  == DOMAIN EntryAt(p).name = Default[call[p[1]].g].format

\* Two entries with the default formats are of one note exactly if their dates are of
\* one period, also across the years of weeks, as long as no midnight has passed
\* since their calls began; a daily note is late by as many days as have.  All paths
\* are of one configuration, whatever is edited, unless two calls were the first.
PathsNameTheirDates ==
    /\ \A p, q \in Listed :
          LET g == call[p[1]].g IN
          call[q[1]].g = g /\ InTime(p) /\ InTime(q) /\ Usual(p) /\ Usual(q) =>
              (EntryAt(p).name = EntryAt(q).name
               <=> Period(g, EntryAt(p).date) = Period(g, EntryAt(q).date))
    /\ \A p \in Listed : call[p[1]].g = "daily" /\ Usual(p) =>
          LET e == EntryAt(p)
          IN  Days(e.name["YYYY"], e.name["MM"], e.name["DD"]) = e.date + e.clock - base[p[1]]
    /\ ~ raced => \A p \in Listed : EntryAt(p).folder = cache[call[p[1]].g].folder

\* The entries of a list are of the periods asked for, one after the other, and none
\* is missing or there twice.  Exception: in the last days of a month the month
\* before, or the quarter, may have no such day; AddDate goes on into the next, so
\* that the period before is missing and the one after it there twice.
NotesAreConsecutive ==
    \A p \in Listed :
        LET r == call[p[1]]
            back == r.from + p[2] - 1
            late == Period(r.g, EntryAt(p).date) - (Period(r.g, base[p[1]]) - back)
        IN  IF r.kind = "weekly"
            THEN /\ base[p[1]] - EntryAt(p).date \in r.from..r.from + r.count - 1
                 /\ p[2] > 1 => EntryAt(p).date < EntryAt(<<p[1], p[2] - 1>>).date
            ELSE late \in IF r.g \in {"monthly", "quarterly"} /\ Day(base[p[1]]) > 28
                          THEN {0, 1} ELSE {0}
===============================================================================
