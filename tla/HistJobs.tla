------------------------------ MODULE HistJobs ------------------------------
(***************************************************************************)
(* What twsgen works out (twsgen.cpp; tws_util.cpp, ib_strptime(),         *)
(* ib_duration2secs() and the short names).  Days are numbered, day 0 is a *)
(* Sunday.                                                                 *)
(***************************************************************************)
EXTENDS Integers, Sequences, FiniteSets, TLC

CONSTANTS
  Calendar,  (* The strings that are dates: [day, sec, kind], where kind is*)
             (* "day", "time" or "month"; a month has its first day.       *)
  Durations  (* The strings that are a number and a unit: [n, unit].       *)

DaySecs == 86400

ASSUME CalendarAssumption ==
  \A s \in DOMAIN Calendar :
    Calendar[s].day \in Nat \ (0..1000) /\ Calendar[s].sec \in Nat /\ Calendar[s].sec < DaySecs
ASSUME DurationsAssumption ==
  \A s \in DOMAIN Durations : Durations[s].n \in Int

IntMax == 2147483647

(***************************************************************************)
(* Utilities.                                                              *)
(***************************************************************************)

Units == [S |-> 1, D |-> DaySecs, W |-> DaySecs * 7, M |-> DaySecs * 30, Y |-> DaySecs * 365]

(* ib_duration2secs()                                                      *)
Duration2Secs(s) ==
  IF s \notin DOMAIN Durations THEN -1
  ELSE LET d == Durations[s]
       IN  IF d.unit \notin DOMAIN Units \/ d.n < 0 \/ d.n > IntMax \div Units[d.unit]
           THEN -1 ELSE d.n * Units[d.unit]

(* ib_strptime() and ib_date2iso() know days, and days with a time.        *)
IsDate(s) == s \in DOMAIN Calendar /\ Calendar[s].kind # "month"

ShortBarSize ==
  [s \in {"1 secs", "5 secs", "15 secs", "30 secs", "1 min", "2 mins", "3 mins",
          "5 mins", "15 mins", "30 mins", "1 hour", "4 hour", "1 day", "1 week",
          "1 month", "3 months", "1 year"} |-> s]

(* short_bar_size(): its names are as good as those they are short for.    *)
ShortBar(bar) == IF bar \in DOMAIN ShortBarSize THEN ShortBarSize[bar] ELSE "00N"

(***************************************************************************)
(* Options.                                                                *)
(***************************************************************************)

(* max_durationStr()                                                       *)
MaxDurations ==
  ("1 secs" :> "2000 S") @@ ("5 secs" :> "10000 S") @@ ("15 secs" :> "30000 S")
  @@ ("30 secs" :> "86400 S")
  @@ [b \in {"1 min", "2 mins", "3 mins", "5 mins"} |-> "6 D"]
  @@ ("15 mins" :> "20 D")
  @@ [b \in {"30 mins", "1 hour", "4 hours"} |-> "34 D"]
  @@ ("1 day" :> "1 Y")

(* get_inc_exp()                                                           *)
IncludeExpired(mode, secType) ==
  mode = "always" \/ (mode = "auto" /\ secType \in {"OPT", "FUT", "FOP", "WAR"})

(***************************************************************************)
(* min_begin_date()                                                        *)
(***************************************************************************)

Weekday(day) == day % 7

Weekend(day) == Weekday(day) \in {0, 6}

(* Faulty: a Sunday jumps to Saturday.                                     *)
FridayOff(day) == IF Weekend(day) THEN day - 1 ELSE day

(* Saturday or Sunday jumps to Friday.                                     *)
Friday(day) ==
  CASE Weekday(day) = 0 -> day - 2
    [] Weekday(day) = 6 -> day - 1
    [] OTHER -> day

(* Monday jumps to Friday.                                                 *)
DayBefore(day) == IF Weekday(day) = 1 THEN day - 3 ELSE day - 1

(* Less than a week back.                                                  *)
DaysBefore(day, n) ==
  LET back[i \in 0..4] == IF i = 0 THEN day ELSE DayBefore(back[i - 1])
  IN  back[n]

(* Full weeks are jumped over.  The jump to Friday is for free.            *)
BeginDay(end, days) ==
  LET busy == IF Weekend(end) THEN days - 1 ELSE days
  IN  IF busy < 0 THEN Friday(end)
      ELSE DaysBefore(Friday(end) - 7 * (busy \div 5), busy % 5)

(* time_t 0, when end or duration cannot be understood.                    *)
NoBegin == [day |-> 0, sec |-> 0]

MinBeginDate(end, dur) ==
  IF ~IsDate(end) \/ Duration2Secs(dur) = -1 THEN NoBegin
  ELSE [day |-> BeginDay(Calendar[end].day, Duration2Secs(dur) \div DaySecs),
        sec |-> Calendar[end].sec]

Before(d, begin) == d.day < begin.day \/ (d.day = begin.day /\ d.sec < begin.sec)

(* skip_expiry(), for an expiry that is a date.                            *)
SkipExpiry(expiry, begin) == expiry # "" /\ Before(Calendar[expiry], begin)

(* gen_csv(): strcmp() of the expiry and the option max_expiry.            *)
Newer(expiry, max) ==
  /\ expiry # "" /\ max # ""
  /\ LET e == Calendar[expiry]
         m == Calendar[max]
     IN  e.day > m.day \/ (e.day = m.day /\ e.kind = "time"
                              /\ (m.kind = "day" \/ e.sec > m.sec))

(***************************************************************************)
(* What min_begin_date() is for: "first business day data is expected".    *)
(***************************************************************************)

BusinessDays(first, last) == {d \in first..last : ~Weekend(d)}

(* The first day is a business day with as many business days up to the end*)
(* as the duration has days; or with one, when the duration is less than a *)
(* day and the end on a weekend.                                           *)
BeginsWell(end, dur) ==
  LET last  == Calendar[end].day
      days  == Duration2Secs(dur) \div DaySecs
      first == MinBeginDate(end, dur).day
      busy  == Cardinality(BusinessDays(first, last - 1))
  IN  /\ first <= last /\ ~Weekend(first)
      /\ busy = days \/ (days = 0 /\ Weekend(last) /\ busy = 1)
=============================================================================
