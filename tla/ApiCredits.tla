----------------------------- MODULE ApiCredits -----------------------------
(***************************************************************************)
(* What a group's API keys may ask for in a month: SubscriptionRateThrottle *)
(* counts the requests in the group's GroupInfo row, against the limit of   *)
(* the subscriptions that are active.                                       *)
(*                                                                         *)
(* A request reads the limit and the row (Begin), then the clock, and saves *)
(* the row (Finish); nothing is locked in between, and each statement is a  *)
(* transaction of its own.  Staff, and users of the website, who are held   *)
(* to the limit of a library, are left out.                                 *)
(***************************************************************************)
EXTENDS Integers, FiniteSets, FiniteSetsExt

CONSTANTS
  None,            \* NULL: no row, not used yet, no limit
  Requests,        \* requests that may be under way at once
  Plans,           \* SubscriptionPlans that a group may subscribe to
  MaxCredits,      \* max_api_credits_per_month of each
  DefaultCredits,  \* that of a group without a subscription
  FirstMonth, LastMonth,   \* the months that are explored, counted from some January
  MaxPerMonth      \* bound on the requests begun in a month

VARIABLES
  month,      \* the present month
  active,     \* the plans of the subscriptions that are active now
  groupInfo,  \* the GroupInfo row
  request,    \* what each request under way has read, and since when
  together,   \* those of them that overlap with another
  allowed,    \* how many requests were let through in each month
  blurred,    \* the months in which requests overlapped
  inForce     \* the limits that a request of this month may have read

vars == <<month, active, groupInfo, request, together, allowed, blurred, inForce>>

Months == FirstMonth .. LastMonth

\* add_limits: no limit in one plan is no limit in the sum.
AddLimits(x, y) == IF None \in {x, y} THEN None ELSE x + y

\* UsageLimits.combine
Combined(plans) ==
  MapThenFoldSet(AddLimits, 0, LAMBDA p : MaxCredits[p],
                 LAMBDA set : CHOOSE p \in set : TRUE, plans)

\* Subscription.compute_usage_limits
UsageLimit(plans) == IF plans = {} THEN DefaultCredits ELSE Combined(plans)

\* A new GroupInfo
Unused == [ current |-> 0, previous |-> 0, lastUsed |-> None ]

Init ==
  /\ month = FirstMonth
  /\ active = {}
  /\ groupInfo = None
  /\ request = [r \in Requests |-> None]
  /\ together = {}
  /\ allowed = [m \in Months |-> 0]
  /\ blurred = {}
  /\ inForce = { UsageLimit({}) }

-----------------------------------------------------------------------------
UnderWay == { r \in Requests : request[r] # None }

Year(m) == m \div 12
MonthOfYear(m) == (m % 12) + 1

\* A variant that forgets the turn of the year.
Precedes_SameYear(last, now) ==
  Year(last) = Year(now) /\ MonthOfYear(last) = MonthOfYear(now) - 1

Precedes(last, now) ==
  \/ Year(last) = Year(now) /\ MonthOfYear(last) = MonthOfYear(now) - 1
  \/ Year(last) = Year(now) - 1 /\ MonthOfYear(last) = 12 /\ MonthOfYear(now) = 1

Begin(r) ==
  /\ request[r] = None
  /\ allowed[month] + Cardinality(UnderWay) < MaxPerMonth
  /\ request' = [request EXCEPT ![r] =
       [ limit |-> UsageLimit(active), row |-> groupInfo, since |-> month ]]
  /\ together' = IF UnderWay = {} THEN together ELSE together \cup UnderWay \cup {r}
  /\ UNCHANGED <<month, active, groupInfo, allowed, blurred, inForce>>

\* Every column is saved as it was read or is computed here, also when the request
\* is refused.  Two requests that both find no row cannot both insert it.
Finish(r, now) ==
  LET read == IF request[r].row = None THEN Unused ELSE request[r].row
      last == IF read.lastUsed = None THEN now ELSE read.lastUsed
      spent == IF last = now THEN read.current ELSE 0
      refused == request[r].limit # None /\ spent >= request[r].limit
      inserts == request[r].row = None
      fails == inserts /\ groupInfo # None
  IN /\ request[r] # None /\ now \in request[r].since .. month
     /\ groupInfo' = IF fails THEN groupInfo
               ELSE [ current  |-> IF refused THEN read.current ELSE spent + 1,
                      previous |-> IF Precedes(last, now) THEN read.current ELSE read.previous,
                      lastUsed |-> IF refused THEN read.lastUsed ELSE now ]
     /\ allowed' = IF refused \/ fails THEN allowed ELSE [allowed EXCEPT ![now] = @ + 1]
     /\ request' = [request EXCEPT ![r] = None]
     /\ together' = together \ {r}
     /\ blurred' = IF r \in together THEN blurred \cup (request[r].since .. month) ELSE blurred
     /\ UNCHANGED <<month, active, inForce>>

Subscribe(plans) ==
  /\ active' = plans
  /\ inForce' = inForce \cup { UsageLimit(plans) }
  /\ UNCHANGED <<month, groupInfo, request, together, allowed, blurred>>

NextMonth ==
  /\ month < LastMonth
  /\ month' = month + 1
  /\ inForce' = { UsageLimit(active) } \cup { request[r].limit : r \in UnderWay }
  /\ UNCHANGED <<active, groupInfo, request, together, allowed, blurred>>

Next ==
  \/ \E r \in Requests : Begin(r) \/ \E now \in Months : Finish(r, now)
  \/ \E plans \in SUBSET Plans : Subscribe(plans)
  \/ NextMonth

Spec == Init /\ [][Next]_vars

-----------------------------------------------------------------------------
(* Properties.                                                             *)

\* A month in which no requests overlap is charged exactly, whatever happened in
\* the months before: the row counts the requests that were let through, they are
\* no more than a limit in force allows, and those of the month before, if it was
\* used and no requests overlapped in it either, are remembered, also over the turn
\* of the year (SubscriptionRateThrottle.allow_request).
CreditsAreExact ==
  month \notin blurred /\ together = {} =>
    LET used == groupInfo # None /\ groupInfo.lastUsed = month
    IN /\ allowed[month] = IF used THEN groupInfo.current ELSE 0
       /\ \E limit \in inForce : limit = None \/ allowed[month] <= limit
       /\ used /\ month - 1 \in Months \ blurred /\ allowed[month - 1] > 0
            => groupInfo.previous = allowed[month - 1]

=============================================================================
