--------------------------- MODULE MCLedgerStories ---------------------------
(***************************************************************************)
(* Histories of one ledger, each with the requests and the bounds its      *)
(* question needs: buying and spending, a pause, the free allowance, two   *)
(* sessions at once, and, seen by the abstract account, a lot that a pause *)
(* extends and corrections of both signs; and one of any lot and any       *)
(* pauses of it, for the fold alone.  The story is chosen at the start and *)
(* kept.                                                                   *)
(***************************************************************************)
EXTENDS MCCreditLedger, LedgerAccount, LotExpiry

CONSTANT SecondSession

VARIABLE story

(* What a story uses of the requests and tiers, and its bounds.            *)
Story(requests, tiers, time, rows, most, sessions) ==
  [requests |-> requests, tiers |-> tiers, time |-> time, rows |-> rows,
   pauses |-> most, sessions |-> sessions]

One == Backends \ {SecondSession}
Stories ==
  [spending  |-> Story(SpendRequests,   {"paid"}, 3, 4, 0, One),
   pausing   |-> Story(PauseRequests,   {"paid"}, 4, 2, 2, One),
   minting   |-> Story(FreeRequests,    Tiers,    3, 3, 1, One),
   racing    |-> Story(RaceRequests,    {"paid"}, 3, 3, 0, Backends),
   accounted |-> Story(AccountRequests, {"paid"}, 3, 3, 1, One),
   adjusted  |-> Story(AdjustRequests,  {"paid"}, 3, 4, 0, One)]

IsWithin(s) ==
  /\ tier \in s.tiers /\ clock <= s.time /\ serial <= s.rows + 1
  /\ \A b \in s.sessions : Cardinality(tx[b].periods) <= s.pauses

(* What CreditLedger's Next is when there are no other sessions and no     *)
(* other requests.                                                         *)
StoryNext(s) ==
  \/ Tick \/ ChangeTier
  \/ \E b \in s.sessions :
       \/ \E req \in s.requests : Begin(b, req)
       \/ TakeLock(b) \/ Refuse(b) \/ Work(b) \/ Commit(b) \/ Rollback(b)

StoriesInit ==
  /\ Init /\ Observed
  /\ \/ /\ story \in DOMAIN Stories /\ IsWithin(Stories[story])
        /\ lotBorn = 0 /\ lotExp = 0 /\ lotPauses = {}
     \/ story = "expiring" /\ tier = "paid" /\ LotInit

StoriesNext ==
  /\ UNCHANGED story
  /\ \/ /\ story # "expiring"
        /\ LET s == Stories[story] IN StoryNext(s) /\ IsWithin(s)'
        /\ UNCHANGED lotVars
     \/ story = "expiring" /\ LotNext /\ UNCHANGED vars
  /\ IF story \in {"accounted", "adjusted"} THEN Observation ELSE UNCHANGED account

StoriesSpec == StoriesInit /\ [][StoriesNext]_<<vars, account, lotVars, story>>
=============================================================================
