----------------------------- MODULE EntryFees -----------------------------
(***************************************************************************)
(* Transfers become balances, balances become tournament entries, and      *)
(* entries of a tournament that is called off become balances again.       *)
(* Three programs share the tables: the transfer monitor and the loop over *)
(* pending tournaments, tasks of the tournament process (runner.py), and   *)
(* the refund endpoint, served by the API process.                         *)
(***************************************************************************)
EXTENDS Integers, FiniteSets, Sequences, Functions

CONSTANTS
  Tournaments,  (* tournaments created and still pending at the start       *)
  Hotkeys,      (* miners of the nodes table                                *)
  Coldkeys,     (* the accounts that pay for them                           *)
  Transfers,    (* payments to the validator's address                      *)
  Sender,       (* the coldkey of a transfer                                *)
  Sent,         (* the second of its block                                  *)
  Amount,       (* what it pays                                             *)
  Fee,          (* participation fee of a tournament                        *)
  MinMiners,    (* MIN_MINERS_FOR_TOURN                                     *)
  EventLimit,   (* balance events one query returns                         *)
  Requests,     (* refund requests the API serves at a time                 *)
  None,
  MaxMoves,     (* bound: hotkeys that change their coldkey                 *)
  MaxFaults     (* bound: failed statements, restarts                       *)

ASSUME AccountsAssumption ==
  /\ Sender \in [Transfers -> Coldkeys] /\ Sent \in [Transfers -> Nat]
  /\ Amount \in [Transfers -> Nat \ {0}] /\ Fee \in [Tournaments -> Nat \ {0}]
  /\ IsFiniteSet(Transfers) /\ IsFiniteSet(Hotkeys) /\ IsFiniteSet(Requests)
  /\ None \notin Transfers \cup Tournaments \cup Coldkeys

ASSUME LimitsAssumption ==
  /\ MinMiners \in Nat \ {0} /\ EventLimit \in Nat \ {0}
  /\ MaxMoves \in Nat /\ MaxFaults \in Nat

VARIABLES
  owner,    (* nodes: the coldkey of each hotkey                           *)
  moves,
  status,   (* tournaments.status                                          *)
  entered,  (* tournament_participants, the boss left out                  *)
  events,   (* balance_events, oldest first                                *)
  balance,  (* coldkey_balances.balance_rao                                *)
  chain,    (* transfers the TaoStats API knows                            *)
  stored,   (* the transfers table                                         *)
  cursor,   (* transfer_processing_state.last_processed_timestamp          *)
  monitor,  (* the transfer monitor                                        *)
  pop,      (* process_pending_tournaments                                 *)
  request,  (* the refund requests                                         *)
  faults    (* what failed so far                                          *)

accounts == <<events, balance>>
feed     == <<chain, stored, cursor, monitor>>
entries  == <<owner, moves, status, entered, pop>>
vars     == <<entries, accounts, feed, request, faults>>

-----------------------------------------------------------------------------
(* What the tables say                                                     *)

Kinds == {"store", "credit", "cursor", "enrol", "refund", "restart"}
AllFaults == faults["store"] + faults["credit"] + faults["cursor"]
             + faults["enrol"] + faults["refund"] + faults["restart"]
Fault(k) == AllFaults < MaxFaults /\ faults' = [faults EXCEPT ![k] = @ + 1]
NoFault == UNCHANGED faults

Event == [tournament : Tournaments, coldkey : Coldkeys, amount : Int]
IsFee(e) == e.amount < 0
Fees(t) == {i \in DOMAIN events : events[i].tournament = t /\ IsFee(events[i])}
HasPaid(t, c) == \E i \in Fees(t) : events[i].coldkey = c

\* What a coldkey's events among those of I come to.
Net(I, c) ==
  SumFunction([i \in {j \in I : events[j].coldkey = c} |-> events[i].amount])

EventsOf(t) == {i \in DOMAIN events : events[i].tournament = t}

\* get_balance_events_by_tournament: the newest ones.
Recent(t) ==
  {i \in EventsOf(t) : Cardinality({j \in EventsOf(t) : j > i}) < EventLimit}

\* Mutant: the refunds there have been are not netted.
OwedGross(t) ==
  [c \in Coldkeys |-> -Net(Recent(t) \cap Fees(t), c)]

\* Only a coldkey with a fee among the events is looked at.
Owed(t) ==
  [c \in Coldkeys |->
     IF Net(Recent(t), c) < 0
        /\ (\E i \in Recent(t) \cap Fees(t) : events[i].coldkey = c)
     THEN -Net(Recent(t), c) ELSE 0]

NoPass    == [at |-> "idle", todo |-> {}, now |-> None, high |-> 0]
NoTurn    == [at |-> "idle", t |-> None, queue |-> {}, picked |-> << >>]
NoDebt    == [c \in Coldkeys |-> 0]
NoRequest == [at |-> "idle", t |-> None, owed |-> NoDebt, now |-> None]

Init ==
  /\ owner \in [Hotkeys -> Coldkeys] /\ moves = 0
  /\ status = [t \in Tournaments |-> "pending"]
  /\ entered = [t \in Tournaments |-> {}]
  /\ events = << >> /\ balance = NoDebt
  /\ chain = {} /\ stored = {} /\ cursor = 0 /\ monitor = NoPass
  /\ pop = NoTurn /\ request = [r \in Requests |-> NoRequest]
  /\ faults = [k \in Kinds |-> 0]

-----------------------------------------------------------------------------
(* The transfer monitor                                                    *)

\* A miner pays; blocks come in the order of their timestamps.
Pay(x) ==
  /\ x \notin chain /\ \A y \in chain : Sent[y] <= Sent[x]
  /\ chain' = chain \cup {x}
  /\ UNCHANGED <<stored, cursor, monitor, entries, accounts, request, faults>>

\* Mutant: a transfer of the cursor's own second is taken for processed.
SinceExclusive(second) == {x \in chain : Sent[x] > second}

Since(second) == {x \in chain : Sent[x] >= second}

\* fetch_and_process_transfers reads its state and fetches every page.
BeginPass ==
  /\ monitor.at = "idle"
  /\ monitor' = [at |-> "store", todo |-> Since(cursor), now |-> None, high |-> cursor]
  /\ UNCHANGED <<chain, stored, cursor, entries, accounts, request, faults>>

Passed(x) == [monitor EXCEPT !.todo = @ \ {x}, !.high = IF @ < Sent[x] THEN Sent[x] ELSE @]

\* Mutant: the result of insert_transfer is not looked at.
StoreAndCredit(x) ==
  /\ monitor.at = "store" /\ x \in monitor.todo
  /\ stored' = stored \cup {x}
  /\ monitor' = [Passed(x) EXCEPT !.at = "credit", !.now = x]
  /\ UNCHANGED <<chain, cursor, entries, accounts, request, faults>>

\* insert_transfer; a transfer that was there already is not credited again.
StoreTransfer(x) ==
  /\ monitor.at = "store" /\ x \in monitor.todo
  /\ stored' = stored \cup {x}
  /\ monitor' = IF x \in stored THEN Passed(x)
                ELSE [Passed(x) EXCEPT !.at = "credit", !.now = x]
  /\ UNCHANGED <<chain, cursor, entries, accounts, request, faults>>

\* insert_transfer answers an error as it answers a transfer it has.
StoreFails(x) ==
  /\ monitor.at = "store" /\ x \in monitor.todo /\ Fault("store")
  /\ monitor' = Passed(x)
  /\ UNCHANGED <<chain, stored, cursor, entries, accounts, request>>

\* process_transfer_for_balance
Credit ==
  /\ monitor.at = "credit"
  /\ LET x == monitor.now IN balance' = [balance EXCEPT ![Sender[x]] = @ + Amount[x]]
  /\ monitor' = [monitor EXCEPT !.at = "store", !.now = None]
  /\ UNCHANGED <<chain, stored, cursor, events, entries, request, faults>>

\* Its errors are logged; the transfer counts as processed.
CreditFails ==
  /\ monitor.at = "credit" /\ Fault("credit")
  /\ monitor' = [monitor EXCEPT !.at = "store", !.now = None]
  /\ UNCHANGED <<chain, stored, cursor, entries, accounts, request>>

\* update_transfer_processing_state
MoveCursor ==
  /\ monitor.at = "store" /\ monitor.todo = {}
  /\ cursor' = monitor.high /\ monitor' = NoPass
  /\ UNCHANGED <<chain, stored, entries, accounts, request, faults>>

MoveFails ==
  /\ monitor.at = "store" /\ monitor.todo = {} /\ Fault("cursor")
  /\ monitor' = NoPass
  /\ UNCHANGED <<chain, stored, cursor, entries, accounts, request>>

-----------------------------------------------------------------------------
(* Pending tournaments get their participants                              *)

\* The pending tournaments that are left, one of them at a time.
Turns(queue) ==
  IF queue = {} THEN {NoTurn}
  ELSE {[at |-> "count", t |-> t, queue |-> queue \ {t}, picked |-> << >>] : t \in queue}

ReadPending ==
  /\ pop.at = "idle"
  /\ pop' \in Turns({t \in Tournaments : status[t] = "pending"})
  /\ UNCHANGED <<owner, moves, status, entered, accounts, feed, request, faults>>

Enough(t) == Cardinality(entered[t]) >= MinMiners

\* Nodes that have not entered and whose coldkey pays for nobody who has.
Eligible(t) ==
  {h \in Hotkeys \ entered[t] : \A g \in entered[t] : owner[g] # owner[h]}

OnePerColdkey(P) == \A g, h \in P : owner[g] = owner[h] => g = h

\* populate_tournament_participants up to the enrolments: the eligible nodes
\* are asked for their repository, and those that answer, pass the checks of
\* account, address, obfuscation and license and are the first of their
\* coldkey remain.  Their coldkeys are the ones read here.
CountMiners ==
  /\ pop.at = "count"
  /\ \/ Enough(pop.t) /\ pop' = [pop EXCEPT !.at = "activate"]
     \/ ~Enough(pop.t) /\ Eligible(pop.t) = {} /\ pop' \in Turns(pop.queue)
     \/ ~Enough(pop.t) /\ \E P \in SUBSET Eligible(pop.t) :
          /\ Eligible(pop.t) # {} /\ OnePerColdkey(P)
          /\ pop' = [pop EXCEPT !.at = "enrol", !.picked = [h \in P |-> owner[h]]]
  /\ UNCHANGED <<owner, moves, status, entered, accounts, feed, request, faults>>

Others(h) == [g \in DOMAIN pop.picked \ {h} |-> pop.picked[g]]

\* Mutant: only the participant row guards against a second fee.
ChargesByHotkey(t, h, c) == h \notin entered[t] /\ balance[c] >= Fee[t]

\* A first entry of the coldkey, of a miner who is not in, and covered.
Charges(t, h, c) == ~HasPaid(t, c) /\ h \notin entered[t] /\ balance[c] >= Fee[t]

\* enroll_tournament_participant_with_fee, one transaction: the entry, the
\* debit and its event, or nothing.
Enrol(h) ==
  /\ pop.at = "enrol" /\ h \in DOMAIN pop.picked
  /\ pop' = [pop EXCEPT !.picked = Others(h)]
  /\ LET t == pop.t
         c == pop.picked[h]
     IN  IF Charges(t, h, c)
         THEN /\ entered' = [entered EXCEPT ![t] = @ \cup {h}]
              /\ balance' = [balance EXCEPT ![c] = @ - Fee[t]]
              /\ events' = Append(events, [tournament |-> t, coldkey |-> c, amount |-> -Fee[t]])
         ELSE UNCHANGED <<entered, balance, events>>
  /\ UNCHANGED <<owner, moves, status, feed, request, faults>>

EnrolFails(h) ==
  /\ pop.at = "enrol" /\ h \in DOMAIN pop.picked /\ Fault("enrol")
  /\ pop' = [pop EXCEPT !.picked = Others(h)]
  /\ UNCHANGED <<owner, moves, status, entered, accounts, feed, request>>

\* Too few: the same tournament again, half an hour later.
EndEnrolments ==
  /\ pop.at = "enrol" /\ pop.picked = << >>
  /\ pop' = [pop EXCEPT !.at = "count"]
  /\ UNCHANGED <<owner, moves, status, entered, accounts, feed, request, faults>>

\* activate_pending_tournament, once.
Activate ==
  /\ pop.at = "activate"
  /\ status' = [status EXCEPT ![pop.t] = IF @ = "pending" THEN "active" ELSE @]
  /\ pop' \in Turns(pop.queue)
  /\ UNCHANGED <<owner, moves, entered, accounts, feed, request, faults>>

\* The nodes table is refreshed and a hotkey has another coldkey.
Rekey(h, c) ==
  /\ moves < MaxMoves /\ c # owner[h]
  /\ owner' = [owner EXCEPT ![h] = c] /\ moves' = moves + 1
  /\ UNCHANGED <<status, entered, pop, accounts, feed, request, faults>>

\* An operator calls a pending tournament off, in the database.
CallOff(t) ==
  /\ status[t] = "pending" /\ status' = [status EXCEPT ![t] = "cancelled"]
  /\ UNCHANGED <<owner, moves, entered, pop, accounts, feed, request, faults>>

-----------------------------------------------------------------------------
(* Refunds                                                                 *)

Set(r, v) == request' = [request EXCEPT ![r] = v]

\* refund_tournament_participants reads the events and nets them.
BeginRefund(r, t) ==
  /\ request[r].at = "idle" /\ Owed(t) # NoDebt
  /\ Set(r, [at |-> "refund", t |-> t, owed |-> Owed(t), now |-> None])
  /\ UNCHANGED <<entries, accounts, feed, faults>>

RecordRefund(r, c) ==
  /\ request[r].at = "refund" /\ request[r].owed[c] > 0
  /\ events' = Append(events, [tournament |-> request[r].t, coldkey |-> c,
                               amount |-> request[r].owed[c]])
  /\ Set(r, [request[r] EXCEPT !.at = "pay", !.now = c])
  /\ UNCHANGED <<balance, entries, feed, faults>>

\* create_balance_event failed: this coldkey is left for another request.
RecordFails(r, c) ==
  /\ request[r].at = "refund" /\ request[r].owed[c] > 0 /\ Fault("refund")
  /\ Set(r, [request[r] EXCEPT !.owed[c] = 0])
  /\ UNCHANGED <<entries, accounts, feed>>

Settled(r) == [request[r] EXCEPT !.at = "refund", !.owed[request[r].now] = 0, !.now = None]

\* add_refund_to_balance
PayRefund(r) ==
  /\ request[r].at = "pay"
  /\ balance' = [balance EXCEPT ![request[r].now] = @ + request[r].owed[request[r].now]]
  /\ Set(r, Settled(r))
  /\ UNCHANGED <<events, entries, feed, faults>>

\* Its answer is not looked at.
PayFails(r) ==
  /\ request[r].at = "pay" /\ Fault("refund")
  /\ Set(r, Settled(r))
  /\ UNCHANGED <<entries, accounts, feed>>

EndRefund(r) ==
  /\ request[r].at = "refund" /\ request[r].owed = NoDebt
  /\ Set(r, NoRequest)
  /\ UNCHANGED <<entries, accounts, feed, faults>>

-----------------------------------------------------------------------------
\* The tournament process dies and starts again; between the row of a transfer
\* and its credit, that credit fails.
RestartRunner ==
  /\ Fault(IF monitor.at = "credit" THEN "credit" ELSE "restart")
  /\ (monitor # NoPass \/ pop # NoTurn)
  /\ monitor' = NoPass /\ pop' = NoTurn
  /\ UNCHANGED <<owner, moves, status, entered, accounts, chain, stored, cursor, request>>

RestartApi ==
  /\ Fault(IF \E r \in Requests : request[r].at = "pay" THEN "refund" ELSE "restart")
  /\ \E r \in Requests : request[r] # NoRequest
  /\ request' = [r \in Requests |-> NoRequest]
  /\ UNCHANGED <<entries, accounts, feed>>

MonitorStep ==
  \/ BeginPass \/ Credit \/ MoveCursor
  \/ \E x \in Transfers : StoreTransfer(x)

PendingStep ==
  \/ ReadPending \/ CountMiners \/ EndEnrolments \/ Activate
  \/ \E h \in Hotkeys : Enrol(h)

RefundStep(r) ==
  \/ PayRefund(r) \/ EndRefund(r) \/ \E c \in Coldkeys : RecordRefund(r, c)

Failure ==
  \/ CreditFails \/ MoveFails \/ RestartRunner \/ RestartApi
  \/ \E x \in Transfers : StoreFails(x)
  \/ \E h \in Hotkeys : EnrolFails(h)
  \/ \E r \in Requests : PayFails(r) \/ \E c \in Coldkeys : RecordFails(r, c)

Next ==
  \/ MonitorStep \/ PendingStep \/ Failure
  \/ \E r \in Requests : RefundStep(r) \/ \E t \in Tournaments : BeginRefund(r, t)
  \/ \E x \in Transfers : Pay(x)
  \/ \E h \in Hotkeys, c \in Coldkeys : Rekey(h, c)
  \/ \E t \in Tournaments : CallOff(t)

Spec == Init /\ [][Next]_vars

\* The monitor's passes come every five minutes and end.
FairSpec == Spec /\ WF_vars(MonitorStep)

-----------------------------------------------------------------------------
(* Properties                                                              *)

Turn == [at : {"idle", "count", "enrol", "activate"}, t : Tournaments \cup {None},
         queue : SUBSET Tournaments, picked : UNION {[P -> Coldkeys] : P \in SUBSET Hotkeys}]
Pass == [at : {"idle", "store", "credit"}, todo : SUBSET Transfers,
         now : Transfers \cup {None}, high : Nat]
Request == [at : {"idle", "refund", "pay"}, t : Tournaments \cup {None},
            owed : [Coldkeys -> Nat], now : Coldkeys \cup {None}]

\* Every variable has its type, and a program that is busy knows with what.
TypeOK ==
  /\ owner \in [Hotkeys -> Coldkeys] /\ moves \in Nat
  /\ status \in [Tournaments -> {"pending", "active", "cancelled"}]
  /\ entered \in [Tournaments -> SUBSET Hotkeys]
  /\ events \in Seq(Event)
  /\ balance \in [Coldkeys -> Int]
  /\ chain \subseteq Transfers /\ stored \subseteq Transfers /\ cursor \in Nat
  /\ monitor \in Pass /\ pop \in Turn /\ request \in [Requests -> Request]
  /\ faults \in [Kinds -> Nat]
  /\ monitor.at = "credit" => monitor.now \in Transfers
  /\ pop.at # "idle" => pop.t \in Tournaments
  /\ \A r \in Requests :
       /\ request[r].at # "idle" => request[r].t \in Tournaments
       /\ request[r].at = "pay" => request[r].now \in Coldkeys

\* Whoever is in a tournament paid for it, once, and no coldkey pays for two
\* entries: restarts between enrolments, retries half an hour later and a
\* hotkey that moves to another coldkey between the count, the answer of its
\* miner and the transaction included.
EntriesArePaidOnce ==
  \A t \in Tournaments :
    /\ Cardinality(Fees(t)) = Cardinality(entered[t])
    /\ \A i, j \in Fees(t) : events[i].coldkey = events[j].coldkey => i = j

\* What refunds still owe to c's balance, their event being written.
InFlight(c) ==
  SumFunction([r \in Requests |-> IF request[r].at = "pay" /\ request[r].now = c
                                  THEN request[r].owed[c] ELSE 0])

\* No coldkey has more than its stored transfers, credited once each, less the
\* fees, plus the refunds the events show, nor less than nothing; and where no
\* credit and no refund failed, by itself or by a restart between the row that
\* announces it and the balance, it has exactly that.
StoredBy(c) == {x \in stored : Sender[x] = c /\ x # monitor.now}
BooksBalance ==
  \A c \in Coldkeys :
    LET due == SumFunction([x \in StoredBy(c) |-> Amount[x]]) + Net(DOMAIN events, c)
    IN  /\ 0 <= balance[c] /\ balance[c] + InFlight(c) <= due
        /\ faults["credit"] + faults["refund"] = 0 => balance[c] + InFlight(c) = due

\* Where one request is served at a time, nobody is refunded more than the
\* fees of the tournament, however often the request is repeated, whatever
\* fails in the middle of it.
NothingRefundedTwice ==
  Cardinality(Requests) = 1 =>
    \A t \in Tournaments, c \in Coldkeys :
      Net(EventsOf(t), c) <= 0

\* Every payment is stored and credited in the end, those of the cursor's
\* own second that came after it was moved there included, unless the
\* statement that stores it or the one that credits it failed.
EventuallyCredited ==
  \A x \in Transfers :
    x \in chain ~> \/ x \in stored /\ monitor.now # x
                   \/ faults["store"] + faults["credit"] > 0

=============================================================================
