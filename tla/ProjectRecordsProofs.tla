------------------------ MODULE ProjectRecordsProofs ------------------------
(***************************************************************************)
(* Theorems about the records that the commands keep of a project, for any *)
(* number of commands at work at once: the life cycle of the TIPs, for     *)
(* every plan, and the escalation log, for any number of records.          *)
(***************************************************************************)
EXTENDS TipState, EscalationLog, FiniteSetTheorems, TLAPS

(* The TIPs                                                                  *)

\* A plan that a command may write back at any time.
Good(plan) == plan \in Plans /\ \A t \in Tips : Accounted(plan[t])

TipInv ==
    /\ saved # Broken => Good(saved)
    /\ held \in [Procs -> Plans \union {Free}]
    /\ \A p \in Procs : held[p] # Free => Good(held[p])

-----------------------------------------------------------------------------

\* _record keeps the type of a TIP.
LEMMA RecordTypes ==
    ASSUME NEW tip \in Tip, NEW from \in States, NEW to \in States
    PROVE  Recorded(tip, from, to) \in Tip
  BY DEF Recorded, Tip, Entries

\* _record from the state the TIP is in keeps the chain, provided an acceptance follows
\* the entry of a verification that follows a report.
LEMMA RecordAccounts ==
    ASSUME NEW tip \in Tip, Accounted(tip), NEW to \in States,
           to = "accepted" =>
               LET h == tip.history IN
               Len(h) > 1 /\ h[Len(h)].to = "verified" /\ h[Len(h) - 1].to = "reported"
    PROVE  Accounted(Recorded(tip, tip.state, to))
<1> DEFINE h == tip.history
           e == [from |-> tip.state, to |-> to]
           g == Append(h, e)
<1>1. h \in Seq(Entries) /\ tip.state \in States /\ e \in Entries
  BY DEF Tip, Entries
<1>2. /\ Len(g) = Len(h) + 1 /\ Len(h) \in Nat
      /\ g[Len(g)] = e
      /\ \A i \in 1..Len(h) : g[i] = h[i]
  BY <1>1
<1>3. /\ Recorded(tip, tip.state, to).state = to
      /\ Recorded(tip, tip.state, to).history = g
  BY DEF Recorded
<1>4. g # <<>> /\ g[Len(g)].to = to
  BY <1>1, <1>2
<1>5. tip.state = IF h = <<>> THEN "planned" ELSE h[Len(h)].to
  BY DEF Accounted
<1>6. h = <<>> <=> Len(h) = 0
  BY <1>1
<1>7. ASSUME NEW i \in 1..Len(g)
      PROVE  /\ g[i].from = IF i = 1 THEN "planned" ELSE g[i - 1].to
             /\ g[i].to = "accepted" =>
                    i > 2 /\ g[i - 1].to = "verified" /\ g[i - 2].to = "reported"
  <2>1. CASE i = Len(g)
    <3>1. g[i].from = tip.state /\ g[i].to = to
      BY <2>1, <1>2
    <3>2. i = 1 => h = <<>>
      BY <2>1, <1>2, <1>6
    <3>3. i # 1 => h # <<>> /\ g[i - 1] = h[Len(h)]
      BY <2>1, <1>2, <1>6
    <3>4. to = "accepted" => i > 2 /\ g[i - 1] = h[Len(h)] /\ g[i - 2] = h[Len(h) - 1]
      BY <2>1, <1>2
    <3> QED BY <3>1, <3>2, <3>3, <3>4, <1>5
  <2>2. CASE i # Len(g)
    <3>1. i \in 1..Len(h) /\ (i # 1 => i - 1 \in 1..Len(h)) /\ (i > 2 => i - 2 \in 1..Len(h))
      BY <2>2, <1>2
    <3>2. /\ h[i].from = IF i = 1 THEN "planned" ELSE h[i - 1].to
          /\ h[i].to = "accepted" =>
                 i > 2 /\ h[i - 1].to = "verified" /\ h[i - 2].to = "reported"
      BY <3>1 DEF Accounted
    <3> QED BY <3>1, <3>2, <1>2
  <2> QED BY <2>1, <2>2
<1> HIDE DEF g, h
<1> DEFINE r == Recorded(tip, tip.state, to)
<1>8. r.state = to /\ r.history = g
  BY <1>3
<1> HIDE DEF r
<1>9. r.state = IF r.history = <<>> THEN "planned" ELSE r.history[Len(r.history)].to
  BY <1>4, <1>8
<1>10. ASSUME NEW i \in 1..Len(r.history)
       PROVE  /\ r.history[i].from = IF i = 1 THEN "planned" ELSE r.history[i - 1].to
              /\ r.history[i].to = "accepted" =>
                     /\ i > 2
                     /\ r.history[i - 1].to = "verified" /\ r.history[i - 2].to = "reported"
  BY <1>7, <1>8
<1>11. Accounted(r)
  BY <1>9, <1>10, Zenon DEF Accounted
<1> QED BY <1>11 DEF r

\* A passed verification: two entries at once.
LEMMA AcceptAccounts ==
    ASSUME NEW tip \in Tip, Accounted(tip), tip.state = "reported"
    PROVE  LET v == Recorded(Recorded(tip, "reported", "verified"), "verified", "accepted")
           IN  v \in Tip /\ Accounted(v)
<1> DEFINE u == Recorded(tip, "reported", "verified")
<1>1. u \in Tip /\ u.state = "verified"
  BY RecordTypes DEF Recorded, States
<1>2. Accounted(u)
  BY RecordAccounts DEF States
<1>3. tip.history \in Seq(Entries) /\ u.history = Append(tip.history,
                                                         [from |-> "reported", to |-> "verified"])
  BY DEF Recorded, Tip
<1>4. tip.history # <<>> /\ tip.history[Len(tip.history)].to = "reported"
  BY DEF Accounted
<1>5. /\ Len(u.history) > 1
      /\ u.history[Len(u.history)].to = "verified"
      /\ u.history[Len(u.history) - 1].to = "reported"
  <2>1. [from |-> "reported", to |-> "verified"] \in Entries
    BY DEF Entries, States
  <2>2. Len(tip.history) \in Nat /\ Len(tip.history) > 0
    BY <1>3, <1>4
  <2> QED BY <1>3, <1>4, <2>1, <2>2
<1> HIDE DEF u
<1>6. Accounted(Recorded(u, u.state, "accepted"))
  BY <1>1, <1>2, <1>5, RecordAccounts DEF States
<1>7. Recorded(u, "verified", "accepted") \in Tip
  BY <1>1, RecordTypes DEF States
<1> QED BY <1>1, <1>6, <1>7 DEF u

LEMMA FailAccounts ==
    ASSUME NEW tip \in Tip, Accounted(tip), tip.state = "reported"
    PROVE  LET v == Recorded(Recorded(tip, "reported", "failed"), "failed", "repair_required")
           IN  v \in Tip /\ Accounted(v)
<1> DEFINE u == Recorded(tip, "reported", "failed")
<1>1. u \in Tip /\ u.state = "failed"
  BY RecordTypes DEF Recorded, States
<1>2. Accounted(u)
  BY RecordAccounts DEF States
<1> HIDE DEF u
<1>3. Accounted(Recorded(u, u.state, "repair_required"))
  BY <1>1, <1>2, RecordAccounts DEF States
<1>4. Recorded(u, "failed", "repair_required") \in Tip
  BY <1>1, RecordTypes DEF States
<1> QED BY <1>1, <1>3, <1>4 DEF u

\* What a command has loaded and changed at one TIP is a good plan again.
LEMMA HoldsGood ==
    ASSUME TipInv, NEW p \in Procs, NEW t \in Tips, NEW tip, saved # Broken,
           tip \in Tip, Accounted(tip), Holds(p, t, tip)
    PROVE  TipInv'
<1> DEFINE plan == [saved EXCEPT ![t] = tip]
<1>1. Good(saved)
  BY DEF TipInv
<1>2. Good(plan)
  <2>1. plan \in Plans
    BY <1>1 DEF Good, Plans
  <2>2. \A u \in Tips : plan[u] = IF u = t THEN tip ELSE saved[u]
    BY <1>1 DEF Good, Plans
  <2> HIDE DEF plan
  <2> QED BY <1>1, <2>1, <2>2 DEF Good
<1>3. saved' = saved /\ held' = [held EXCEPT ![p] = plan]
  BY DEF Holds
<1> HIDE DEF plan
<1>4. /\ held' \in [Procs -> Plans \union {Free}]
      /\ \A q \in Procs : held'[q] = IF q = p THEN plan ELSE held[q]
  BY <1>2, <1>3 DEF TipInv, Good
<1> QED BY <1>1, <1>2, <1>3, <1>4 DEF TipInv

LEMMA PlannedGood == Good(Planned)
<1>1. <<>> \in Seq(Entries) /\ Len(<<>>) = 0
  OBVIOUS
<1>2. Planned \in Plans
  BY <1>1 DEF Planned, Plans, Tip, States
<1>3. \A t \in Tips : Planned[t].state = "planned" /\ Planned[t].history = <<>>
  BY DEF Planned
<1>4. ASSUME NEW t \in Tips PROVE Accounted(Planned[t])
  <2>1. Planned[t].state = "planned" /\ Planned[t].history = <<>>
    BY <1>3
  <2>2. 1..Len(Planned[t].history) = {}
    BY <1>1, <2>1
  <2> QED BY <2>1, <2>2 DEF Accounted
<1> QED BY <1>2, <1>4 DEF Good

LEMMA TipInvKept == TipInv /\ [TipNext]_tipVars => TipInv'
<1> SUFFICES ASSUME TipInv, [TipNext]_tipVars PROVE TipInv'
  OBVIOUS
<1>1. ASSUME NEW p \in Procs, NEW t \in Tips, Loads(p, t)
      PROVE  saved # Broken /\ saved[t] \in Tip /\ Accounted(saved[t]) /\ saved[t].state \in States
  BY <1>1 DEF Loads, TipInv, Good, Plans, Tip
<1>2. ASSUME NEW p \in Procs, NEW t \in Tips, Assign(p, t) PROVE TipInv'
  <2>1. Loads(p, t) /\ Holds(p, t, Recorded(saved[t], saved[t].state, "assigned"))
    BY <1>2 DEF Assign
  <2>2. "assigned" \in States /\ "assigned" # "accepted"
    BY DEF States
  <2>3. /\ Recorded(saved[t], saved[t].state, "assigned") \in Tip
        /\ Accounted(Recorded(saved[t], saved[t].state, "assigned"))
    BY <1>1, <2>1, <2>2, RecordTypes, RecordAccounts
  <2> QED BY <1>1, <2>1, <2>3, HoldsGood
<1>3. ASSUME NEW p \in Procs, NEW t \in Tips, NEW s \in Statuses, NEW e \in BOOLEAN,
             IngestReport(p, t, s, e)
      PROVE  TipInv'
  <2>1. Loads(p, t) /\ Holds(p, t, Recorded(saved[t], saved[t].state, Moves(s)))
    BY <1>3 DEF IngestReport
  <2>2. Moves(s) \in States /\ Moves(s) # "accepted"
    BY DEF Moves, States, Statuses
  <2>3. /\ Recorded(saved[t], saved[t].state, Moves(s)) \in Tip
        /\ Accounted(Recorded(saved[t], saved[t].state, Moves(s)))
    BY <1>1, <2>1, <2>2, RecordTypes, RecordAccounts
  <2> QED BY <1>1, <2>1, <2>3, HoldsGood
<1>4. ASSUME NEW p \in Procs, NEW t \in Tips, NEW passed \in BOOLEAN, Verify(p, t, passed)
      PROVE  TipInv'
  <2>1. Loads(p, t) /\ saved[t].state = "reported"
    BY <1>4 DEF Verify
  <2>2. CASE passed
    BY <1>1, <1>4, <2>1, <2>2, AcceptAccounts, HoldsGood DEF Verify
  <2>3. CASE ~passed
    BY <1>1, <1>4, <2>1, <2>3, FailAccounts, HoldsGood DEF Verify
  <2> QED BY <2>2, <2>3
<1>5. ASSUME NEW p \in Procs, Save(p) PROVE TipInv'
  BY <1>5 DEF Save, TipInv, Good
<1>6. ASSUME NEW p \in Procs, Die(p) PROVE TipInv'
  BY <1>6 DEF Die, TipInv, Good
<1>7. ASSUME NEW p \in Procs, InitFrom(p) PROVE TipInv'
  <2>1. held' \in [Procs -> Plans \union {Free}]
    BY <1>7, PlannedGood DEF InitFrom, TipInv, Good
  <2>2. \A q \in Procs : held'[q] = IF q = p THEN Planned ELSE held[q]
    BY <1>7 DEF InitFrom, TipInv
  <2> QED BY <1>7, <2>1, <2>2, PlannedGood DEF InitFrom, TipInv
<1>8. CASE UNCHANGED tipVars
  BY <1>8 DEF tipVars, TipInv
<1> QED BY <1>2, <1>3, <1>4, <1>5, <1>6, <1>7, <1>8 DEF TipNext

LEMMA TipInvHolds == TipSpec => []TipInv
<1>1. TipInit => TipInv
  BY PlannedGood DEF TipInit, TipInv
<1> QED BY <1>1, TipInvKept, PTL DEF TipSpec

-----------------------------------------------------------------------------

\* The file, when it can be read, and what commands hold are plans.
THEOREM TipTypes == TipSpec => []TipTypeOK
<1>1. TipInv => TipTypeOK
  BY DEF TipInv, Good, TipTypeOK
<1> QED BY <1>1, TipInvHolds, PTL

\* No history tells of an acceptance without report and verification, however many
\* commands overwrite each other's files.
THEOREM TipHistoryAccounts == TipSpec => []HistoryAccounts
<1>1. TipInv => HistoryAccounts
  BY DEF TipInv, Good, HistoryAccounts
<1> QED BY <1>1, TipInvHolds, PTL

-----------------------------------------------------------------------------
(* The escalation log                                                        *)

\* No text takes up all the numbers up to one more than its length.
LEMMA FreeNumber ==
    ASSUME NEW text \in Seq(Records)
    PROVE  \E n \in 1..Len(text) + 1 : n \notin Used(text)
<1> DEFINE L == Len(text)
<1> SUFFICES ASSUME 1..L + 1 \subseteq Used(text) PROVE FALSE
  OBVIOUS
<1>1. L \in Nat
  OBVIOUS
<1> HIDE DEF L
<1>2. \A n \in 1..L + 1 : \E i \in 1..L : text[i].id = n
  BY DEF Used, L
<1> DEFINE f == [n \in 1..L + 1 |-> CHOOSE i \in 1..L : text[i].id = n]
<1>3. \A n \in 1..L + 1 : f[n] \in 1..L /\ text[f[n]].id = n
  BY <1>2
<1>4. f \in [1..L + 1 -> 1..L]
  BY <1>3
<1>5. /\ IsFiniteSet(1..L + 1) /\ Cardinality(1..L + 1) = L + 1
      /\ IsFiniteSet(1..L) /\ Cardinality(1..L) = L
  BY <1>1, FS_Interval
<1>6. Cardinality(1..L) < Cardinality(1..L + 1)
  BY <1>1, <1>5
<1> HIDE DEF f
<1>7. \E m, n \in 1..L + 1 : m # n /\ f[m] = f[n]
  BY <1>4, <1>5, <1>6, FS_PigeonHole
<1> QED BY <1>3, <1>7

\* A nonempty set of numbers has a least one.
LEMMA LeastNumber ==
    ASSUME NEW T \in SUBSET Nat, T # {}
    PROVE  \E n \in T : \A k \in T : n <= k
<1>1. \E n \in T : \A k \in T : <<k, n>> \notin OpToRel(<, Nat)
  BY NatLessThanWellFounded, WFMin
<1>2. \E n \in T : \A k \in T : ~(k < n)
  <2>1. \A k, n \in T : <<k, n>> \in OpToRel(<, Nat) <=> k < n
    BY Zenon DEF OpToRel
  <2> QED BY <1>1, <2>1, Zenon
<1> QED BY <1>2

\* _next_id gives a number that no record has, and the least such.
LEMMA NextIdIsFree ==
    ASSUME NEW text \in Seq(Records)
    PROVE  NextId(text) \in 1..Len(text) + 1 /\ NextId(text) \notin Used(text)
<1> DEFINE T == {n \in 1..Len(text) + 1 : n \notin Used(text)}
<1>1. Len(text) \in Nat
  OBVIOUS
<1>2. T \in SUBSET Nat /\ T # {}
  BY <1>1, FreeNumber
<1>3. PICK n \in T : \A k \in T : n <= k
  BY <1>2, LeastNumber
<1>4. n \in 1..Len(text) + 1 /\ n \notin Used(text) /\ \A k \in 1..n - 1 : k \in Used(text)
  BY <1>1, <1>3
<1> HIDE DEF T
<1> QED BY <1>4 DEF NextId

(* The inductive invariant: as long as commands have not overlapped, what    *)
(* the one command under way has read is still what the log says.            *)
Told ==
    ~overlapped /\ log # Garbage =>
        /\ Len(promised.raised) = Len(log)
        /\ \A i \in 1..Len(log) : promised.raised[i] = log[i].id
        /\ \A k \in 1..Len(promised.resolved) : promised.resolved[k] \in Used(log)

Alone ==
    ~overlapped => \A v, w \in Writers : doing[v] # Idle /\ doing[w] # Idle => v = w

\* What is to be written closes the records of the number and changes nothing else.
Resolves(d) ==
    /\ Len(d.text) = Len(log)
    /\ \A i \in 1..Len(log) : /\ d.text[i].id = log[i].id
                              /\ d.text[i].open = (log[i].open /\ log[i].id # d.id)

Fresh ==
    ~overlapped =>
        \A w \in Writers : doing[w] # Idle =>
            /\ log # Garbage
            /\ doing[w].cmd = "raise" => doing[w].id \notin Used(log)
            /\ doing[w].cmd = "resolve" => Resolvable(doing[w].id) /\ Resolves(doing[w])

EscInv == EscTypeOK /\ LogAsPromised /\ Told /\ Alone /\ Fresh

\* A resolution changes one record and no number.
LEMMA RewrittenLog ==
    ASSUME log \in Seq(Records), NEW id
    PROVE  /\ Rewritten(id) \in Seq(Records) /\ Len(Rewritten(id)) = Len(log)
           /\ \A i \in 1..Len(log) :
                /\ Rewritten(id)[i].id = log[i].id
                /\ Rewritten(id)[i].open = (log[i].open /\ log[i].id # id)
<1> DEFINE t == Rewritten(id)
<1>1. \A i \in 1..Len(log) : log[i] \in Records
  OBVIOUS
<1>2. t = [i \in 1..Len(log) |->
             IF log[i].id = id THEN [log[i] EXCEPT !.open = FALSE] ELSE log[i]]
  BY DEF Rewritten
<1>3. \A i \in 1..Len(log) : /\ t[i] \in Records
                             /\ t[i].id = log[i].id
                             /\ t[i].open = (log[i].open /\ log[i].id # id)
  BY <1>1, <1>2 DEF Records
<1>4. Len(log) \in Nat /\ t \in [1..Len(log) -> Records]
  <2>1. t = [i \in 1..Len(log) |-> t[i]]
    BY <1>2, Zenon
  <2> QED BY <1>3, <2>1
<1>5. t \in Seq(Records) /\ Len(t) = Len(log)
  BY <1>4
<1> QED BY <1>3, <1>5

\* What one more report changes.
LEMMA Reported ==
    ASSUME NEW p \in [raised : Seq(Ids), resolved : Seq(Ids)], NEW q
    PROVE  /\ [p EXCEPT !.raised = q] = [raised |-> q, resolved |-> p.resolved]
           /\ [p EXCEPT !.resolved = q] = [raised |-> p.raised, resolved |-> q]
  OBVIOUS

\* A command begins: alone, it has read what the log says.
LEMMA BeginsKeeps ==
    ASSUME EscInv, NEW w \in Writers, NEW cmd \in {"raise", "resolve"}, NEW id \in Ids,
           NEW text \in Seq(Records), Begins(w, cmd, id, text),
           cmd = "raise" => id \notin Used(log),
           cmd = "resolve" => Resolvable(id) /\ text = Rewritten(id)
    PROVE  EscInv'
<1> DEFINE d == [cmd |-> cmd, id |-> id, text |-> text]
<1>1. /\ doing[w] = Idle /\ log # Garbage /\ UNCHANGED <<log, promised>>
      /\ doing' = [doing EXCEPT ![w] = d]
      /\ overlapped' = (overlapped \/ \E v \in Writers : doing[v] # Idle)
  BY DEF Begins
<1>2. EscTypeOK'
  BY <1>1 DEF EscInv, EscTypeOK
<1>3. /\ ~overlapped' => ~overlapped /\ \A v \in Writers : v # w => doing'[v] = Idle
      /\ doing'[w] = d
  BY <1>1 DEF EscInv, EscTypeOK
<1>4. LogAsPromised' /\ Told'
  BY <1>1, <1>3 DEF EscInv, LogAsPromised, Told, Used
<1>5. Alone'
  BY <1>3 DEF Alone
<1>6. Fresh'
  <2>1. cmd = "resolve" => Resolves(d)
    <3>1. log \in Seq(Records)
      BY <1>1 DEF EscInv, EscTypeOK
    <3> QED BY <3>1, RewrittenLog DEF Resolves
  <2> SUFFICES ASSUME ~overlapped', NEW v \in Writers, doing'[v] # Idle
               PROVE  (/\ log # Garbage
                       /\ doing[v].cmd = "raise" => doing[v].id \notin Used(log)
                       /\ doing[v].cmd = "resolve" => Resolvable(doing[v].id) /\ Resolves(doing[v]))'
    BY DEF Fresh
  <2>2. doing'[v] = d
    BY <1>3
  <2> QED BY <1>1, <2>1, <2>2 DEF Used, Resolvable, Resolves
<1> QED BY <1>2, <1>4, <1>5, <1>6 DEF EscInv

\* A command ends, and with it, if there was no other, the work on the log.
LEMMA EndsAlone ==
    ASSUME EscInv, NEW w \in Writers, doing[w] # Idle,
           doing' = [doing EXCEPT ![w] = Idle], overlapped' = overlapped
    PROVE  Alone' /\ Fresh'
<1>1. ~overlapped => \A v \in Writers : doing'[v] = Idle
  BY DEF EscInv, EscTypeOK, Alone
<1> QED BY <1>1 DEF Alone, Fresh

\* The escalation is appended, under a number that no record has and no resolution names.
LEMMA RaisedKeeps ==
    ASSUME EscInv, NEW w \in Writers, FinishWrite(w), doing[w].cmd = "raise"
    PROVE  EscInv'
<1> DEFINE id == doing[w].id
           r == [id |-> id, open |-> TRUE]
<1>1. /\ doing[w] # Idle /\ id \in Ids /\ r \in Records
      /\ doing' = [doing EXCEPT ![w] = Idle] /\ overlapped' = overlapped
      /\ log' = (IF log = Garbage THEN Garbage ELSE Append(log, r))
      /\ promised' = [promised EXCEPT !.raised = Append(promised.raised, id)]
      /\ promised \in [raised : Seq(Ids), resolved : Seq(Ids)]
  BY DEF FinishWrite, EscInv, EscTypeOK, Records
<1>2. /\ promised.raised \in Seq(Ids) /\ promised.resolved \in Seq(Ids)
      /\ promised'.raised = Append(promised.raised, id) /\ promised'.resolved = promised.resolved
      /\ promised' \in [raised : Seq(Ids), resolved : Seq(Ids)]
  <2> DEFINE q == Append(promised.raised, id)
  <2>1. promised' = [promised EXCEPT !.raised = q] /\ q \in Seq(Ids)
    BY <1>1
  <2> HIDE DEF q
  <2>2. promised' = [raised |-> q, resolved |-> promised.resolved]
    BY <1>1, <2>1, Reported
  <2> QED BY <1>1, <2>1, <2>2 DEF q
<1>3. EscTypeOK'
  BY <1>1, <1>2 DEF EscInv, EscTypeOK
<1>4. Alone' /\ Fresh'
  BY <1>1, EndsAlone
<1>5. ASSUME ~overlapped', log' # Garbage
      PROVE  /\ log \in Seq(Records) /\ log' = Append(log, r) /\ id \notin Used(log)
             /\ LogAsPromised /\ Told /\ ~overlapped /\ log # Garbage
  BY <1>1, <1>5 DEF EscInv, EscTypeOK, Fresh
<1> HIDE DEF r
<1>6. ASSUME ~overlapped', log' # Garbage
      PROVE  /\ Len(log') = Len(log) + 1 /\ Len(log) \in Nat
             /\ \A i \in 1..Len(log) : log'[i] = log[i] /\ log[i].id # id
             /\ log'[Len(log) + 1].id = id /\ log'[Len(log) + 1].open = TRUE
  BY <1>5, <1>6 DEF r, Used
<1>7. Told'
  <2> SUFFICES ASSUME ~overlapped', log' # Garbage
               PROVE  /\ Len(promised'.raised) = Len(log')
                      /\ \A i \in 1..Len(log') : promised'.raised[i] = log'[i].id
                      /\ \A k \in 1..Len(promised'.resolved) : promised'.resolved[k] \in Used(log')
    BY DEF Told, Used
  <2>1. Len(promised.raised) = Len(log) /\ \A i \in 1..Len(log) : promised.raised[i] = log[i].id
    BY <1>5 DEF Told
  <2>2. Used(log) \subseteq Used(log')
    BY <1>6 DEF Used
  <2>3. \A k \in 1..Len(promised.resolved) : promised.resolved[k] \in Used(log)
    BY <1>5 DEF Told
  <2> QED BY <1>2, <1>6, <2>1, <2>2, <2>3
<1>8. LogAsPromised'
  <2> SUFFICES ASSUME ~overlapped', log' # Garbage
               PROVE  (/\ [i \in 1..Len(log) |-> log[i].id] = promised.raised
                       /\ \A i, j \in 1..Len(log) : log[i].id = log[j].id => i = j
                       /\ \A i \in 1..Len(log) :
                              log[i].open <=> \A k \in 1..Len(promised.resolved) :
                                                  promised.resolved[k] # log[i].id
                       /\ \A k, l \in 1..Len(promised.resolved) :
                              promised.resolved[k] = promised.resolved[l] => k = l)'
    BY DEF LogAsPromised
  <2>1. /\ promised'.raised \in Seq(Ids) /\ Len(promised'.raised) = Len(log')
        /\ \A i \in 1..Len(log') : promised'.raised[i] = log'[i].id
    BY <1>2, <1>7 DEF Told
  <2>2. [i \in 1..Len(log') |-> log'[i].id] = promised'.raised
    BY <2>1
  <2>3. \A k \in 1..Len(promised.resolved) : promised.resolved[k] # id
    BY <1>5, <1>6 DEF Told, Used
  <2>4. \A i, j \in 1..Len(log') : log'[i].id = log'[j].id => i = j
    BY <1>5, <1>6 DEF LogAsPromised
  <2>5. \A i \in 1..Len(log') : log'[i].open <=> \A k \in 1..Len(promised.resolved) :
                                                    promised.resolved[k] # log'[i].id
    <3>1. \A i \in 1..Len(log') : i \in 1..Len(log) \/ i = Len(log) + 1
      BY <1>6
    <3>2. \A i \in 1..Len(log) : log'[i].open <=> \A k \in 1..Len(promised.resolved) :
                                                     promised.resolved[k] # log'[i].id
      BY <1>5, <1>6 DEF LogAsPromised
    <3> QED BY <1>6, <2>3, <3>1, <3>2
  <2> QED BY <1>2, <1>5, <2>2, <2>4, <2>5 DEF LogAsPromised
<1> QED BY <1>3, <1>4, <1>7, <1>8 DEF EscInv

\* The log is written back with the records of the number closed, and no others.
LEMMA ResolvedKeeps ==
    ASSUME EscInv, NEW w \in Writers, FinishWrite(w), doing[w].cmd = "resolve"
    PROVE  EscInv'
<1> DEFINE id == doing[w].id
           text == doing[w].text
<1>1. /\ doing[w] # Idle /\ id \in Ids /\ text \in Seq(Records)
      /\ doing' = [doing EXCEPT ![w] = Idle] /\ overlapped' = overlapped
      /\ log' = text
      /\ promised' = [promised EXCEPT !.resolved = Append(promised.resolved, id)]
      /\ promised \in [raised : Seq(Ids), resolved : Seq(Ids)]
  BY DEF FinishWrite, EscInv, EscTypeOK
<1>2. /\ promised.raised \in Seq(Ids) /\ promised.resolved \in Seq(Ids)
      /\ promised'.resolved = Append(promised.resolved, id) /\ promised'.raised = promised.raised
      /\ promised' \in [raised : Seq(Ids), resolved : Seq(Ids)]
  <2> DEFINE q == Append(promised.resolved, id)
  <2>1. promised' = [promised EXCEPT !.resolved = q] /\ q \in Seq(Ids)
    BY <1>1
  <2> HIDE DEF q
  <2>2. promised' = [raised |-> promised.raised, resolved |-> q]
    BY <1>1, <2>1, Reported
  <2> QED BY <1>1, <2>1, <2>2 DEF q
<1>3. EscTypeOK'
  BY <1>1, <1>2 DEF EscInv, EscTypeOK
<1>4. Alone' /\ Fresh'
  BY <1>1, EndsAlone
<1>5. ASSUME ~overlapped'
      PROVE  /\ log \in Seq(Records) /\ log # Garbage /\ ~overlapped
             /\ Resolvable(id) /\ Resolves(doing[w])
  BY <1>1, <1>5 DEF EscInv, EscTypeOK, Fresh
<1>6. ASSUME ~overlapped'
      PROVE  /\ Len(log') = Len(log) /\ Len(log) \in Nat
             /\ \A i \in 1..Len(log) : /\ log'[i].id = log[i].id
                                       /\ log'[i].open = (log[i].open /\ log[i].id # id)
  BY <1>1, <1>5, <1>6 DEF Resolves
<1> HIDE DEF id, text
<1>7. Told'
  <2> SUFFICES ASSUME ~overlapped', log' # Garbage
               PROVE  /\ Len(promised'.raised) = Len(log')
                      /\ \A i \in 1..Len(log') : promised'.raised[i] = log'[i].id
                      /\ \A k \in 1..Len(promised'.resolved) : promised'.resolved[k] \in Used(log')
    BY DEF Told, Used
  <2>1. /\ Len(promised.raised) = Len(log)
        /\ \A i \in 1..Len(log) : promised.raised[i] = log[i].id
        /\ \A k \in 1..Len(promised.resolved) : promised.resolved[k] \in Used(log)
    BY <1>5 DEF EscInv, Told
  <2>2. Used(log') = Used(log)
    BY <1>6 DEF Used
  <2>3. id \in Used(log)
    BY <1>5 DEF Resolvable
  <2>4. \A k \in 1..Len(promised'.resolved) : promised'.resolved[k] \in Used(log')
    BY <1>2, <2>1, <2>2, <2>3
  <2>5. /\ Len(promised'.raised) = Len(log')
        /\ \A i \in 1..Len(log') : promised'.raised[i] = log'[i].id
    BY <1>2, <1>6, <2>1
  <2> QED BY <2>4, <2>5
<1>8. LogAsPromised'
  <2> SUFFICES ASSUME ~overlapped', log' # Garbage
               PROVE  (/\ [i \in 1..Len(log) |-> log[i].id] = promised.raised
                       /\ \A i, j \in 1..Len(log) : log[i].id = log[j].id => i = j
                       /\ \A i \in 1..Len(log) :
                              log[i].open <=> \A k \in 1..Len(promised.resolved) :
                                                  promised.resolved[k] # log[i].id
                       /\ \A k, l \in 1..Len(promised.resolved) :
                              promised.resolved[k] = promised.resolved[l] => k = l)'
    BY DEF LogAsPromised
  <2>1. /\ \A i, j \in 1..Len(log) : log[i].id = log[j].id => i = j
        /\ \A i \in 1..Len(log) :
               log[i].open <=> \A k \in 1..Len(promised.resolved) :
                                   promised.resolved[k] # log[i].id
        /\ \A k, l \in 1..Len(promised.resolved) :
               promised.resolved[k] = promised.resolved[l] => k = l
    BY <1>5 DEF EscInv, LogAsPromised
  <2>2. [i \in 1..Len(log') |-> log'[i].id] = promised'.raised
    <3>1. /\ promised'.raised \in Seq(Ids) /\ Len(promised'.raised) = Len(log')
          /\ \A i \in 1..Len(log') : promised'.raised[i] = log'[i].id
      BY <1>1, <1>2, <1>3, <1>7 DEF Told, EscTypeOK
    <3> QED BY <3>1
  <2>3. \A k \in 1..Len(promised.resolved) : promised.resolved[k] # id
    BY <1>5, <2>1 DEF Resolvable, Used
  <2>4. \A i \in 1..Len(log') : log'[i].open <=> \A k \in 1..Len(promised'.resolved) :
                                                    promised'.resolved[k] # log'[i].id
    <3> SUFFICES ASSUME NEW i \in 1..Len(log)
                 PROVE  log'[i].open <=> \A k \in 1..Len(promised'.resolved) :
                                            promised'.resolved[k] # log[i].id
      BY <1>6
    <3>1. (\A k \in 1..Len(promised'.resolved) : promised'.resolved[k] # log[i].id)
            <=> (/\ \A k \in 1..Len(promised.resolved) : promised.resolved[k] # log[i].id
                 /\ id # log[i].id)
      <4> DEFINE old == promised.resolved
                 new == promised'.resolved
      <4>1. /\ Len(new) = Len(old) + 1 /\ Len(old) \in Nat
            /\ \A k \in 1..Len(old) : new[k] = old[k]
            /\ new[Len(old) + 1] = id
        BY <1>1, <1>2
      <4> HIDE DEF old, new
      <4>2. 1..Len(new) = 1..Len(old) \union {Len(old) + 1}
        BY <4>1
      <4>3. (\A k \in 1..Len(new) : new[k] # log[i].id)
              <=> ((\A k \in 1..Len(old) : old[k] # log[i].id) /\ id # log[i].id)
        BY <4>1, <4>2
      <4> QED BY <4>3 DEF old, new
    <3> QED BY <1>6, <2>1, <3>1
  <2>5. \A k, l \in 1..Len(promised'.resolved) :
            promised'.resolved[k] = promised'.resolved[l] => k = l
    BY <1>1, <1>2, <2>1, <2>3
  <2> QED BY <1>6, <2>1, <2>2, <2>4, <2>5
<1> QED BY <1>3, <1>4, <1>7, <1>8 DEF EscInv

\* A command that dies leaves the log as it was, or no log, or it is known to have died.
LEMMA PerishKeeps ==
    ASSUME EscInv, NEW w \in Writers, Perish(w)
    PROVE  EscInv'
<1>1. doing[w] # Idle /\ doing' = [doing EXCEPT ![w] = Idle] /\ promised' = promised
  BY DEF Perish
<1>2. CASE UNCHANGED <<log, overlapped>>
  <2>1. EscTypeOK'
    BY <1>1, <1>2 DEF EscInv, EscTypeOK
  <2>2. Alone' /\ Fresh'
    BY <1>1, <1>2, EndsAlone
  <2>3. LogAsPromised'
    BY <1>1, <1>2 DEF EscInv, LogAsPromised
  <2>4. Told'
    BY <1>1, <1>2 DEF EscInv, Told, Used
  <2> QED BY <2>1, <2>2, <2>3, <2>4 DEF EscInv
<1>3. CASE log' = Garbage /\ UNCHANGED overlapped
  <2>1. EscTypeOK'
    BY <1>1, <1>3 DEF EscInv, EscTypeOK
  <2>2. Alone' /\ Fresh'
    BY <1>1, <1>3, EndsAlone
  <2> QED BY <1>3, <2>1, <2>2 DEF EscInv, LogAsPromised, Told
<1>4. ASSUME NEW n \in 0..Len(doing[w].text) - 1, log' = SubSeq(doing[w].text, 1, n),
             overlapped' = TRUE
      PROVE  EscInv'
  <2>1. doing[w].text \in Seq(Records)
    BY <1>1 DEF EscInv, EscTypeOK
  <2> DEFINE t == doing[w].text
  <2> HIDE DEF t
  <2>2. log' \in Seq(Records)
    <3>1. \A s \in Seq(Records) : \A m \in 0..Len(s) - 1 : SubSeq(s, 1, m) \in Seq(Records)
      OBVIOUS
    <3> QED BY <1>4, <2>1, <3>1
  <2>3. EscTypeOK'
    BY <1>1, <1>4, <2>2 DEF EscInv, EscTypeOK
  <2> QED BY <1>4, <2>3 DEF EscInv, LogAsPromised, Told, Alone, Fresh
<1> QED BY <1>2, <1>3, <1>4 DEF Perish

LEMMA EscInvKept == EscInv /\ [EscNext]_escVars => EscInv'
<1> SUFFICES ASSUME EscInv, [EscNext]_escVars PROVE EscInv'
  OBVIOUS
<1>1. ASSUME NEW w \in Writers, RaiseEscalation(w) PROVE EscInv'
  <2>1. log \in Seq(Records) /\ Len(log) < MaxRaised
    BY <1>1 DEF RaiseEscalation, EscInv, EscTypeOK
  <2>2. NextId(log) \in 1..Len(log) + 1 /\ NextId(log) \notin Used(log)
    BY <2>1, NextIdIsFree
  <2>3. NextId(log) \in Ids
    BY <2>1, <2>2, EscalationAssumption DEF Ids
  <2>4. Begins(w, "raise", NextId(log), <<>>) /\ <<>> \in Seq(Records)
    BY <1>1 DEF RaiseEscalation
  <2> DEFINE id == NextId(log)
             text == <<>>
  <2>5. id \in Ids /\ id \notin Used(log) /\ Begins(w, "raise", id, text) /\ text \in Seq(Records)
    BY <2>2, <2>3, <2>4
  <2> HIDE DEF id, text
  <2> QED BY <2>5, BeginsKeeps
<1>2. ASSUME NEW w \in Writers, NEW id \in Ids, ResolveEscalation(w, id) PROVE EscInv'
  <2> DEFINE text == Rewritten(id)
  <2>1. log \in Seq(Records) /\ Resolvable(id) /\ Begins(w, "resolve", id, text)
    BY <1>2 DEF ResolveEscalation, EscInv, EscTypeOK
  <2>2. text \in Seq(Records)
    BY <2>1, RewrittenLog
  <2>3. text = Rewritten(id)
    OBVIOUS
  <2> HIDE DEF text
  <2> QED BY <2>1, <2>2, <2>3, BeginsKeeps
<1>3. ASSUME NEW w \in Writers, FinishWrite(w) PROVE EscInv'
  <2>1. doing[w].cmd \in {"raise", "resolve"}
    BY <1>3 DEF FinishWrite, EscInv, EscTypeOK
  <2> QED BY <1>3, <2>1, RaisedKeeps, ResolvedKeeps
<1>4. CASE UNCHANGED escVars
  BY <1>4 DEF escVars, EscInv, EscTypeOK, LogAsPromised, Told, Alone, Fresh, Used, Resolvable,
              Resolves
<1> QED BY <1>1, <1>2, <1>3, <1>4, PerishKeeps DEF EscNext

LEMMA EscInvHolds == EscSpec => []EscInv
<1>1. EscInit => EscInv
  <2> SUFFICES ASSUME EscInit PROVE EscInv
    OBVIOUS
  <2>1. EscTypeOK
    <3>1. <<>> \in Seq(Records) /\ [raised |-> <<>>, resolved |-> <<>>] \in [raised : Seq(Ids), resolved : Seq(Ids)]
      OBVIOUS
    <3>2. doing \in [Writers -> [cmd : {"raise", "resolve"}, id : Ids, text : Seq(Records)]
                                \union {Idle}]
      BY DEF EscInit
    <3> QED BY <3>1, <3>2 DEF EscInit, EscTypeOK
  <2>2. LogAsPromised
    BY DEF EscInit, LogAsPromised
  <2>3. Told /\ Alone /\ Fresh
    BY DEF EscInit, Told, Alone, Fresh
  <2> QED BY <2>1, <2>2, <2>3 DEF EscInv
<1> QED BY <1>1, EscInvKept, PTL DEF EscSpec

\* The variables of the escalation log keep their types: a number is always found.
THEOREM EscTypes == EscSpec => []EscTypeOK
<1>1. EscInv => EscTypeOK
  BY DEF EscInv
<1> QED BY <1>1, EscInvHolds, PTL

\* Whatever the commands do and wherever they die, as long as no two overlap and none
\* dies while it writes the log back, the log is what their callers were told.
THEOREM EscLogAsPromised == EscSpec => []LogAsPromised
<1>1. EscInv => LogAsPromised
  BY DEF EscInv
<1> QED BY <1>1, EscInvHolds, PTL

=============================================================================
