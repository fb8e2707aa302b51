------------------------ MODULE AccountSwitchProofs --------------------------
(***************************************************************************)
(* Proofs about AccountSwitch, for any number of callers, engines, tokens, *)
(* commands and faults.  The inductive invariant has three layers, and a   *)
(* step is shown to keep each of them from the whole:                      *)
(*                                                                         *)
(*   Base   the types; tokens are issued in order and whatever is held,    *)
(*          saved, carried by a request or by a command was issued;        *)
(*          engines are built in order; a command is at one of its steps;  *)
(*   Turns  drop_runtime_async and the fuse session take turns: who is     *)
(*          being replaced was taken from the slot by the command that     *)
(*          waits for it, and nobody else is alive or has a request;       *)
(*   Order  the token in memory is on the disk or behind it, and so is     *)
(*          every token that is about to be remembered.                    *)
(***************************************************************************)
EXTENDS AccountSwitch, FiniteSetTheorems, TLAPS

Command == [kind : Kinds \cup {"none"}, step : 0..8, old : 0..MaxEngines, new : 0..MaxTokens]

(* The step a command is at. *)
Stage(c) == IF c.kind = "none" THEN "none" ELSE Steps[c.kind][c.step]

(* A command under way is at one of its steps. *)
Placed(c) == c.kind # "none" => c.step \in 1..Len(Steps[c.kind])

(* What a step of drop_runtime_async or of a sign-in comes after. *)
Follows(s, t) ==
    /\ t = "shutdown" <=> s = "take"
    /\ t = "unmount" <=> s = "shutdown"
    /\ t \in {"drain", "replace"} <=> s = "unmount"
    /\ t = "hold" <=> s = "authorize"

-----------------------------------------------------------------------------
(* The table of steps *)

LEMMA KindNames == Kinds = {"login", "logout", "wipe", "mount", "params", "move"}
BY DEF Kinds, Steps

LEMMA StepTable ==
    /\ Steps["login"] = <<"authorize", "hold", "take", "shutdown", "unmount", "drain", "clear", "reset">>
    /\ Steps["logout"] = <<"take", "shutdown", "unmount", "drain", "clear", "reset", "forget", "drop">>
    /\ Steps["wipe"] = <<"take", "shutdown", "unmount", "drain", "forget", "clear", "reset", "relaunch">>
    /\ Steps["mount"] = <<"write", "install">>
    /\ Steps["params"] = <<"write", "take", "shutdown", "unmount", "replace">>
    /\ Steps["move"] = <<"write", "take", "shutdown", "unmount", "drain", "relaunch">>
BY DEF Steps

(* Which step comes after which, kind by kind. *)
NextStage(kind, n) == IF n = Len(Steps[kind]) THEN "none" ELSE Steps[kind][n + 1]

LEMMA TableFollows ==
  ASSUME NEW kind \in Kinds, NEW n \in 1..Len(Steps[kind])
  PROVE  Follows(Steps[kind][n], NextStage(kind, n))
<1>1. CASE kind = "login" BY <1>1, StepTable DEF Follows, NextStage
<1>2. CASE kind = "logout" BY <1>2, StepTable DEF Follows, NextStage
<1>3. CASE kind = "wipe" BY <1>3, StepTable DEF Follows, NextStage
<1>4. CASE kind = "mount" BY <1>4, StepTable DEF Follows, NextStage
<1>5. CASE kind = "params" BY <1>5, StepTable DEF Follows, NextStage
<1>6. CASE kind = "move" BY <1>6, StepTable DEF Follows, NextStage
<1> QED BY <1>1, <1>2, <1>3, <1>4, <1>5, <1>6, KindNames

LEMMA TableBounds ==
  ASSUME NEW kind \in Kinds
  PROVE  /\ Len(Steps[kind]) \in 2..8
         /\ kind # "none"
         /\ Steps[kind][1] \in {"authorize", "take", "write"}
         /\ \A n \in 1..Len(Steps[kind]) : Steps[kind][n] # "none"
<1>1. CASE kind = "login" BY <1>1, StepTable
<1>2. CASE kind = "logout" BY <1>2, StepTable
<1>3. CASE kind = "wipe" BY <1>3, StepTable
<1>4. CASE kind = "mount" BY <1>4, StepTable
<1>5. CASE kind = "params" BY <1>5, StepTable
<1>6. CASE kind = "move" BY <1>6, StepTable
<1> QED BY <1>1, <1>2, <1>3, <1>4, <1>5, <1>6, KindNames

-----------------------------------------------------------------------------
(* How a command goes on *)

Commands == \A k \in Owner : Placed(cmd[k])

(* The command of k is at another step, the others where they were. *)
Onward(k) ==
    /\ cmd' \in [Owner -> Command]
    /\ Placed(cmd'[k])
    /\ \A j \in Owner \ {k} : cmd'[j] = cmd[j]

LEMMA StageOf ==
  ASSUME NEW k \in Owner, NEW s, cmd \in [Owner -> Command], Placed(cmd[k])
  PROVE  Doing(k, s) => Stage(cmd[k]) = s /\ s # "none"
BY TableBounds DEF Command, Placed, Stage, Doing, Free

LEMMA AfterStep ==
  ASSUME NEW k \in Owner, cmd \in [Owner -> Command], Placed(cmd[k]), ~Free(k)
  PROVE  /\ After(k) \in Command
         /\ Placed(After(k))
         /\ Follows(Stage(cmd[k]), Stage(After(k)))
         /\ After(k).kind # "none" => After(k).old = cmd[k].old /\ After(k).new = cmd[k].new
         /\ After(k).kind = "none" => Stage(After(k)) = "none"
<1> DEFINE c == cmd[k]
<1>1. /\ c \in Command /\ c.kind \in Kinds /\ c.kind # "none"
      /\ c.step \in 1..Len(Steps[c.kind]) /\ Len(Steps[c.kind]) \in 2..8
  BY TableBounds DEF Command, Placed, Free
<1>2. Follows(Stage(c), NextStage(c.kind, c.step))
  BY <1>1, TableFollows DEF Stage
<1>3. CASE c.step = Len(Steps[c.kind])
  <2>1. After(k) = NoCommand
    BY <1>3 DEF After
  <2>2. NoCommand \in Command /\ NoCommand.kind = "none"
    BY TokensAssumption, OwnershipAssumption DEF NoCommand, Command
  <2>3. Stage(NoCommand) = "none" /\ NextStage(c.kind, c.step) = "none"
    BY <1>3, <2>2 DEF Stage, NextStage
  <2> QED BY <1>2, <2>1, <2>2, <2>3 DEF Placed
<1>4. CASE c.step # Len(Steps[c.kind])
  <2>1. After(k) = [c EXCEPT !.step = @ + 1]
    BY <1>4 DEF After
  <2> DEFINE d == [c EXCEPT !.step = @ + 1]
  <2>2. /\ d \in Command /\ d.kind = c.kind /\ d.step = c.step + 1
        /\ d.old = c.old /\ d.new = c.new
    <3> DEFINE n == Len(Steps[c.kind])
    <3> HIDE DEF c, n
    <3>0. n \in 2..8 /\ c.step \in 1..n /\ c.step # n
      BY <1>1, <1>4 DEF n
    <3>1. c.step + 1 \in 0..8
      BY <3>0
    <3> QED BY <1>1, <3>1 DEF Command
  <2> HIDE DEF d
  <2>3. d.step \in 1..Len(Steps[d.kind])
    BY <1>1, <1>4, <2>2
  <2>4. Stage(d) = NextStage(c.kind, c.step)
    BY <1>1, <1>4, <2>2 DEF Stage, NextStage
  <2> QED BY <1>1, <1>2, <2>1, <2>2, <2>3, <2>4 DEF d, Placed
<1> QED BY <1>3, <1>4

LEMMA Advances ==
  ASSUME NEW k \in Owner, cmd \in [Owner -> Command], Placed(cmd[k]), ~Free(k), Advance(k)
  PROVE  /\ Onward(k)
         /\ Follows(Stage(cmd[k]), Stage(cmd'[k]))
         /\ cmd'[k].kind # "none" => cmd'[k].old = cmd[k].old /\ cmd'[k].new = cmd[k].new
BY AfterStep DEF Advance, Onward

LEMMA AdvancesWith ==
  ASSUME NEW k \in Owner, cmd \in [Owner -> Command], Placed(cmd[k]), ~Free(k),
         NEW f \in {"old", "new"}, NEW v,
         v \in IF f = "old" THEN 0..MaxEngines ELSE 0..MaxTokens,
         AdvanceWith(k, f, v)
  PROVE  /\ Onward(k)
         /\ Follows(Stage(cmd[k]), Stage(cmd'[k]))
         /\ f = "old" => cmd'[k].old = v
         /\ f = "new" => cmd'[k].new = v
<1> DEFINE d == After(k)
           e == [d EXCEPT !.old = IF f = "old" THEN v ELSE @,
                          !.new = IF f = "new" THEN v ELSE @]
<1>1. d \in Command /\ Placed(d) /\ Follows(Stage(cmd[k]), Stage(d))
  BY AfterStep
<1>2. cmd' = [cmd EXCEPT ![k] = e]
  BY DEF AdvanceWith
<1> HIDE DEF d
<1>3. /\ e \in Command /\ e.kind = d.kind /\ e.step = d.step
      /\ f = "old" => e.old = v
      /\ f = "new" => e.new = v
  BY <1>1 DEF Command
<1> HIDE DEF e
<1>4. Placed(e) /\ Stage(e) = Stage(d)
  BY <1>1, <1>3 DEF Placed, Stage
<1> QED BY <1>1, <1>2, <1>3, <1>4 DEF Onward

LEMMA NoStage == NoCommand \in Command /\ Placed(NoCommand) /\ Stage(NoCommand) = "none"
BY TokensAssumption, OwnershipAssumption DEF NoCommand, Command, Placed, Stage

LEMMA Aborts ==
  ASSUME NEW k \in Owner, cmd \in [Owner -> Command], Abort(k)
  PROVE  Onward(k) /\ Stage(cmd'[k]) = "none"
BY NoStage DEF Abort, Onward

LEMMA Begins ==
  ASSUME NEW k \in Owner, NEW kind \in Kinds, cmd \in [Owner -> Command], Begin(k, kind)
  PROVE  /\ Onward(k)
         /\ Stage(cmd[k]) = "none"
         /\ Stage(cmd'[k]) \in {"authorize", "take", "write"}
<1> DEFINE d == [kind |-> kind, step |-> 1, old |-> 0, new |-> 0]
<1>1. d \in Command /\ d.kind = kind /\ d.step = 1
  BY TokensAssumption, OwnershipAssumption DEF Command
<1> HIDE DEF d
<1>2. Placed(d) /\ Stage(d) \in {"authorize", "take", "write"}
  BY <1>1, TableBounds DEF Placed, Stage
<1>3. cmd' = [cmd EXCEPT ![k] = d]
  BY DEF Begin, d
<1>4. Stage(cmd[k]) = "none"
  BY DEF Begin, Free, Stage
<1> QED BY <1>1, <1>2, <1>3, <1>4 DEF Onward

-----------------------------------------------------------------------------
(* The types, and the order in which tokens and engines are numbered *)

(* Tokens are numbered in the order of their issue, sign-ins in the order   *)
(* of their first token.                                                    *)
LogOf(n, m) ==
    /\ Issued = 1..n
    /\ \A t \in 1..n : issued[t] \in 1..m
    /\ \A s \in 1..m : \E t \in 1..n : issued[t] = s
Log == \E n, m \in 0..MaxTokens : m <= n /\ LogOf(n, m)

EnginesInOrder == \E n \in 0..MaxEngines : Built = 1..n

(* Whatever is held, kept or carried has been issued. *)
Known(v) == v \in Issued \cup {0}
TokensKnown ==
    /\ Known(mem) /\ Known(disk)
    /\ flight.pc # "none" => flight.from \in Issued
    /\ flight.pc \in {"got", "saved"} => flight.got \in Issued
    /\ \A c \in Caller : call[c].pc = "sent" => call[c].tok \in Issued
CommandsKnown ==
    /\ Known(loaded)
    /\ \A k \in Owner : Stage(cmd[k]) = "hold" => cmd[k].new \in Issued

SwitchTypeOK ==
    /\ rows \subseteq 1..MaxTokens
    /\ configured \in BOOLEAN
    /\ window \in {"start", "loaded", "held", "restoring", "in", "out"}
    /\ loaded \in 0..MaxTokens
    /\ cmd \in [Owner -> Command]
    /\ signedOut \in BOOLEAN
    /\ switches \in 0..MaxSwitches
    /\ faults \in 0..MaxFaults

TokenBase == TokenTypeOK /\ Log /\ TokensKnown
OwnerBase == OwnerTypeOK /\ EnginesInOrder
SwitchBase == SwitchTypeOK /\ Commands /\ CommandsKnown
Base == TokenBase /\ OwnerBase /\ SwitchBase

LEMMA TypesHold == TypeOK <=> TokenTypeOK /\ OwnerTypeOK /\ SwitchTypeOK
BY DEF TypeOK, SwitchTypeOK, Command

LEMMA Numbers ==
  ASSUME NEW n \in Nat, NEW m \in Nat, LogOf(n, m)
  PROVE  NextToken = n + 1 /\ SignIns = m
<1>1. Cardinality(1..n) = n /\ Cardinality(1..m) = m
  BY FS_Interval
<1>2. {issued[t] : t \in Issued} = 1..m
  BY DEF LogOf
<1> QED BY <1>1, <1>2 DEF LogOf, NextToken, SignIns

(* A token of the sign-in s is issued: an old sign-in or a new one. *)
LEMMA Issues ==
  ASSUME Log, issued \in [Token -> 0..MaxTokens], NextToken \in Token,
         NEW s, s \in {issued[t] : t \in Issued} \cup {SignIns + 1}, Issue(s)
  PROVE  /\ issued' \in [Token -> 0..MaxTokens]
         /\ Log'
         /\ Issued' = Issued \cup {NextToken}
         /\ \A t \in Issued : t < NextToken /\ issued'[t] = issued[t]
         /\ issued'[NextToken] = s
         /\ s = SignIns + 1 => \A t \in Issued : issued[t] # s
<1>1. PICK n \in 0..MaxTokens, m \in 0..MaxTokens : m <= n /\ LogOf(n, m)
  BY DEF Log
<1>2. MaxTokens \in Nat /\ n \in Nat /\ m \in Nat /\ m <= n
  BY <1>1, TokensAssumption
<1>3. NextToken = n + 1 /\ SignIns = m
  BY <1>1, <1>2, Numbers
<1>4. n + 1 \in 1..MaxTokens /\ issued' = [issued EXCEPT ![n + 1] = s]
  BY <1>3 DEF Token, Issue
<1>5. Issued = 1..n /\ s \in 1..(m + 1) /\ s \in 1..MaxTokens
  BY <1>1, <1>2, <1>3, <1>4 DEF LogOf
<1>6. /\ issued' \in [Token -> 0..MaxTokens]
      /\ issued'[n + 1] = s
      /\ \A t \in 1..n : issued'[t] = issued[t] /\ t < n + 1
  BY <1>2, <1>4, <1>5 DEF Token
<1>7. Issued' = 1..(n + 1)
  <2>1. \A t \in 1..MaxTokens : t \in Issued <=> issued[t] # 0
    BY DEF Issued, Token
  <2>2. \A t \in 1..MaxTokens : t \in Issued' <=> issued'[t] # 0
    BY DEF Issued, Token
  <2>3. Issued' \subseteq 1..MaxTokens
    BY DEF Issued, Token
  <2>4. \A t \in 1..MaxTokens : t # n + 1 => issued'[t] = issued[t]
    BY <1>2, <1>4 DEF Token
  <2>5. issued'[n + 1] # 0
    BY <1>5, <1>6
  <2>6. \A t \in 1..MaxTokens : t \in Issued' <=> t \in 1..n \/ t = n + 1
    BY <1>5, <2>1, <2>2, <2>4, <2>5
  <2>7. 1..(n + 1) \subseteq 1..MaxTokens /\ 1..(n + 1) = 1..n \cup {n + 1}
    BY <1>2, <1>4
  <2> QED BY <2>3, <2>6, <2>7
<1>8. Log'
  <2> DEFINE l == IF s = m + 1 THEN m + 1 ELSE m
  <2>1. l \in 0..MaxTokens /\ l <= n + 1 /\ m <= l /\ s \in 1..l
    BY <1>2, <1>4, <1>5
  <2>2. \A t \in 1..(n + 1) : t \in 1..n \/ t = n + 1
    BY <1>2
  <2>3. \A r \in 1..l : r \in 1..m \/ r = s
    BY <1>2, <1>5
  <2> HIDE DEF l
  <2>4. \A t \in 1..n : issued[t] \in 1..m
    BY <1>1 DEF LogOf
  <2>5. 1..m \subseteq 1..l
    BY <1>2, <2>1
  <2>6. \A t \in 1..(n + 1) : issued'[t] \in 1..l
    BY <1>6, <2>1, <2>2, <2>4, <2>5
  <2>7. \A r \in 1..m : \E t \in 1..n : issued[t] = r
    BY <1>1 DEF LogOf
  <2>8. 1..n \subseteq 1..(n + 1) /\ n + 1 \in 1..(n + 1)
    BY <1>2
  <2>9. \A r \in 1..l : \E t \in 1..(n + 1) : issued'[t] = r
    BY <1>6, <2>3, <2>7, <2>8
  <2>10. LogOf(n + 1, l)'
    BY <1>7, <2>6, <2>9 DEF LogOf
  <2> QED BY <1>2, <1>4, <2>1, <2>10 DEF Log
<1>9. s = SignIns + 1 => \A t \in Issued : issued[t] # s
  BY <1>1, <1>2, <1>3 DEF LogOf
<1> QED BY <1>2, <1>3, <1>5, <1>6, <1>7, <1>8, <1>9

-----------------------------------------------------------------------------
(* What every operation on the tokens keeps *)

FlightOK ==
    /\ flight \in Flight
    /\ flight.pc # "none" => flight.from \in Issued
    /\ flight.pc \in {"got", "saved"} => flight.got \in Issued
CallsOK ==
    /\ call \in [Caller -> Call]
    /\ \A c \in Caller : call[c].pc = "sent" => call[c].tok \in Issued
CopiesOK == Known(mem) /\ Known(disk) /\ stale \subseteq Token /\ replaced \subseteq Token
IssuedOK == issued \in [Token -> 0..MaxTokens] /\ Log

(* Tokens stay issued, and to whom. *)
Grows == Issued \subseteq Issued' /\ \A t \in Issued : issued'[t] = issued[t]

LEMMA Parts == TokenBase <=> FlightOK /\ CallsOK /\ CopiesOK /\ IssuedOK
<1>1. Issued \cup {0} \subseteq 0..MaxTokens
  BY TokensAssumption DEF Issued, Token
<1> QED
  BY <1>1 DEF TokenBase, TokenTypeOK, TokensKnown, FlightOK, CallsOK, CopiesOK, IssuedOK, Known

LEMMA IssuedTokens == Issued \subseteq Token /\ Token = 1..MaxTokens /\ MaxTokens \in Nat /\ 0 \notin Issued
BY TokensAssumption DEF Issued, Token

LEMMA SameLog ==
  ASSUME IssuedOK, UNCHANGED issued
  PROVE  IssuedOK' /\ Issued' = Issued /\ Grows
<1>1. Issued' = Issued
  BY DEF Issued
<1>2. Log'
  BY <1>1 DEF IssuedOK, Log, LogOf
<1> QED BY <1>1, <1>2 DEF IssuedOK, Grows

LEMMA CopiesKept ==
  ASSUME CopiesOK, Issued \subseteq Issued'
  PROVE  /\ mem' = mem \/ mem' = 0 \/ mem' \in Issued' => Known(mem)'
         /\ disk' = disk \/ disk' = 0 \/ disk' \in Issued' => Known(disk)'
BY DEF CopiesOK, Known

LEMMA FlightKept ==
  ASSUME FlightOK, Issued \subseteq Issued', UNCHANGED flight
  PROVE  FlightOK'
BY DEF FlightOK

LEMMA CallsKept ==
  ASSUME CallsOK, Issued \subseteq Issued', UNCHANGED call
  PROVE  CallsOK'
BY DEF CallsOK

LEMMA CallTypes ==
  /\ NoCall \in Call /\ NoCall.pc = "idle"
  /\ NoFlight \in Flight /\ NoFlight.pc = "none"
BY TokensAssumption DEF NoCall, Call, NoFlight, Flight

LEMMA EndKeeps ==
  ASSUME CallsOK, Issued \subseteq Issued', NEW c \in Caller, End(c)
  PROVE  CallsOK'
BY CallTypes DEF CallsOK, End

LEMMA CurrentIssued ==
  ASSUME CopiesOK, Current # 0
  PROVE  Current \in Issued
BY DEF CopiesOK, Known, Current

LEMMA WaitKeeps ==
  ASSUME CallsOK, Issued \subseteq Issued', NEW c \in Caller, NEW r \in 0..MaxTokens,
         call' = [call EXCEPT ![c] = [pc |-> "wait", tok |-> 0, refused |-> r]]
  PROVE  CallsOK'
<1> DEFINE w == [pc |-> "wait", tok |-> 0, refused |-> r]
<1>1. w \in Call /\ w.pc = "wait"
  BY TokensAssumption DEF Call
<1> HIDE DEF w
<1>2. call' = [call EXCEPT ![c] = w]
  BY DEF w
<1> QED BY <1>1, <1>2 DEF CallsOK

LEMMA JoinKeeps ==
  ASSUME FlightOK, CallsOK, CopiesOK, Issued' = Issued,
         NEW c \in Caller, NEW r \in 0..MaxTokens, Join(c, r)
  PROVE  FlightOK' /\ CallsOK'
<1>1. CASE flight.pc # "none"
  <2>1. UNCHANGED flight /\ call' = [call EXCEPT ![c] = [pc |-> "wait", tok |-> 0, refused |-> r]]
    BY <1>1 DEF Join
  <2> QED BY <2>1, WaitKeeps, FlightKept
<1>2. CASE flight.pc = "none" /\ Current # 0
  <2> DEFINE f == [pc |-> "asked", from |-> Current, got |-> 0]
  <2>1. flight' = f /\ call' = [call EXCEPT ![c] = [pc |-> "wait", tok |-> 0, refused |-> r]]
    BY <1>2 DEF Join
  <2>2. Current \in Issued /\ Current \in 0..MaxTokens /\ 0 \in 0..MaxTokens
    <3>1. Current \in Issued
      BY <1>2, CurrentIssued
    <3>2. Issued \subseteq 1..MaxTokens /\ MaxTokens \in Nat
      BY IssuedTokens
    <3> HIDE DEF f
    <3> QED BY <3>1, <3>2
  <2>3. f \in Flight /\ f.pc = "asked" /\ f.from \in Issued
    BY <2>2 DEF Flight
  <2> HIDE DEF f
  <2> QED BY <2>1, <2>3, WaitKeeps DEF FlightOK
<1>3. CASE flight.pc = "none" /\ Current = 0
  BY <1>3, EndKeeps, FlightKept DEF Join
<1> QED BY <1>1, <1>2, <1>3

LEMMA PartsNext == FlightOK' /\ CallsOK' /\ CopiesOK' /\ IssuedOK' => TokenBase'
BY Parts, PTL

LEMMA QuietTokens ==
  ASSUME TokenBase, UNCHANGED tokenVars
  PROVE  TokenBase' /\ Grows
<1>1. UNCHANGED <<mem, disk, issued, stale, flight, call, replaced>>
  BY DEF tokenVars
<1>2. FlightOK /\ CallsOK /\ CopiesOK /\ IssuedOK
  BY Parts
<1>3. IssuedOK' /\ Issued' = Issued /\ Grows
  BY <1>1, <1>2, SameLog
<1>4. FlightOK' /\ CallsOK' /\ CopiesOK'
  BY <1>1, <1>2, <1>3, FlightKept, CallsKept DEF CopiesOK, Known
<1> QED BY <1>3, <1>4, PartsNext

(* Steps that issue nothing: where the copies, the flight and the calls are *)
(* in order after them, all is.                                             *)
LEMMA NothingIssued ==
  ASSUME TokenBase, UNCHANGED issued,
         mem' \in {mem, 0} \cup Issued, disk' \in {disk, 0} \cup Issued,
         stale' \subseteq Token, replaced' \subseteq Token,
         FlightOK', CallsOK'
  PROVE  TokenBase' /\ Grows
<1>1. CopiesOK /\ IssuedOK
  BY Parts
<1>2. IssuedOK' /\ Issued' = Issued /\ Grows
  BY <1>1, SameLog
<1>3. CopiesOK'
  BY <1>1, <1>2 DEF CopiesOK, Known, Token
<1> QED BY <1>2, <1>3, PartsNext

LEMMA SendTokens ==
  ASSUME TokenBase, NEW c \in Caller, Send(c)
  PROVE  TokenBase' /\ Grows
<1>1. UNCHANGED <<mem, disk, issued, stale, replaced>> /\ Current # 0
  BY DEF Send
<1>2. FlightOK /\ CallsOK /\ CopiesOK /\ IssuedOK
  BY Parts
<1>3. Issued' = Issued
  BY <1>1, <1>2, SameLog
<1>4. CASE Join(c, 0)
  <2>1. FlightOK' /\ CallsOK'
    BY <1>2, <1>3, <1>4, JoinKeeps, IssuedTokens
  <2> QED BY <1>1, <1>2, <2>1, NothingIssued DEF CopiesOK
<1>5. CASE call' = [call EXCEPT ![c] = [pc |-> "sent", tok |-> Current, refused |-> 0]] /\ UNCHANGED flight
  <2> DEFINE w == [pc |-> "sent", tok |-> Current, refused |-> 0]
  <2>1. Current \in Issued /\ Current \in 0..MaxTokens /\ 0 \in 0..MaxTokens
    <3>1. Current \in Issued
      BY <1>1, <1>2, CurrentIssued
    <3>2. Issued \subseteq 1..MaxTokens /\ MaxTokens \in Nat
      BY IssuedTokens
    <3> HIDE DEF w
    <3> QED BY <3>1, <3>2
  <2>2. w \in Call /\ w.tok \in Issued
    BY <2>1 DEF Call
  <2>3. call' = [call EXCEPT ![c] = w]
    BY <1>5
  <2> HIDE DEF w
  <2>4. CallsOK'
    BY <1>2, <1>3, <2>2, <2>3 DEF CallsOK
  <2>5. FlightOK'
    BY <1>2, <1>3, <1>5, FlightKept
  <2> QED BY <1>1, <1>2, <2>4, <2>5, NothingIssued DEF CopiesOK
<1> QED BY <1>4, <1>5 DEF Send

LEMMA SucceedsTokens ==
  ASSUME TokenBase, NEW c \in Caller, Succeeds(c)
  PROVE  TokenBase' /\ Grows
<1>1. UNCHANGED <<mem, disk, issued, stale, flight, replaced>> /\ End(c)
  BY DEF Succeeds
<1>2. FlightOK /\ CallsOK /\ CopiesOK /\ IssuedOK
  BY Parts
<1>3. Issued' = Issued
  BY <1>1, <1>2, SameLog
<1>4. FlightOK' /\ CallsOK'
  BY <1>1, <1>2, <1>3, FlightKept, EndKeeps
<1> QED BY <1>1, <1>2, <1>4, NothingIssued DEF CopiesOK

LEMMA RefusedTokens ==
  ASSUME TokenBase, NEW c \in Caller, Refused(c)
  PROVE  TokenBase' /\ Grows
<1>1. /\ UNCHANGED <<mem, disk, issued, stale, replaced>>
      /\ Join(c, call[c].tok) \/ (End(c) /\ UNCHANGED flight)
  BY DEF Refused
<1>2. FlightOK /\ CallsOK /\ CopiesOK /\ IssuedOK
  BY Parts
<1>3. Issued' = Issued
  BY <1>1, <1>2, SameLog
<1>4. call[c].tok \in 0..MaxTokens
  BY <1>2 DEF CallsOK, Call
<1>5. FlightOK' /\ CallsOK'
  BY <1>1, <1>2, <1>3, <1>4, FlightKept, EndKeeps, JoinKeeps
<1> QED BY <1>1, <1>2, <1>5, NothingIssued DEF CopiesOK

LEMMA SaveTokens ==
  ASSUME TokenBase, Save
  PROVE  TokenBase' /\ Grows
<1>1. /\ flight.pc = "got" /\ disk' = flight.got /\ flight' = [flight EXCEPT !.pc = "saved"]
      /\ replaced' = replaced \cup {flight.from}
      /\ UNCHANGED <<mem, issued, stale, call>>
  BY DEF Save
<1>2. FlightOK /\ CallsOK /\ CopiesOK /\ IssuedOK
  BY Parts
<1>3. Issued' = Issued
  BY <1>1, <1>2, SameLog
<1>4. flight.from \in Issued /\ flight.got \in Issued
  BY <1>1, <1>2 DEF FlightOK
<1>5. FlightOK' /\ CallsOK'
  BY <1>1, <1>2, <1>3, <1>4, CallsKept DEF FlightOK, Flight
<1> QED BY <1>1, <1>2, <1>4, <1>5, IssuedTokens, NothingIssued DEF CopiesOK

LEMMA PublishTokens ==
  ASSUME TokenBase, Publish
  PROVE  TokenBase' /\ Grows
<1>1. /\ flight.pc = "saved" /\ mem' = flight.got /\ flight' = NoFlight /\ call' = Delivered
      /\ UNCHANGED <<disk, issued, stale, replaced>>
  BY DEF Publish
<1>2. FlightOK /\ CallsOK /\ CopiesOK /\ IssuedOK
  BY Parts
<1>3. Issued' = Issued
  BY <1>1, <1>2, SameLog
<1>4. flight.got \in Issued /\ flight.got \in 0..MaxTokens
  BY <1>1, <1>2 DEF FlightOK, Flight
<1>5. CallsOK'
  <2> SUFFICES ASSUME NEW c \in Caller
               PROVE  call'[c] \in Call /\ (call'[c].pc = "sent" => call'[c].tok \in Issued)
    BY <1>1, <1>3 DEF CallsOK, Delivered
  <2>1. call[c] \in Call /\ (call[c].pc = "sent" => call[c].tok \in Issued)
    BY <1>2 DEF CallsOK
  <2>2. CASE c \in Waiting
    <3>1. call'[c] = [call[c] EXCEPT !.pc = "sent", !.tok = flight.got]
      BY <1>1, <2>2 DEF Delivered
    <3> QED BY <1>4, <2>1, <3>1 DEF Call
  <2>3. CASE c \notin Waiting
    BY <1>1, <2>1, <2>3 DEF Delivered
  <2> QED BY <2>2, <2>3
<1>6. FlightOK'
  BY <1>1, CallTypes DEF FlightOK
<1> QED BY <1>1, <1>2, <1>4, <1>5, <1>6, NothingIssued DEF CopiesOK

LEMMA FailedCalls ==
  ASSUME CallsOK, Issued \subseteq Issued', call' = Failed
  PROVE  CallsOK'
BY CallTypes DEF CallsOK, Failed

LEMMA RefreshFailsTokens ==
  ASSUME TokenBase, RefreshFails
  PROVE  TokenBase' /\ Grows
<1>1. call' = Failed /\ flight' = NoFlight /\ UNCHANGED <<mem, disk, issued, stale, replaced>>
  BY DEF RefreshFails
<1>2. FlightOK /\ CallsOK /\ CopiesOK /\ IssuedOK
  BY Parts
<1>3. Issued' = Issued
  BY <1>1, <1>2, SameLog
<1>4. FlightOK' /\ CallsOK'
  BY <1>1, <1>2, <1>3, FailedCalls, CallTypes DEF FlightOK
<1> QED BY <1>1, <1>2, <1>4, NothingIssued DEF CopiesOK

LEMMA AnsweredTokens ==
  ASSUME TokenBase, Answered
  PROVE  /\ TokenBase' /\ Grows
         /\ Issued' = Issued \cup {NextToken}
         /\ NextToken \in Issued'
         /\ flight'.got = NextToken /\ flight'.from = flight.from
         /\ issued'[NextToken] = issued[flight.from]
         /\ \A t \in Issued : t < NextToken
<1>1. /\ flight.pc = "asked" /\ NextToken \in Token /\ Issue(issued[flight.from])
      /\ flight' = [flight EXCEPT !.pc = "got", !.got = NextToken]
      /\ UNCHANGED <<mem, disk, stale, call, replaced>>
  BY DEF Answered
<1>2. FlightOK /\ CallsOK /\ CopiesOK /\ IssuedOK
  BY Parts
<1>3. flight \in Flight /\ flight.from \in Issued
  BY <1>1, <1>2 DEF FlightOK
<1>4. issued[flight.from] \in {issued[t] : t \in Issued} \cup {SignIns + 1}
  BY <1>3
<1>5. /\ issued' \in [Token -> 0..MaxTokens] /\ Log' /\ Issued' = Issued \cup {NextToken}
      /\ \A t \in Issued : t < NextToken /\ issued'[t] = issued[t]
      /\ issued'[NextToken] = issued[flight.from]
  BY <1>1, <1>2, <1>4, Issues DEF IssuedOK
<1>6. NextToken \in 0..MaxTokens
  BY <1>1, IssuedTokens
<1>7. /\ flight' \in Flight /\ flight'.pc = "got" /\ flight'.got = NextToken
      /\ flight'.from = flight.from
  BY <1>1, <1>3, <1>6 DEF Flight
<1>8. FlightOK'
  BY <1>3, <1>5, <1>7 DEF FlightOK
<1>9. CallsOK' /\ CopiesOK' /\ IssuedOK'
  BY <1>1, <1>2, <1>5, CallsKept DEF CopiesOK, Known, IssuedOK, Token
<1> QED BY <1>5, <1>7, <1>8, <1>9, PartsNext DEF Grows

LEMMA KeepNewTokens ==
  ASSUME TokenBase, KeepNew
  PROVE  /\ TokenBase' /\ Grows
         /\ Issued' = Issued \cup {NextToken}
         /\ disk' = NextToken /\ NextToken \in 0..MaxTokens
         /\ \A t \in Issued : issued[t] # issued'[NextToken]
<1>1. /\ NextToken \in Token /\ Issue(SignIns + 1) /\ disk' = NextToken
      /\ UNCHANGED <<mem, stale, flight, call, replaced>>
  BY DEF KeepNew
<1>2. FlightOK /\ CallsOK /\ CopiesOK /\ IssuedOK
  BY Parts
<1>3. /\ issued' \in [Token -> 0..MaxTokens] /\ Log' /\ Issued' = Issued \cup {NextToken}
      /\ \A t \in Issued : t < NextToken /\ issued'[t] = issued[t]
      /\ issued'[NextToken] = SignIns + 1
      /\ \A t \in Issued : issued[t] # SignIns + 1
  BY <1>1, <1>2, Issues DEF IssuedOK
<1>4. NextToken \in 0..MaxTokens
  BY <1>1, IssuedTokens
<1>5. FlightOK' /\ CallsOK' /\ CopiesOK' /\ IssuedOK'
  BY <1>1, <1>2, <1>3, FlightKept, CallsKept DEF CopiesOK, Known, IssuedOK, Token
<1> QED BY <1>1, <1>3, <1>4, <1>5, PartsNext DEF Grows

LEMMA CopyTokens ==
  ASSUME TokenBase, UNCHANGED <<issued, stale, flight, call, replaced>>,
         mem' \in {mem, 0} \cup Issued, disk' \in {disk, 0} \cup Issued
  PROVE  TokenBase' /\ Grows
<1>1. FlightOK /\ CallsOK /\ CopiesOK /\ IssuedOK
  BY Parts
<1>2. Issued' = Issued
  BY <1>1, SameLog
<1>3. FlightOK' /\ CallsOK'
  BY <1>1, <1>2, FlightKept, CallsKept
<1> QED BY <1>1, <1>3, NothingIssued DEF CopiesOK

LEMMA ExpireTokens ==
  ASSUME TokenBase, Expire
  PROVE  TokenBase' /\ Grows
<1>1. UNCHANGED <<mem, disk, issued, flight, call, replaced>>
  BY DEF Expire
<1>2. FlightOK /\ CallsOK /\ CopiesOK /\ IssuedOK
  BY Parts
<1>3. Issued' = Issued
  BY <1>1, <1>2, SameLog
<1>4. FlightOK' /\ CallsOK'
  BY <1>1, <1>2, <1>3, FlightKept, CallsKept
<1>5. stale' \subseteq Token
  BY <1>2, IssuedTokens DEF Expire, CopiesOK
<1> QED BY <1>1, <1>2, <1>4, <1>5, NothingIssued DEF CopiesOK

LEMMA RestartTokens ==
  ASSUME TokenBase, TokensAfterRestart
  PROVE  TokenBase' /\ Grows
<1>1. /\ mem' = 0 /\ flight' = NoFlight /\ call' = [c \in Caller |-> NoCall]
      /\ UNCHANGED <<disk, issued, stale, replaced>>
  BY DEF TokensAfterRestart
<1>2. CopiesOK
  BY Parts
<1>3. FlightOK' /\ CallsOK'
  BY <1>1, CallTypes DEF FlightOK, CallsOK
<1> QED BY <1>1, <1>2, <1>3, NothingIssued DEF CopiesOK

(* Every step of the system is one of these on the tokens. *)
LEMMA TokenStep ==
  ASSUME Base, [Next]_vars
  PROVE  TokenBase' /\ Grows
<1>0. TokenBase /\ SwitchBase /\ FlightOK /\ CallsOK /\ CopiesOK /\ IssuedOK
  BY Parts DEF Base
<1>1. CASE UNCHANGED tokenVars
  BY <1>0, <1>1, QuietTokens
<1>2. CASE WindowStep
  <2>1. CASE RestoreLoad
    BY <1>1, <2>1 DEF RestoreLoad
  <2>2. CASE RestoreHold
    <3>1. mem' = loaded /\ UNCHANGED <<disk, issued, stale, flight, call, replaced>>
      BY <2>2 DEF RestoreHold, HoldNew
    <3>2. mem' \in {mem, 0} \cup Issued
      BY <1>0, <3>1 DEF SwitchBase, CommandsKnown, Known
    <3> QED BY <1>0, <3>1, <3>2, CopyTokens
  <2>3. CASE RestoreRefresh
    <3>1. /\ UNCHANGED <<mem, disk, issued, stale, replaced>>
          /\ UNCHANGED <<flight, call>> \/ Join(Window, 0)
      BY <2>3 DEF RestoreRefresh
    <3>2. Issued' = Issued
      BY <1>0, <3>1, SameLog
    <3>3. Window \in Caller /\ 0 \in 0..MaxTokens
      BY CallerAssumption, IssuedTokens
    <3>4. FlightOK' /\ CallsOK'
      BY <1>0, <3>1, <3>2, <3>3, FlightKept, CallsKept, JoinKeeps
    <3> QED BY <1>0, <3>1, <3>4, NothingIssued DEF CopiesOK
  <2>4. CASE RestoreEnds
    <3>1. /\ UNCHANGED <<issued, stale, flight, replaced>>
          /\ mem' \in {mem, 0} /\ disk' \in {disk, 0}
          /\ End(Window) \/ UNCHANGED call
      BY <2>4 DEF RestoreEnds
    <3>2. Issued' = Issued /\ Window \in Caller
      BY <1>0, <3>1, SameLog, CallerAssumption
    <3>3. FlightOK' /\ CallsOK'
      BY <1>0, <3>1, <3>2, FlightKept, CallsKept, EndKeeps
    <3> QED BY <1>0, <3>1, <3>3, NothingIssued DEF CopiesOK
  <2> QED BY <1>2, <2>1, <2>2, <2>3, <2>4 DEF WindowStep
<1>3. ASSUME NEW k \in Owner, CommandStep(k)
      PROVE  TokenBase' /\ Grows
  <2>1. CASE Authorize(k)
    <3>1. KeepNew \/ UNCHANGED tokenVars
      BY <2>1 DEF Authorize
    <3> QED BY <1>0, <1>1, <3>1, KeepNewTokens
  <2>2. CASE Hold(k)
    <3>1. mem' = cmd[k].new /\ UNCHANGED <<disk, issued, stale, flight, call, replaced>>
          /\ Doing(k, "hold")
      BY <2>2 DEF Hold, HoldNew
    <3>2. cmd[k].new \in Issued
      BY <1>0, <3>1, StageOf DEF SwitchBase, SwitchTypeOK, Commands, CommandsKnown
    <3> QED BY <1>0, <3>1, <3>2, CopyTokens
  <2>3. CASE Forget(k)
    <3>1. ClearDisk \/ UNCHANGED tokenVars
      BY <2>3 DEF Forget
    <3>2. CASE ClearDisk
      BY <1>0, <3>2, CopyTokens DEF ClearDisk
    <3> QED BY <1>0, <1>1, <3>1, <3>2
  <2>4. CASE DropToken(k)
    BY <1>0, <2>4, CopyTokens DEF DropToken, ClearMemory
  <2>5. CASE Relaunch(k)
    BY <1>0, <2>5, RestartTokens DEF Relaunch, Restarted
  <2>6. CASE Take(k) \/ StopAdmission(k) \/ StopFuse(k) \/ Drain(k) \/ Replace(k)
    BY <1>1, <2>6 DEF Take, StopAdmission, StopFuse, Drain, Replace
  <2>7. CASE Install(k) \/ Write(k) \/ ClearCaches(k) \/ ResetConfig(k)
    BY <1>1, <2>7 DEF Install, Write, ClearCaches, ResetConfig
  <2> QED BY <1>3, <2>1, <2>2, <2>3, <2>4, <2>5, <2>6, <2>7 DEF CommandStep
<1>4. ASSUME NEW c \in Caller, Request(c) \/ CallStep(c)
      PROVE  TokenBase' /\ Grows
  <2>1. Send(c) \/ Succeeds(c) \/ Refused(c)
    BY <1>4 DEF Request, CallStep, Settle, Replay
  <2> QED BY <1>0, <2>1, SendTokens, SucceedsTokens, RefusedTokens
<1>5. CASE RefreshStep
  <2>1. Answered \/ Save \/ Publish \/ RefreshFails
    BY <1>5 DEF RefreshStep, TokenAnswered, TokenSaved, TokenPublished, TokenFails
  <2> QED BY <1>0, <2>1, AnsweredTokens, SaveTokens, PublishTokens, RefreshFailsTokens
<1>6. CASE TokenExpires
  BY <1>0, <1>6, ExpireTokens DEF TokenExpires
<1>7. CASE Crash
  BY <1>0, <1>7, RestartTokens DEF Crash, Restarted
<1>8. CASE SignIn \/ SignOut \/ ConfigSave
  BY <1>1, <1>8 DEF SignIn, SignOut, ConfigSave, Begin
<1>9. ASSUME NEW e \in Engine,
             EngineStarts(e) \/ FuseStarts(e) \/ FileOpened(e) \/ FileClosed(e)
      PROVE  TokenBase' /\ Grows
  BY <1>1, <1>9 DEF EngineStarts, FuseStarts, FileOpened, FileClosed
<1>10. CASE UNCHANGED vars
  BY <1>1, <1>10 DEF vars
<1> QED BY <1>2, <1>3, <1>4, <1>5, <1>6, <1>7, <1>8, <1>9, <1>10 DEF Next

-----------------------------------------------------------------------------
(* What every step keeps of the window, the commands and the database *)

CommandsOK == cmd \in [Owner -> Command] /\ Commands
HoldKnown == \A k \in Owner : Stage(cmd[k]) = "hold" => cmd[k].new \in Issued

LEMMA Goes ==
  ASSUME CommandsOK, NEW k \in Owner, NEW s, Doing(k, s), Advance(k)
  PROVE  /\ Onward(k) /\ Stage(cmd[k]) = s /\ s # "none"
         /\ Follows(s, Stage(cmd'[k]))
         /\ cmd'[k].kind # "none" => cmd'[k].old = cmd[k].old /\ cmd'[k].new = cmd[k].new
BY Advances, StageOf DEF CommandsOK, Commands, Doing

LEMMA GoesWith ==
  ASSUME CommandsOK, NEW k \in Owner, NEW s, Doing(k, s),
         NEW f \in {"old", "new"}, NEW v,
         v \in IF f = "old" THEN 0..MaxEngines ELSE 0..MaxTokens,
         AdvanceWith(k, f, v)
  PROVE  /\ Onward(k) /\ Stage(cmd[k]) = s /\ s # "none"
         /\ Follows(s, Stage(cmd'[k]))
         /\ f = "old" => cmd'[k].old = v
         /\ f = "new" => cmd'[k].new = v
BY AdvancesWith, StageOf DEF CommandsOK, Commands, Doing

LEMMA OnwardKeeps ==
  ASSUME CommandsOK, HoldKnown, Grows, NEW k \in Owner, Onward(k),
         Stage(cmd'[k]) = "hold" => cmd'[k].new \in Issued'
  PROVE  CommandsOK' /\ HoldKnown'
<1>1. cmd' \in [Owner -> Command] /\ Placed(cmd'[k]) /\ \A j \in Owner \ {k} : cmd'[j] = cmd[j]
  BY DEF Onward
<1>2. \A j \in Owner : Placed(cmd'[j])
  BY <1>1 DEF CommandsOK, Commands
<1>3. CommandsOK'
  BY <1>1, <1>2 DEF CommandsOK, Commands, Placed
<1>4. \A j \in Owner : Stage(cmd'[j]) = "hold" => cmd'[j].new \in Issued'
  BY <1>1 DEF HoldKnown, Grows
<1>5. HoldKnown'
  BY <1>4 DEF HoldKnown, Stage
<1> QED BY <1>3, <1>5

LEMMA SameCommands ==
  ASSUME CommandsOK, HoldKnown, Grows, UNCHANGED cmd
  PROVE  CommandsOK' /\ HoldKnown'
BY DEF CommandsOK, Commands, Placed, HoldKnown, Stage, Grows

(* A command that is not at "authorize" does not come to "hold". *)
LEMMA GoesKeeps ==
  ASSUME CommandsOK, HoldKnown, Grows, NEW k \in Owner, NEW s, s # "authorize",
         Doing(k, s), Advance(k)
  PROVE  CommandsOK' /\ HoldKnown'
<1>1. Onward(k) /\ Follows(s, Stage(cmd'[k]))
  BY Goes
<1>2. Stage(cmd'[k]) # "hold"
  BY <1>1 DEF Follows
<1> QED BY <1>1, <1>2, OnwardKeeps

LEMMA AbortKeeps ==
  ASSUME CommandsOK, HoldKnown, Grows, NEW k \in Owner, Abort(k)
  PROVE  CommandsOK' /\ HoldKnown'
BY Aborts, OnwardKeeps DEF CommandsOK

LEMMA SwitchParts ==
  SwitchBase <=>
    /\ CommandsOK /\ HoldKnown /\ Known(loaded)
    /\ rows \subseteq 1..MaxTokens /\ configured \in BOOLEAN
    /\ window \in {"start", "loaded", "held", "restoring", "in", "out"}
    /\ loaded \in 0..MaxTokens /\ signedOut \in BOOLEAN
    /\ switches \in 0..MaxSwitches /\ faults \in 0..MaxFaults
BY DEF SwitchBase, SwitchTypeOK, CommandsOK, HoldKnown, CommandsKnown

Frame ==
    /\ rows' \subseteq 1..MaxTokens /\ configured' \in BOOLEAN
    /\ window' \in {"start", "loaded", "held", "restoring", "in", "out"}
    /\ loaded' \in {0, loaded, disk} /\ signedOut' \in BOOLEAN
    /\ switches' \in 0..MaxSwitches /\ faults' \in 0..MaxFaults

LEMMA SwitchNext ==
  ASSUME Base, Grows, CommandsOK', HoldKnown', Frame
  PROVE  SwitchBase'
<1>1. Known(loaded) /\ loaded \in 0..MaxTokens
  BY SwitchParts DEF Base
<1>2. Known(disk) /\ disk \in 0..MaxTokens
  BY DEF Base, TokenBase, TokensKnown, TokenTypeOK
<1>3. Known(loaded)' /\ loaded' \in 0..MaxTokens
  BY <1>1, <1>2, IssuedTokens DEF Known, Frame, Grows
<1>4. (CommandsOK /\ HoldKnown /\ Known(loaded)
    /\ rows \subseteq 1..MaxTokens /\ configured \in BOOLEAN
    /\ window \in {"start", "loaded", "held", "restoring", "in", "out"}
    /\ loaded \in 0..MaxTokens /\ signedOut \in BOOLEAN
    /\ switches \in 0..MaxSwitches /\ faults \in 0..MaxFaults)' => SwitchBase'
  BY SwitchParts, PTL
<1> QED BY <1>3, <1>4 DEF Frame

LEMMA SameFrame ==
  ASSUME SwitchBase
  PROVE  /\ UNCHANGED rows => rows' \subseteq 1..MaxTokens
         /\ UNCHANGED configured => configured' \in BOOLEAN
         /\ UNCHANGED window => window' \in {"start", "loaded", "held", "restoring", "in", "out"}
         /\ UNCHANGED loaded => loaded' \in {0, loaded, disk}
         /\ UNCHANGED signedOut => signedOut' \in BOOLEAN
         /\ UNCHANGED switches => switches' \in 0..MaxSwitches
         /\ UNCHANGED faults \/ Fault => faults' \in 0..MaxFaults
         /\ UNCHANGED <<rows, configured, window, loaded, signedOut, switches>> /\ (UNCHANGED faults \/ Fault) => Frame
<1>1. /\ UNCHANGED rows => rows' \subseteq 1..MaxTokens
      /\ UNCHANGED configured => configured' \in BOOLEAN
      /\ UNCHANGED window => window' \in {"start", "loaded", "held", "restoring", "in", "out"}
      /\ UNCHANGED loaded => loaded' \in {0, loaded, disk}
      /\ UNCHANGED signedOut => signedOut' \in BOOLEAN
      /\ UNCHANGED switches => switches' \in 0..MaxSwitches
  BY DEF SwitchBase, SwitchTypeOK
<1>2. ASSUME UNCHANGED faults \/ Fault PROVE faults' \in 0..MaxFaults
  BY <1>2, SwitchBoundAssumption DEF SwitchBase, SwitchTypeOK, Fault
<1>3. UNCHANGED <<rows, configured, window, loaded, signedOut, switches>> /\ (UNCHANGED faults \/ Fault) => Frame
  BY <1>1, <1>2 DEF Frame
<1> QED BY <1>1, <1>2, <1>3

LEMMA BeginSwitch ==
  ASSUME Base, Grows, NEW k \in Owner, NEW kind \in Kinds, Begin(k, kind)
  PROVE  SwitchBase'
<1>0. CommandsOK /\ HoldKnown /\ SwitchBase
  BY SwitchParts DEF Base
<1>1. Onward(k) /\ Stage(cmd'[k]) \in {"authorize", "take", "write"}
  BY <1>0, Begins DEF CommandsOK
<1>2. CommandsOK' /\ HoldKnown'
  BY <1>0, <1>1, OnwardKeeps
<1>3. /\ UNCHANGED <<rows, configured, window, loaded, signedOut, faults>>
      /\ switches < MaxSwitches /\ switches' = switches + 1
  BY DEF Begin
<1>4. switches' \in 0..MaxSwitches
  BY <1>0, <1>3, SwitchBoundAssumption DEF SwitchBase, SwitchTypeOK
<1>5. Frame
  BY <1>0, <1>3, <1>4, SameFrame DEF Frame
<1> QED BY <1>2, <1>5, SwitchNext

LEMMA WindowSwitch ==
  ASSUME Base, Grows, WindowStep
  PROVE  SwitchBase'
<1>0. CommandsOK /\ HoldKnown /\ SwitchBase
  BY SwitchParts DEF Base
<1>1. /\ UNCHANGED <<rows, configured, cmd, signedOut, switches, faults>>
      /\ loaded' \in {loaded, disk}
      /\ window' \in {"start", "loaded", "held", "restoring", "in", "out"}
  BY DEF WindowStep, RestoreLoad, RestoreHold, RestoreRefresh, RestoreEnds
<1>2. CommandsOK' /\ HoldKnown'
  BY <1>0, <1>1, SameCommands
<1>3. Frame
  BY <1>0, <1>1, SameFrame DEF Frame
<1> QED BY <1>2, <1>3, SwitchNext

LEMMA RestartSwitch ==
  ASSUME Base, Grows, Restarted, UNCHANGED faults \/ Fault
  PROVE  SwitchBase'
<1>0. CommandsOK /\ HoldKnown /\ SwitchBase
  BY SwitchParts DEF Base
<1>1. /\ cmd' = [j \in Owner |-> NoCommand] /\ loaded' = 0 /\ window' = "start"
      /\ configured' \in BOOLEAN /\ rows' \in {{}, rows} /\ UNCHANGED <<signedOut, switches>>
  BY <1>0 DEF Restarted, SwitchBase, SwitchTypeOK
<1>2. Frame
  BY <1>0, <1>1, SameFrame DEF Frame
<1>3. \A j \in Owner : cmd'[j] = NoCommand
  BY <1>1
<1>4. CommandsOK'
  BY <1>1, <1>3, NoStage DEF CommandsOK, Commands, Placed
<1>5. HoldKnown'
  BY <1>3, NoStage DEF HoldKnown, Stage
<1> QED BY <1>2, <1>4, <1>5, SwitchNext

LEMMA CommandSwitch ==
  ASSUME Base, Grows, NEW k \in Owner, CommandStep(k)
  PROVE  SwitchBase'
<1>0. CommandsOK /\ HoldKnown /\ SwitchBase
  BY SwitchParts DEF Base
<1>1. CASE Authorize(k)
  <2>1. /\ UNCHANGED <<rows, configured, window, loaded, switches, faults>>
        /\ signedOut' \in {FALSE, signedOut}
    BY <1>1 DEF Authorize
  <2>2. Frame
    BY <1>0, <2>1, SameFrame DEF Frame, SwitchBase, SwitchTypeOK
  <2>3. CASE KeepNew /\ AdvanceWith(k, "new", NextToken)
    <3>1. NextToken \in 0..MaxTokens /\ NextToken \in Issued'
      BY <2>3, KeepNewTokens DEF Base
    <3>2. Onward(k) /\ cmd'[k].new = NextToken
      BY <1>0, <1>1, <2>3, <3>1, GoesWith DEF Authorize
    <3>3. CommandsOK' /\ HoldKnown'
      BY <1>0, <3>1, <3>2, OnwardKeeps
    <3> QED BY <2>2, <3>3, SwitchNext
  <2>4. CASE Abort(k)
    BY <1>0, <2>2, <2>4, AbortKeeps, SwitchNext
  <2> QED BY <1>1, <2>3, <2>4 DEF Authorize
<1>2. CASE Take(k)
  <2>1. /\ UNCHANGED <<rows, configured, window, loaded, signedOut, switches, faults>>
        /\ Doing(k, "take") /\ AdvanceWith(k, "old", slot)
    BY <1>2 DEF Take
  <2>2. slot \in 0..MaxEngines
    BY DEF Base, OwnerBase, OwnerTypeOK
  <2>3. Onward(k) /\ Follows("take", Stage(cmd'[k]))
    BY <1>0, <2>1, <2>2, GoesWith
  <2>4. CommandsOK' /\ HoldKnown'
    BY <1>0, <2>3, OnwardKeeps DEF Follows
  <2> QED BY <1>0, <2>1, <2>4, SameFrame, SwitchNext
<1>3. CASE Hold(k) \/ StopAdmission(k) \/ StopFuse(k) \/ Drain(k) \/ Replace(k) \/ Install(k)
  <2>1. /\ UNCHANGED <<rows, configured, window, loaded, signedOut, switches, faults>>
        /\ Advance(k)
    BY <1>3 DEF Hold, StopAdmission, StopFuse, Drain, Replace, Install
  <2>2. PICK s \in {"hold", "shutdown", "unmount", "drain", "replace", "install"} : Doing(k, s)
    BY <1>3 DEF Hold, StopAdmission, StopFuse, Drain, Replace, Install
  <2>3. CommandsOK' /\ HoldKnown'
    BY <1>0, <2>1, <2>2, GoesKeeps
  <2> QED BY <1>0, <2>1, <2>3, SameFrame, SwitchNext
<1>4. CASE Write(k)
  <2>1. /\ UNCHANGED <<rows, window, loaded, signedOut, switches, faults>>
        /\ configured' \in BOOLEAN /\ Advance(k) /\ Doing(k, "write")
    BY <1>4 DEF Write
  <2>2. Frame
    BY <1>0, <2>1, SameFrame DEF Frame
  <2> QED BY <1>0, <2>1, <2>2, GoesKeeps, SwitchNext
<1>5. CASE ClearCaches(k)
  <2>1. /\ UNCHANGED <<configured, window, loaded, signedOut, switches>>
        /\ rows' \in {{}, rows} /\ (UNCHANGED faults \/ Fault) /\ Advance(k) /\ Doing(k, "clear")
    BY <1>5 DEF ClearCaches
  <2>2. Frame
    BY <1>0, <2>1, SameFrame DEF Frame
  <2> QED BY <1>0, <2>1, <2>2, GoesKeeps, SwitchNext
<1>6. CASE ResetConfig(k)
  <2>1. /\ UNCHANGED <<rows, loaded, signedOut, switches>>
        /\ configured' \in {FALSE, configured} /\ window' \in {"in", window}
        /\ (UNCHANGED faults \/ Fault) /\ Advance(k) /\ Doing(k, "reset")
    BY <1>6 DEF ResetConfig
  <2>2. Frame
    BY <1>0, <2>1, SameFrame DEF Frame, SwitchBase, SwitchTypeOK
  <2> QED BY <1>0, <2>1, <2>2, GoesKeeps, SwitchNext
<1>7. CASE Forget(k)
  <2>1. /\ UNCHANGED <<rows, configured, window, loaded, signedOut, switches>>
        /\ (UNCHANGED faults \/ Fault) /\ (Advance(k) \/ Abort(k)) /\ Doing(k, "forget")
    BY <1>7 DEF Forget
  <2>2. CommandsOK' /\ HoldKnown'
    BY <1>0, <2>1, GoesKeeps, AbortKeeps
  <2> QED BY <1>0, <2>1, <2>2, SameFrame, SwitchNext
<1>8. CASE DropToken(k)
  <2>1. /\ UNCHANGED <<rows, configured, loaded, switches, faults>>
        /\ signedOut' = TRUE /\ window' = "out" /\ Advance(k) /\ Doing(k, "drop")
    BY <1>8 DEF DropToken
  <2>2. Frame
    BY <1>0, <2>1, SameFrame DEF Frame
  <2> QED BY <1>0, <2>1, <2>2, GoesKeeps, SwitchNext
<1>9. CASE Relaunch(k)
  BY <1>9, RestartSwitch DEF Relaunch
<1> QED BY <1>1, <1>2, <1>3, <1>4, <1>5, <1>6, <1>7, <1>8, <1>9 DEF CommandStep

LEMMA SwitchStep ==
  ASSUME Base, [Next]_vars
  PROVE  SwitchBase'
<1>0. CommandsOK /\ HoldKnown /\ SwitchBase /\ Grows
  BY SwitchParts, TokenStep DEF Base
<1>1. CASE UNCHANGED switchVars
  BY <1>0, <1>1, SameCommands, SameFrame, SwitchNext DEF switchVars
<1>2. CASE SignIn \/ SignOut \/ ConfigSave
  <2>1. Account \in Owner /\ Settings \in Owner
    BY CommandAssumption
  <2>2. PICK k \in Owner, kind \in Kinds : Begin(k, kind)
    BY <1>2, <2>1, KindNames DEF SignIn, SignOut, ConfigSave
  <2> QED BY <1>0, <2>2, BeginSwitch
<1>3. ASSUME NEW c \in Caller, CallStep(c)
      PROVE  SwitchBase'
  <2>1. CASE Settle(c)
    <3>1. /\ UNCHANGED <<configured, window, loaded, cmd, signedOut, switches, faults>>
          /\ rows' \subseteq rows \cup {issued[call[c].tok]} /\ call[c].pc = "sent"
      BY <2>1 DEF Settle, Succeeds
    <3>2. call[c].tok \in Issued /\ Issued \subseteq Token /\ issued \in [Token -> 0..MaxTokens]
      BY <3>1 DEF Base, TokenBase, TokensKnown, TokenTypeOK, Issued
    <3>3. issued[call[c].tok] \in 1..MaxTokens
      BY <3>2, IssuedTokens DEF Issued
    <3>4. Frame
      BY <1>0, <3>1, <3>3, SameFrame DEF Frame, SwitchBase, SwitchTypeOK
    <3> QED BY <1>0, <3>1, <3>4, SameCommands, SwitchNext
  <2>2. CASE Replay(c)
    BY <1>1, <2>2 DEF Replay
  <2> QED BY <1>3, <2>1, <2>2 DEF CallStep
<1>4. CASE TokenFails \/ TokenExpires
  <2>1. /\ UNCHANGED <<rows, configured, window, loaded, cmd, signedOut, switches>>
        /\ UNCHANGED faults \/ Fault
    BY <1>4 DEF TokenFails, TokenExpires
  <2> QED BY <1>0, <2>1, SameCommands, SameFrame, SwitchNext
<1>5. CASE TokenAnswered \/ TokenSaved \/ TokenPublished
  BY <1>1, <1>5 DEF TokenAnswered, TokenSaved, TokenPublished
<1>6. CASE Crash
  BY <1>0, <1>6, RestartSwitch DEF Crash
<1>7. ASSUME NEW e \in Engine,
             EngineStarts(e) \/ FuseStarts(e) \/ FileOpened(e) \/ FileClosed(e)
      PROVE  SwitchBase'
  BY <1>1, <1>7 DEF EngineStarts, FuseStarts, FileOpened, FileClosed
<1>8. ASSUME NEW c \in Caller, Request(c) PROVE SwitchBase'
  BY <1>1, <1>8 DEF Request
<1>9. CASE UNCHANGED vars
  BY <1>1, <1>9 DEF vars
<1> QED
  BY <1>0, <1>2, <1>3, <1>4, <1>5, <1>6, <1>7, <1>8, <1>9, WindowSwitch, CommandSwitch
  DEF Next, RefreshStep

-----------------------------------------------------------------------------
(* Engines take turns *)

(* The steps of a command that holds the replacement gate. *)
Dropping == {"shutdown", "unmount", "drain", "replace"}

Replacing ==
    /\ replacing = IF gate = NoOwner THEN 0 ELSE 1
    /\ gate # NoOwner => slot = 0
    /\ \A k \in Owner : Stage(cmd[k]) \in Dropping <=> gate = k

(* What is behind the engine that was taken out. *)
Going == \A k \in Owner :
    /\ Stage(cmd[k]) \in {"unmount", "drain", "replace"} /\ cmd[k].old # 0 => engine[cmd[k].old].down
    /\ Stage(cmd[k]) \in {"drain", "replace"} => fuse = 0

(* An engine that can still begin something counts, too. *)
Active(e) == Alive(e) \/ Acts(e)
Alone == \A e \in Engine : Active(e) =>
            IF gate = NoOwner THEN e = slot ELSE e = cmd[gate].old

Turns == Replacing /\ Going /\ Alone
OwnerInv == OwnerBase /\ Turns

(* No engine has a request now that had none and may not begin one. *)
NoneBusier == \A e \in Engine : Idle(e) => Idle(e)' \/ Alive(e)

LEMMA OwnerFacts ==
  ASSUME Base
  PROVE  /\ slot \in 0..MaxEngines /\ fuse \in 0..MaxEngines /\ leases \subseteq Engine
         /\ engine \in [Engine -> [st : {"none", "starting", "started", "over"}, down : BOOLEAN]]
         /\ replacing \in Nat /\ gate \in Owner \cup {NoOwner}
         /\ NoOwner \notin Owner /\ Engine = 1..MaxEngines /\ MaxEngines \in Nat
         /\ cmd \in [Owner -> Command] /\ CommandsOK
BY OwnershipAssumption, SwitchParts DEF Base, OwnerBase, OwnerTypeOK, Engine, CommandsOK

LEMMA QuietOwner ==
  ASSUME Base, Turns, UNCHANGED ownerVars, UNCHANGED cmd, NoneBusier
  PROVE  OwnerInv'
<1>1. UNCHANGED <<slot, engine, replacing, gate, fuse, leases>>
  BY DEF ownerVars
<1>2. OwnerBase'
  BY <1>1 DEF Base, OwnerBase, OwnerTypeOK, EnginesInOrder, Built
<1>3. Replacing' /\ Going'
  BY <1>1 DEF Turns, Replacing, Going, Stage
<1>4. Alone'
  BY <1>1 DEF Turns, Alone, Active, Acts, Alive, NoneBusier
<1> QED BY <1>2, <1>3, <1>4 DEF OwnerInv, Turns

(* A command moves between steps outside drop_runtime_async. *)
LEMMA CommandMoves ==
  ASSUME Base, Turns, UNCHANGED ownerVars, NoneBusier,
         NEW k \in Owner, Onward(k),
         Stage(cmd[k]) \notin Dropping, Stage(cmd'[k]) \notin Dropping
  PROVE  OwnerInv'
<1>1. UNCHANGED <<slot, engine, replacing, gate, fuse, leases>>
  BY DEF ownerVars
<1>2. OwnerBase'
  BY <1>1 DEF Base, OwnerBase, OwnerTypeOK, EnginesInOrder, Built
<1>3. \A j \in Owner : cmd'[j] = cmd[j] \/ (j = k /\ Stage(cmd'[j]) \notin Dropping /\ gate # j)
  BY DEF Onward, Turns, Replacing
<1>4. Replacing'
  <2>1. \A j \in Owner : Stage(cmd'[j]) \in Dropping <=> gate = j
    BY <1>3 DEF Turns, Replacing
  <2> QED BY <1>1, <2>1 DEF Turns, Replacing, Stage
<1>5. Going'
  <2>1. \A j \in Owner :
           /\ Stage(cmd'[j]) \in {"unmount", "drain", "replace"} /\ cmd'[j].old # 0 => engine[cmd'[j].old].down
           /\ Stage(cmd'[j]) \in {"drain", "replace"} => fuse = 0
    BY <1>3 DEF Turns, Going, Dropping
  <2> QED BY <1>1, <2>1 DEF Going, Stage
<1>6. Alone'
  <2>1. gate # NoOwner => cmd'[gate] = cmd[gate]
    BY <1>3, OwnerFacts
  <2> QED BY <1>1, <2>1 DEF Turns, Alone, Active, Acts, Alive, NoneBusier
<1> QED BY <1>2, <1>4, <1>5, <1>6 DEF OwnerInv, Turns

LEMMA NextEngineIs ==
  ASSUME NEW n \in 0..MaxEngines, Built = 1..n
  PROVE  NextEngine = n + 1
<1>1. Cardinality(1..n) = n
  BY FS_Interval, OwnershipAssumption
<1> QED BY <1>1 DEF NextEngine

(* EnsureStarted, whether or not it builds one. *)
LEMMA Ensures ==
  ASSUME Base, EnsureStarted
  PROVE  /\ slot' \in 0..MaxEngines
         /\ engine' \in [Engine -> [st : {"none", "starting", "started", "over"}, down : BOOLEAN]]
         /\ EnginesInOrder'
         /\ \/ UNCHANGED <<slot, engine>>
            \/ /\ slot = 0
               /\ \A e \in Engine : e # slot' => engine'[e] = engine[e]
<1>1. CASE UNCHANGED <<slot, engine>>
  BY <1>1 DEF Base, OwnerBase, OwnerTypeOK, EnginesInOrder, Built
<1>2. CASE slot = 0 /\ Build
  <2>0. OwnerTypeOK /\ EnginesInOrder /\ Engine = 1..MaxEngines /\ MaxEngines \in Nat
    BY OwnerFacts DEF Base, OwnerBase
  <2>1. PICK n \in 0..MaxEngines : Built = 1..n
    BY <2>0 DEF EnginesInOrder
  <2>2. NextEngine = n + 1
    BY <2>1, NextEngineIs
  <2>3. /\ n + 1 \in 1..MaxEngines /\ slot' = n + 1
        /\ engine' = [engine EXCEPT ![n + 1] = [st |-> "starting", down |-> FALSE]]
    BY <1>2, <2>0, <2>2 DEF Build
  <2>4. /\ engine' \in [Engine -> [st : {"none", "starting", "started", "over"}, down : BOOLEAN]]
        /\ \A e \in Engine : e # n + 1 => engine'[e] = engine[e]
        /\ engine'[n + 1].st = "starting"
    BY <2>0, <2>3 DEF OwnerTypeOK
  <2>5. \A e \in 1..MaxEngines : engine[e].st # "none" <=> e \in 1..n
    BY <2>0, <2>1 DEF Built
  <2>6. \A e \in 1..MaxEngines : engine'[e].st # "none" <=> e \in 1..(n + 1)
    BY <2>0, <2>3, <2>4, <2>5
  <2>7. Built' = 1..(n + 1)
    <3>1. 1..(n + 1) \subseteq 1..MaxEngines
      BY <2>0, <2>3
    <3> QED BY <2>0, <2>6, <3>1 DEF Built
  <2>8. EnginesInOrder'
    BY <2>0, <2>3, <2>7 DEF EnginesInOrder
  <2> QED BY <1>2, <2>0, <2>3, <2>4, <2>8
<1> QED BY <1>1, <1>2 DEF EnsureStarted, Ensure

LEMMA TakeTurns ==
  ASSUME Base, Turns, NEW k \in Owner, Take(k)
  PROVE  OwnerInv'
<1>1. /\ gate = NoOwner /\ gate' = k /\ replacing' = replacing + 1 /\ slot' = 0
      /\ UNCHANGED <<engine, fuse, leases, call>>
      /\ Doing(k, "take") /\ AdvanceWith(k, "old", slot)
  BY DEF Take, TakeOut, tokenVars
<1>2. /\ Onward(k) /\ Stage(cmd[k]) = "take" /\ Stage(cmd'[k]) = "shutdown"
      /\ cmd'[k].old = slot
  <2>1. slot \in 0..MaxEngines /\ CommandsOK
    BY OwnerFacts
  <2>2. Onward(k) /\ Stage(cmd[k]) = "take" /\ Follows("take", Stage(cmd'[k])) /\ cmd'[k].old = slot
    BY <1>1, <2>1, GoesWith
  <2> QED BY <2>2 DEF Follows
<1>3. OwnerBase'
  BY <1>1, OwnerFacts DEF Base, OwnerBase, OwnerTypeOK, EnginesInOrder, Built
<1>4. \A j \in Owner : j # k => cmd'[j] = cmd[j] /\ Stage(cmd[j]) \notin Dropping
  BY <1>1, <1>2, OwnerFacts DEF Onward, Turns, Replacing
<1>5. \A j \in Owner : Stage(cmd'[j]) \in Dropping <=> j = k
  BY <1>2, <1>4 DEF Dropping
<1>6. Replacing'
  BY <1>1, <1>5, OwnerFacts DEF Turns, Replacing, Stage
<1>7. Going'
  <2>1. \A j \in Owner : Stage(cmd'[j]) \notin {"unmount", "drain", "replace"}
    BY <1>2, <1>4 DEF Dropping
  <2> QED BY <2>1 DEF Going, Stage
<1>8. Alone'
  BY <1>1, <1>2, OwnerFacts DEF Turns, Alone, Active, Acts, Alive, Idle
<1> QED BY <1>3, <1>6, <1>7, <1>8 DEF OwnerInv, Turns

(* The command that holds the gate goes on and keeps it. *)
LEMMA GateKept ==
  ASSUME Base, Turns, NEW k \in Owner, Onward(k), UNCHANGED <<slot, replacing, gate>>,
         Stage(cmd[k]) \in Dropping, Stage(cmd'[k]) \in Dropping
  PROVE  /\ Replacing' /\ gate = k
         /\ \A j \in Owner \ {k} : Stage(cmd'[j]) \notin Dropping /\ cmd'[j] = cmd[j]
<1>1. gate = k
  BY DEF Turns, Replacing
<1>2. \A j \in Owner \ {k} : Stage(cmd'[j]) \notin Dropping /\ cmd'[j] = cmd[j]
  BY <1>1 DEF Onward, Turns, Replacing
<1>3. \A j \in Owner : Stage(cmd'[j]) \in Dropping <=> gate = j
  BY <1>1, <1>2
<1>4. Replacing'
  BY <1>3 DEF Turns, Replacing, Stage
<1> QED BY <1>1, <1>2, <1>4

LEMMA ShutDownTurns ==
  ASSUME Base, Turns, NEW k \in Owner, StopAdmission(k)
  PROVE  OwnerInv'
<1> DEFINE o == cmd[k].old
<1>1. /\ engine' = IF o = 0 THEN engine ELSE [engine EXCEPT ![o].down = TRUE]
      /\ UNCHANGED <<slot, replacing, gate, fuse, leases, call>>
      /\ Doing(k, "shutdown") /\ Advance(k)
  BY DEF StopAdmission, ShutDown, tokenVars
<1>2. /\ Onward(k) /\ Stage(cmd[k]) = "shutdown" /\ Stage(cmd'[k]) = "unmount"
      /\ cmd'[k].kind # "none" /\ cmd'[k].old = o
  <2>1. /\ Onward(k) /\ Stage(cmd[k]) = "shutdown" /\ Follows("shutdown", Stage(cmd'[k]))
        /\ cmd'[k].kind # "none" => cmd'[k].old = o
    BY <1>1, OwnerFacts, Goes
  <2>2. Stage(cmd'[k]) = "unmount"
    BY <2>1 DEF Follows
  <2> QED BY <2>1, <2>2 DEF Stage
<1>3. o \in 0..MaxEngines
  BY OwnerFacts DEF Command
<1> HIDE DEF o
<1>4. /\ engine' \in [Engine -> [st : {"none", "starting", "started", "over"}, down : BOOLEAN]]
      /\ \A e \in Engine : engine'[e].st = engine[e].st /\ (engine[e].down => engine'[e].down)
      /\ o # 0 => engine'[o].down
  <2>1. CASE o = 0
    BY <1>1, <2>1, OwnerFacts
  <2>2. CASE o # 0
    <3>1. o \in Engine
      BY <1>3, <2>2, OwnerFacts
    <3>2. engine \in [Engine -> [st : {"none", "starting", "started", "over"}, down : BOOLEAN]]
      BY OwnerFacts
    <3>3. engine' = [engine EXCEPT ![o].down = TRUE]
      BY <1>1, <2>2
    <3> QED BY <3>1, <3>2, <3>3
  <2> QED BY <2>1, <2>2
<1>5. OwnerBase'
  <2>1. Built' = Built
    BY <1>4 DEF Built
  <2>2. EnginesInOrder'
    BY <2>1 DEF Base, OwnerBase, EnginesInOrder
  <2> QED BY <1>1, <1>4, <2>2 DEF Base, OwnerBase, OwnerTypeOK
<1>6. /\ Replacing' /\ gate = k
      /\ \A j \in Owner \ {k} : Stage(cmd'[j]) \notin Dropping /\ cmd'[j] = cmd[j]
  BY <1>1, <1>2, GateKept DEF Dropping
<1>7. Going'
  <2>1. \A j \in Owner :
           /\ Stage(cmd'[j]) \in {"unmount", "drain", "replace"} /\ cmd'[j].old # 0 => engine'[cmd'[j].old].down
           /\ Stage(cmd'[j]) \notin {"drain", "replace"}
    BY <1>2, <1>4, <1>6 DEF Dropping
  <2> QED BY <2>1 DEF Going, Stage
<1>8. Alone'
  <2>1. \A e \in Engine : Active(e)' => Active(e)
    BY <1>1, <1>4, OwnerFacts DEF Active, Acts, Alive, Idle
  <2> QED BY <1>1, <1>2, <1>6, <2>1, OwnerFacts DEF Turns, Alone, o
<1> QED BY <1>5, <1>6, <1>7, <1>8 DEF OwnerInv, Turns

LEMMA UnmountTurns ==
  ASSUME Base, Turns, NEW k \in Owner, StopFuse(k)
  PROVE  OwnerInv'
<1>1. /\ fuse' = 0 /\ UNCHANGED <<slot, engine, replacing, gate, leases, call>>
      /\ Doing(k, "unmount") /\ Advance(k)
  BY DEF StopFuse, Unmount, tokenVars
<1>2. /\ Onward(k) /\ Stage(cmd[k]) = "unmount" /\ Stage(cmd'[k]) \in {"drain", "replace"}
      /\ cmd'[k].kind # "none" /\ cmd'[k].old = cmd[k].old
  <2>1. /\ Onward(k) /\ Stage(cmd[k]) = "unmount" /\ Follows("unmount", Stage(cmd'[k]))
        /\ cmd'[k].kind # "none" => cmd'[k].old = cmd[k].old
    BY <1>1, OwnerFacts, Goes
  <2>2. Stage(cmd'[k]) \in {"drain", "replace"}
    BY <2>1 DEF Follows
  <2> QED BY <2>1, <2>2 DEF Stage
<1>3. OwnerBase'
  BY <1>1, OwnerFacts DEF Base, OwnerBase, OwnerTypeOK, EnginesInOrder, Built
<1>4. /\ Replacing' /\ gate = k
      /\ \A j \in Owner \ {k} : Stage(cmd'[j]) \notin Dropping /\ cmd'[j] = cmd[j]
  BY <1>1, <1>2, GateKept DEF Dropping
<1>5. Going'
  <2>1. \A j \in Owner :
           Stage(cmd'[j]) \in {"unmount", "drain", "replace"} /\ cmd'[j].old # 0 => engine[cmd'[j].old].down
    BY <1>2, <1>4 DEF Dropping, Turns, Going
  <2> QED BY <1>1, <2>1 DEF Going, Stage
<1>6. Alone'
  <2>1. \A e \in Engine : Active(e)' => Active(e)
    BY <1>1, OwnerFacts DEF Active, Acts, Alive, Idle, Engine
  <2> QED BY <1>1, <1>2, <1>4, <2>1, OwnerFacts DEF Turns, Alone
<1> QED BY <1>3, <1>4, <1>5, <1>6 DEF OwnerInv, Turns

(* Once the engine that was taken out is drained, no engine is left. *)
LEMMA NobodyLeft ==
  ASSUME Base, Turns, NEW k \in Owner,
         Stage(cmd[k]) \in {"drain", "replace"}, Drained(cmd[k].old)
  PROVE  gate = k /\ slot = 0 /\ replacing = 1 /\ \A e \in Engine : ~Active(e)
<1>1. gate = k /\ slot = 0 /\ replacing = 1
  BY OwnerFacts DEF Turns, Replacing, Dropping
<1>2. \A e \in Engine : Active(e) => e = cmd[k].old /\ e # 0
  BY <1>1, OwnerFacts DEF Turns, Alone
<1>3. \A e \in Engine : e = cmd[k].old /\ e # 0 => ~Alive(e) /\ fuse # e /\ Idle(e) /\ e \notin leases
  BY DEF Turns, Going, Alive, Drained
<1> QED BY <1>1, <1>2, <1>3 DEF Active, Acts

(* Both guards end: the gate is free, and whatever was built meanwhile is   *)
(* the engine of the slot.                                                  *)
LEMMA LetGoTurns ==
  ASSUME Base, Turns, NEW k \in Owner, NEW s \in {"drain", "replace"},
         Doing(k, s), Drained(cmd[k].old), EnsureStarted, LetGo, Advance(k), UNCHANGED call
  PROVE  OwnerInv'
<1>1. gate' = NoOwner /\ replacing' = replacing - 1 /\ UNCHANGED <<fuse, leases>>
  BY DEF LetGo
<1>2. Onward(k) /\ Stage(cmd[k]) = s /\ Stage(cmd'[k]) \notin Dropping
  <2>1. Onward(k) /\ Stage(cmd[k]) = s /\ Follows(s, Stage(cmd'[k]))
    BY OwnerFacts, Goes
  <2> QED BY <2>1 DEF Follows, Dropping
<1>3. gate = k /\ slot = 0 /\ replacing = 1 /\ \A e \in Engine : ~Active(e)
  BY <1>2, NobodyLeft
<1>4. /\ slot' \in 0..MaxEngines
      /\ engine' \in [Engine -> [st : {"none", "starting", "started", "over"}, down : BOOLEAN]]
      /\ EnginesInOrder'
      /\ \A e \in Engine : e # slot' => engine'[e] = engine[e]
  BY Ensures
<1>5. OwnerBase'
  BY <1>1, <1>3, <1>4, OwnerFacts DEF OwnerBase, OwnerTypeOK
<1>6. \A j \in Owner : Stage(cmd'[j]) \notin Dropping
  <2>1. \A j \in Owner : j # k => Stage(cmd[j]) \notin Dropping /\ cmd'[j] = cmd[j]
    BY <1>2, <1>3 DEF Onward, Turns, Replacing
  <2> QED BY <1>2, <2>1
<1>7. Replacing'
  BY <1>1, <1>3, <1>6, OwnerFacts DEF Replacing, Stage
<1>8. Going'
  <2>1. \A j \in Owner : Stage(cmd'[j]) \notin {"unmount", "drain", "replace"}
    BY <1>6 DEF Dropping
  <2> QED BY <2>1 DEF Going, Stage
<1>9. Alone'
  <2>1. \A e \in Engine : e # slot' => ~Active(e)'
    BY <1>1, <1>3, <1>4 DEF Active, Acts, Alive, Idle
  <2> QED BY <1>1, <2>1 DEF Alone
<1> QED BY <1>5, <1>7, <1>8, <1>9 DEF OwnerInv, Turns

LEMMA InstallTurns ==
  ASSUME Base, Turns, NEW k \in Owner, Install(k)
  PROVE  OwnerInv'
<1>1. /\ UNCHANGED <<replacing, gate, fuse, leases, call>> /\ Doing(k, "install") /\ Advance(k)
      /\ (replacing = 0 /\ EnsureStarted) \/ UNCHANGED <<slot, engine>>
  BY DEF Install, MayInstall, tokenVars
<1>2. Onward(k) /\ Stage(cmd[k]) = "install" /\ Stage(cmd'[k]) \notin Dropping
  <2>1. Onward(k) /\ Stage(cmd[k]) = "install" /\ Follows("install", Stage(cmd'[k]))
    BY <1>1, OwnerFacts, Goes
  <2> QED BY <2>1 DEF Follows, Dropping
<1>3. CASE UNCHANGED <<slot, engine>>
  <2>1. UNCHANGED ownerVars /\ NoneBusier
    BY <1>1, <1>3 DEF ownerVars, NoneBusier, Idle
  <2> QED BY <1>2, <2>1, CommandMoves DEF Dropping
<1>4. CASE replacing = 0 /\ EnsureStarted /\ ~UNCHANGED <<slot, engine>>
  <2>1. /\ slot' \in 0..MaxEngines
        /\ engine' \in [Engine -> [st : {"none", "starting", "started", "over"}, down : BOOLEAN]]
        /\ EnginesInOrder' /\ slot = 0
        /\ \A e \in Engine : e # slot' => engine'[e] = engine[e]
    BY <1>4, Ensures
  <2>2. gate = NoOwner
    BY <1>4, OwnerFacts DEF Turns, Replacing
  <2>3. OwnerBase'
    BY <1>1, <2>1, OwnerFacts DEF OwnerBase, OwnerTypeOK
  <2>4. \A j \in Owner : Stage(cmd'[j]) \notin Dropping
    <3>1. \A j \in Owner : j # k => Stage(cmd[j]) \notin Dropping /\ cmd'[j] = cmd[j]
      BY <1>2, <2>2, OwnerFacts DEF Onward, Turns, Replacing
    <3> QED BY <1>2, <3>1
  <2>5. Replacing'
    BY <1>1, <1>4, <2>2, <2>4, OwnerFacts DEF Replacing, Stage
  <2>6. Going'
    <3>1. \A j \in Owner : Stage(cmd'[j]) \notin {"unmount", "drain", "replace"}
      BY <2>4 DEF Dropping
    <3> QED BY <3>1 DEF Going, Stage
  <2>7. Alone'
    <3>1. \A e \in Engine : ~Active(e)
      BY <2>1, <2>2, OwnerFacts DEF Turns, Alone
    <3>2. \A e \in Engine : e # slot' => ~Active(e)'
      BY <1>1, <2>1, <3>1 DEF Active, Acts, Alive, Idle
    <3> QED BY <1>1, <2>2, <3>2 DEF Alone
  <2> QED BY <2>3, <2>5, <2>6, <2>7 DEF OwnerInv, Turns
<1> QED BY <1>1, <1>3, <1>4

(* An engine's own steps: its start, its mount, the files opened there.     *)
LEMMA EngineTurns ==
  ASSUME Base, Turns, NEW e \in Engine,
         EngineStarts(e) \/ FuseStarts(e) \/ FileOpened(e) \/ FileClosed(e)
  PROVE  OwnerInv'
<1>1. UNCHANGED <<slot, replacing, gate, cmd, call>>
  BY DEF EngineStarts, FuseStarts, FileOpened, FileClosed, Started, InstallFuse, Open, Close,
         tokenVars, switchVars
<1>2. Replacing'
  BY <1>1 DEF Turns, Replacing, Stage
<1>3. CASE EngineStarts(e) \/ FuseStarts(e)
  <2>1. /\ UNCHANGED leases /\ engine[e].st # "none"
        /\ \E st \in {"started", "over"} : engine' = [engine EXCEPT ![e].st = st]
        /\ fuse' = fuse \/ (replacing = 0 /\ slot = e /\ fuse' = e)
    BY <1>3 DEF EngineStarts, FuseStarts, Started, InstallFuse, MayInstall, IsCurrent
  <2>2. PICK st \in {"started", "over"} : engine' = [engine EXCEPT ![e].st = st]
    BY <2>1
  <2>3. /\ engine' \in [Engine -> [st : {"none", "starting", "started", "over"}, down : BOOLEAN]]
        /\ \A f \in Engine : engine'[f].down = engine[f].down
                             /\ (engine'[f].st # "none" <=> engine[f].st # "none")
    <3>1. engine \in [Engine -> [st : {"none", "starting", "started", "over"}, down : BOOLEAN]]
      BY OwnerFacts
    <3> QED BY <2>1, <2>2, <3>1
  <2>4. OwnerBase'
    <3>1. Built' = Built
      BY <2>3 DEF Built
    <3>2. EnginesInOrder'
      BY <3>1 DEF Base, OwnerBase, EnginesInOrder
    <3> QED BY <1>1, <2>1, <2>3, <3>2, OwnerFacts DEF OwnerBase, OwnerTypeOK
  <2>5. Going'
    <3>1. \A k \in Owner : Stage(cmd[k]) \in {"drain", "replace"} => fuse' = 0
      BY <2>1, OwnerFacts DEF Turns, Going, Replacing, Dropping
    <3>2. \A k \in Owner : Stage(cmd[k]) \in {"unmount", "drain", "replace"} /\ cmd[k].old # 0
            => engine'[cmd[k].old].down
      <4>1. \A k \in Owner : cmd[k].old # 0 => cmd[k].old \in Engine
        BY OwnerFacts DEF Command
      <4> QED BY <2>3, <4>1 DEF Turns, Going
    <3> QED BY <1>1, <3>1, <3>2 DEF Going, Stage
  <2>6. Alone'
    <3>1. \A f \in Engine : Active(f)' => Active(f) \/ (gate = NoOwner /\ slot = f)
      BY <1>1, <2>1, <2>3, OwnerFacts DEF Active, Acts, Alive, Idle, Turns, Replacing
    <3> QED BY <1>1, <3>1 DEF Turns, Alone
  <2> QED BY <1>2, <2>4, <2>5, <2>6 DEF OwnerInv, Turns
<1>4. CASE FileOpened(e) \/ FileClosed(e)
  <2>1. /\ UNCHANGED <<engine, fuse>>
        /\ leases' \subseteq leases \/ (leases' = leases \cup {e} /\ fuse = e)
    BY <1>4 DEF FileOpened, FileClosed, Open, Close
  <2>2. OwnerBase'
    BY <1>1, <2>1, OwnerFacts DEF Base, OwnerBase, OwnerTypeOK, EnginesInOrder, Built
  <2>3. Going'
    BY <1>1, <2>1 DEF Turns, Going, Stage
  <2>4. Alone'
    <3>1. \A f \in Engine : Active(f)' => Active(f)
      BY <1>1, <2>1 DEF Active, Acts, Alive, Idle
    <3> QED BY <1>1, <3>1 DEF Turns, Alone
  <2> QED BY <1>2, <2>2, <2>3, <2>4 DEF OwnerInv, Turns
<1> QED BY <1>3, <1>4

LEMMA RestartTurns ==
  ASSUME Base, Turns, Restarted
  PROVE  OwnerInv'
<1>1. /\ slot' = IF configured' /\ NextEngine \in Engine THEN NextEngine ELSE 0
      /\ engine' = [e \in Engine |->
            IF e = slot' THEN [st |-> "starting", down |-> FALSE]
            ELSE IF engine[e].st = "none" THEN engine[e]
            ELSE [st |-> "over", down |-> TRUE]]
      /\ replacing' = 0 /\ gate' = NoOwner /\ fuse' = 0 /\ leases' = {}
      /\ cmd' = [k \in Owner |-> NoCommand] /\ call' = [c \in Caller |-> NoCall]
  BY DEF Restarted, TokensAfterRestart
<1>2. PICK n \in 0..MaxEngines : Built = 1..n
  BY DEF Base, OwnerBase, EnginesInOrder
<1>3. NextEngine = n + 1
  BY <1>2, NextEngineIs
<1>4. Engine = 1..MaxEngines /\ MaxEngines \in Nat
      /\ engine \in [Engine -> [st : {"none", "starting", "started", "over"}, down : BOOLEAN]]
  BY OwnerFacts
<1>5. slot' \in 0..MaxEngines /\ (slot' = 0 \/ slot' = n + 1)
  BY <1>1, <1>3, <1>4
<1>6. engine' \in [Engine -> [st : {"none", "starting", "started", "over"}, down : BOOLEAN]]
  BY <1>1, <1>4
<1>7. \A e \in Engine : engine'[e].st # "none" <=> engine[e].st # "none" \/ e = slot'
  BY <1>1, <1>4
<1>8. \A e \in Engine : engine[e].st # "none" <=> e \in 1..n
  BY <1>2 DEF Built
<1>9. EnginesInOrder'
  <2>1. CASE slot' = 0
    <3>1. Built' = 1..n
      BY <1>2, <1>4, <1>7, <1>8, <2>1 DEF Built
    <3> QED BY <1>4, <3>1 DEF EnginesInOrder
  <2>2. CASE slot' = n + 1
    <3>1. n + 1 \in 1..MaxEngines /\ 1..(n + 1) \subseteq 1..MaxEngines
      BY <1>4, <1>5, <2>2
    <3>2. \A e \in Engine : engine'[e].st # "none" <=> e \in 1..(n + 1)
      BY <1>4, <1>7, <1>8, <2>2
    <3>3. Built' = 1..(n + 1)
      BY <1>4, <3>1, <3>2 DEF Built
    <3> QED BY <1>4, <3>1, <3>3 DEF EnginesInOrder
  <2> QED BY <1>5, <2>1, <2>2
<1>10. OwnerBase'
  BY <1>1, <1>5, <1>6, <1>9, OwnerFacts DEF OwnerBase, OwnerTypeOK
<1>11. \A k \in Owner : cmd'[k] = NoCommand
  BY <1>1
<1>12. Replacing'
  BY <1>1, <1>11, NoStage, OwnerFacts DEF Replacing, Stage, Dropping
<1>13. Going'
  BY <1>11, NoStage DEF Going, Stage
<1>14. Alone'
  <2>1. \A e \in Engine : e # slot' => ~engine'[e].st # "none" \/ engine'[e].down
    BY <1>1, <1>4
  <2>2. \A e \in Engine : Idle(e)'
    BY <1>1, CallTypes, CallerAssumption DEF Idle
  <2>3. \A e \in Engine : e # slot' => ~Active(e)'
    BY <1>1, <1>4, <2>1, <2>2 DEF Active, Acts, Alive, Idle
  <2> QED BY <1>1, <2>3 DEF Alone
<1> QED BY <1>10, <1>12, <1>13, <1>14 DEF OwnerInv, Turns

LEMMA CallersAre ==
  /\ Window \in Caller /\ Window \notin Engine
  /\ Engine \subseteq Caller
BY CallerAssumption, OwnershipAssumption DEF Window, Engine

(* Who is asked for nothing does not begin a request. *)
LEMMA Idlers ==
  ASSUME Base, NEW c \in Caller
  PROVE  /\ End(c) => \A e \in Caller : Idle(e) => Idle(e)'
         /\ call' = Failed => \A e \in Caller : Idle(e) => Idle(e)'
         /\ call' = Delivered => \A e \in Caller : Idle(e) => Idle(e)'
         /\ Send(c) => \A e \in Caller \ {c} : Idle(e) => Idle(e)'
         /\ \A r \in 0..MaxTokens : Join(c, r) => \A e \in Caller \ {c} : Idle(e) => Idle(e)'
<1>0. call \in [Caller -> Call]
  BY DEF Base, TokenBase, TokenTypeOK
<1>1. End(c) => \A e \in Caller : Idle(e) => Idle(e)'
  BY <1>0, CallTypes DEF End, Idle
<1>2. call' = Failed => \A e \in Caller : Idle(e) => Idle(e)'
  BY <1>0, CallTypes DEF Failed, Idle
<1>3. call' = Delivered => \A e \in Caller : Idle(e) => Idle(e)'
  BY <1>0 DEF Delivered, Waiting, Idle
<1>4. \A r \in 0..MaxTokens : Join(c, r) => \A e \in Caller \ {c} : Idle(e) => Idle(e)'
  BY <1>0 DEF Join, End, Idle
<1>5. Send(c) => \A e \in Caller \ {c} : Idle(e) => Idle(e)'
  <2>1. Send(c) => Join(c, 0) \/ call' = [call EXCEPT ![c] = [pc |-> "sent", tok |-> Current, refused |-> 0]]
    BY DEF Send
  <2>2. 0 \in 0..MaxTokens
    BY IssuedTokens
  <2> QED BY <1>0, <1>4, <2>1, <2>2 DEF Idle
<1> QED BY <1>1, <1>2, <1>3, <1>4, <1>5

LEMMA OwnerStep ==
  ASSUME Base, Turns, [Next]_vars
  PROVE  OwnerInv'
<1>1. ASSUME UNCHANGED <<ownerVars, cmd>>, \A e \in Engine : Idle(e) => Idle(e)' \/ Alive(e)
      PROVE  OwnerInv'
  BY <1>1, QuietOwner DEF NoneBusier
<1>2. CASE UNCHANGED vars
  BY <1>1, <1>2 DEF vars, switchVars, tokenVars, Idle
<1>3. CASE SignIn \/ SignOut \/ ConfigSave
  <2>1. PICK k \in Owner, kind \in Kinds : Begin(k, kind)
    BY <1>3, CommandAssumption, KindNames DEF SignIn, SignOut, ConfigSave
  <2>2. /\ Onward(k) /\ Stage(cmd[k]) \notin Dropping /\ Stage(cmd'[k]) \notin Dropping
    BY <2>1, Begins, OwnerFacts DEF Dropping
  <2>3. UNCHANGED ownerVars /\ NoneBusier
    BY <2>1 DEF Begin, tokenVars, NoneBusier, Idle
  <2> QED BY <2>2, <2>3, CommandMoves
<1>4. CASE WindowStep
  <2>1. UNCHANGED <<ownerVars, cmd>>
    BY <1>4 DEF WindowStep, RestoreLoad, RestoreHold, RestoreRefresh, RestoreEnds
  <2>2. UNCHANGED call \/ Join(Window, 0) \/ End(Window)
    BY <1>4 DEF WindowStep, RestoreLoad, RestoreHold, HoldNew, RestoreRefresh, RestoreEnds, tokenVars
  <2>3. 0 \in 0..MaxTokens
    BY IssuedTokens
  <2>4. \A e \in Engine : Idle(e) => Idle(e)'
    BY <2>2, <2>3, CallersAre, Idlers DEF Idle
  <2> QED BY <1>1, <2>1, <2>4
<1>5. ASSUME NEW k \in Owner, CommandStep(k)
      PROVE  OwnerInv'
  <2>1. CASE Authorize(k)
    <3>1. UNCHANGED <<ownerVars, call>> /\ Doing(k, "authorize")
      BY <2>1 DEF Authorize, KeepNew, tokenVars
    <3>2. Stage(cmd[k]) = "authorize"
      BY <3>1, StageOf, OwnerFacts DEF CommandsOK, Commands
    <3>3. Onward(k) /\ Stage(cmd'[k]) \notin Dropping
      <4>1. CASE Abort(k)
        BY <4>1, Aborts, OwnerFacts DEF Dropping
      <4>2. CASE KeepNew /\ AdvanceWith(k, "new", NextToken)
        <5>1. NextToken \in 0..MaxTokens
          BY <4>2, KeepNewTokens DEF Base
        <5>2. Onward(k) /\ Follows("authorize", Stage(cmd'[k]))
          BY <3>1, <4>2, <5>1, GoesWith, OwnerFacts
        <5> QED BY <5>2 DEF Follows, Dropping
      <4> QED BY <2>1, <4>1, <4>2 DEF Authorize
    <3> QED BY <3>1, <3>2, <3>3, CommandMoves DEF NoneBusier, Idle, Dropping
  <2>2. ASSUME NEW s \in {"hold", "write", "clear", "reset", "forget", "drop"},
               Doing(k, s), Advance(k) \/ Abort(k), UNCHANGED <<ownerVars, call>>
        PROVE  OwnerInv'
    <3>1. Stage(cmd[k]) = s
      BY <2>2, StageOf, OwnerFacts DEF CommandsOK, Commands
    <3>2. CASE Advance(k)
      <4>1. Onward(k) /\ Follows(s, Stage(cmd'[k]))
        BY <2>2, <3>2, Goes, OwnerFacts
      <4>2. Stage(cmd'[k]) \notin Dropping
        BY <4>1 DEF Follows, Dropping
      <4> QED BY <2>2, <3>1, <4>1, <4>2, CommandMoves DEF NoneBusier, Idle, Dropping
    <3>3. CASE Abort(k)
      <4>1. Onward(k) /\ Stage(cmd'[k]) \notin Dropping
        BY <3>3, Aborts, OwnerFacts DEF Dropping
      <4> QED BY <2>2, <3>1, <4>1, CommandMoves DEF NoneBusier, Idle, Dropping
    <3> QED BY <2>2, <3>2, <3>3
  <2>3. CASE Hold(k)
    BY <2>2, <2>3 DEF Hold, HoldNew
  <2>4. CASE Write(k)
    BY <2>2, <2>4 DEF Write, tokenVars
  <2>5. CASE ClearCaches(k)
    BY <2>2, <2>5 DEF ClearCaches, tokenVars
  <2>6. CASE ResetConfig(k)
    BY <2>2, <2>6 DEF ResetConfig, tokenVars
  <2>7. CASE Forget(k)
    <3>1. Doing(k, "forget") /\ (Advance(k) \/ Abort(k)) /\ UNCHANGED <<ownerVars, call>>
      BY <2>7 DEF Forget, ClearDisk, tokenVars
    <3> QED BY <2>2, <3>1
  <2>8. CASE DropToken(k)
    BY <2>2, <2>8 DEF DropToken, ClearMemory
  <2>9. CASE Take(k)
    BY <2>9, TakeTurns
  <2>10. CASE StopAdmission(k)
    BY <2>10, ShutDownTurns
  <2>11. CASE StopFuse(k)
    BY <2>11, UnmountTurns
  <2>12. CASE Drain(k)
    <3>1. /\ Doing(k, "drain") /\ Drained(cmd[k].old) /\ LetGo /\ Advance(k)
          /\ UNCHANGED <<slot, engine, call>>
      BY <2>12 DEF Drain, tokenVars
    <3> QED BY <3>1, LetGoTurns DEF EnsureStarted
  <2>13. CASE Replace(k)
    <3>1. /\ Doing(k, "replace") /\ Drained(cmd[k].old) /\ EnsureStarted /\ LetGo /\ Advance(k)
          /\ UNCHANGED call
      BY <2>13 DEF Replace, tokenVars
    <3> QED BY <3>1, LetGoTurns
  <2>14. CASE Install(k)
    BY <2>14, InstallTurns
  <2>15. CASE Relaunch(k)
    BY <2>15, RestartTurns DEF Relaunch
  <2> QED
    BY <1>5, <2>1, <2>3, <2>4, <2>5, <2>6, <2>7, <2>8, <2>9, <2>10, <2>11, <2>12, <2>13,
       <2>14, <2>15 DEF CommandStep
<1>6. ASSUME NEW c \in Caller, Request(c)
      PROVE  OwnerInv'
  <2>1. UNCHANGED <<ownerVars, cmd>> /\ Send(c) /\ (c # Window => Alive(c))
    BY <1>6 DEF Request, switchVars
  <2>2. \A e \in Engine : Idle(e) => Idle(e)' \/ Alive(e)
    BY <2>1, CallersAre, Idlers
  <2> QED BY <1>1, <2>1, <2>2
<1>7. ASSUME NEW c \in Caller, CallStep(c)
      PROVE  OwnerInv'
  <2>1. UNCHANGED <<ownerVars, cmd>> /\ call[c].pc = "sent"
    BY <1>7 DEF CallStep, Settle, Replay, Succeeds, Refused, switchVars
  <2>2. End(c) \/ Join(c, call[c].tok)
    BY <1>7 DEF CallStep, Settle, Replay, Succeeds, Refused
  <2>3. call[c].tok \in 0..MaxTokens /\ ~Idle(c)
    BY <2>1 DEF Base, TokenBase, TokenTypeOK, Call, Idle
  <2>4. \A e \in Engine : Idle(e) => Idle(e)'
    BY <2>2, <2>3, CallersAre, Idlers
  <2> QED BY <1>1, <2>1, <2>4
<1>8. CASE RefreshStep \/ TokenExpires
  <2>1. UNCHANGED <<ownerVars, cmd>>
    BY <1>8 DEF RefreshStep, TokenExpires, TokenAnswered, TokenSaved, TokenPublished, TokenFails,
                switchVars
  <2>2. UNCHANGED call \/ call' = Delivered \/ call' = Failed
    BY <1>8 DEF RefreshStep, TokenExpires, TokenAnswered, TokenSaved, TokenPublished, TokenFails,
                Answered, Save, Publish, RefreshFails, Expire
  <2>3. \A e \in Engine : Idle(e) => Idle(e)'
    BY <2>2, CallersAre, Idlers DEF Idle
  <2> QED BY <1>1, <2>1, <2>3
<1>9. CASE Crash
  BY <1>9, RestartTurns DEF Crash
<1>10. ASSUME NEW e \in Engine,
              EngineStarts(e) \/ FuseStarts(e) \/ FileOpened(e) \/ FileClosed(e)
       PROVE  OwnerInv'
  BY <1>10, EngineTurns
<1> QED BY <1>2, <1>3, <1>4, <1>5, <1>6, <1>7, <1>8, <1>9, <1>10 DEF Next

-----------------------------------------------------------------------------
(* The file is not behind the memory *)

(* Of the sign-in that is in the file, v is not newer than the file.        *)
Above(d, log, v) == v # 0 /\ d # 0 /\ log[v] = log[d] => v <= d
OnDisk(v) == Above(disk, issued, v)

(* The flight has the last token of its sign-in. *)
Newest == flight.pc \in {"got", "saved"} =>
            \A t \in Issued : issued[t] = issued[flight.got] => t <= flight.got

(* What may still come into memory is not newer than the file either. *)
Order ==
    /\ OnDisk(mem)
    /\ Newest
    /\ flight.pc = "saved" => OnDisk(flight.got)
    /\ window = "loaded" => OnDisk(loaded)
    /\ \A k \in Owner : Stage(cmd[k]) = "hold" => OnDisk(cmd[k].new)

(* No token the process knows is overtaken by this step. *)
DiskKeeps == \A v \in Issued \cup {0} : OnDisk(v) => Above(disk', issued', v)

LEMMA DiskStays ==
  ASSUME Base, Grows, disk' \in {disk, 0}
  PROVE  DiskKeeps
BY IssuedTokens DEF Base, TokenBase, TokensKnown, Known, DiskKeeps, OnDisk, Above, Grows

LEMMA NewestStays ==
  ASSUME Base, Newest, UNCHANGED issued,
         flight' = flight \/ flight'.pc \notin {"got", "saved"}
  PROVE  Newest'
<1>1. Issued' = Issued
  BY DEF Issued
<1> QED BY <1>1 DEF Newest

LEMMA OrderKept ==
  ASSUME Base, Order, Newest', DiskKeeps,
         mem' = mem \/ Above(disk', issued', mem'),
         flight'.pc = "saved" => Above(disk', issued', flight'.got)
                                 \/ (flight.pc = "saved" /\ flight'.got = flight.got),
         window' = "loaded" => Above(disk', issued', loaded')
                               \/ (window = "loaded" /\ loaded' = loaded),
         \A k \in Owner : Stage(cmd'[k]) = "hold" => Above(disk', issued', cmd'[k].new)
                                                     \/ cmd'[k] = cmd[k]
  PROVE  Order'
<1>0. CommandsOK /\ HoldKnown /\ Known(loaded) /\ Known(mem)
  BY SwitchParts DEF Base, TokenBase, TokensKnown
<1>1. OnDisk(mem)'
  BY <1>0 DEF Order, OnDisk, DiskKeeps, Known
<1>2. flight'.pc = "saved" => OnDisk(flight.got)'
  BY <1>0 DEF Order, OnDisk, DiskKeeps, Base, TokenBase, TokensKnown
<1>3. window' = "loaded" => OnDisk(loaded)'
  BY <1>0 DEF Order, OnDisk, DiskKeeps, Known
<1>4. \A k \in Owner : Stage(cmd'[k]) = "hold" => Above(disk', issued', cmd'[k].new)
  BY <1>0 DEF Order, OnDisk, DiskKeeps, HoldKnown
<1>5. (\A k \in Owner : Stage(cmd[k]) = "hold" => OnDisk(cmd[k].new))'
  BY <1>4 DEF Stage, OnDisk
<1> QED BY <1>1, <1>2, <1>3, <1>5 DEF Order

LEMMA Zero == ASSUME NEW d, NEW log PROVE Above(d, log, 0) /\ \A v : Above(0, log, v)
BY DEF Above

(* A command that was not at "authorize" is not at "hold". *)
LEMMA NotHold ==
  ASSUME Base, NEW k \in Owner, NEW s, s # "authorize", Doing(k, s), Advance(k) \/ Abort(k)
  PROVE  \A j \in Owner : Stage(cmd'[j]) = "hold" => cmd'[j] = cmd[j]
<1>0. CommandsOK
  BY OwnerFacts
<1>1. Onward(k) /\ Stage(cmd'[k]) # "hold"
  <2>1. CASE Advance(k)
    BY <1>0, <2>1, Goes DEF Follows
  <2>2. CASE Abort(k)
    BY <1>0, <2>2, Aborts DEF CommandsOK
  <2> QED BY <2>1, <2>2
<1> QED BY <1>1 DEF Onward

(* Steps on nothing but commands and engines. *)
LEMMA CommandsOrder ==
  ASSUME Base, Order, Grows, UNCHANGED <<mem, disk, issued, flight, loaded>>,
         window' = "loaded" => window = "loaded",
         \A j \in Owner : Stage(cmd'[j]) = "hold" => cmd'[j] = cmd[j]
  PROVE  Order'
<1>1. DiskKeeps /\ Newest'
  BY DiskStays, NewestStays DEF Order
<1> QED BY <1>1, OrderKept

LEMMA WindowOrder ==
  ASSUME Base, Order, Grows, WindowStep
  PROVE  Order'
<1>0. UNCHANGED <<issued, cmd>>
  BY DEF WindowStep, RestoreLoad, RestoreHold, RestoreRefresh, RestoreEnds, HoldNew, tokenVars
<1>1. CASE RestoreLoad
  <2>1. loaded' = disk /\ UNCHANGED <<mem, disk, flight>>
    BY <1>1 DEF RestoreLoad, tokenVars
  <2>2. DiskKeeps /\ Newest'
    BY <1>0, <2>1, DiskStays, NewestStays DEF Order
  <2>3. disk \in 0..MaxTokens /\ MaxTokens \in Nat
    BY IssuedTokens DEF Base, TokenBase, TokenTypeOK
  <2>4. Above(disk', issued', loaded')
    BY <2>1, <2>3 DEF Above
  <2> QED BY <1>0, <2>1, <2>2, <2>4, OrderKept
<1>2. CASE RestoreHold
  <2>1. /\ mem' = loaded /\ window = "loaded" /\ window' = "held"
        /\ UNCHANGED <<disk, flight, loaded>>
    BY <1>2 DEF RestoreHold, HoldNew
  <2>2. DiskKeeps /\ Newest'
    BY <1>0, <2>1, DiskStays, NewestStays DEF Order
  <2>3. Above(disk', issued', mem')
    BY <1>0, <2>1 DEF Order, OnDisk
  <2> QED BY <1>0, <2>1, <2>2, <2>3, OrderKept
<1>3. CASE RestoreRefresh \/ RestoreEnds
  <2>1. /\ mem' \in {mem, 0} /\ disk' \in {disk, 0}
        /\ flight' = flight \/ flight'.pc = "asked"
        /\ window' # "loaded"
    BY <1>3 DEF RestoreRefresh, RestoreEnds, Join
  <2>2. DiskKeeps /\ Newest'
    BY <1>0, <2>1, DiskStays, NewestStays DEF Order
  <2> QED BY <1>0, <2>1, <2>2, Zero, OrderKept
<1> QED BY <1>1, <1>2, <1>3 DEF WindowStep

LEMMA AuthorizeOrder ==
  ASSUME Base, Order, Grows, NEW k \in Owner, Authorize(k)
  PROVE  Order'
<1>0. UNCHANGED <<mem, flight, window, loaded>> /\ CommandsOK
  BY OwnerFacts DEF Authorize, KeepNew, tokenVars
<1>1. CASE KeepNew /\ AdvanceWith(k, "new", NextToken)
  <2>1. /\ Issued' = Issued \cup {NextToken} /\ disk' = NextToken /\ NextToken \in 0..MaxTokens
        /\ \A t \in Issued : issued[t] # issued'[NextToken]
    BY <1>1, KeepNewTokens DEF Base
  <2>2. DiskKeeps
    BY <2>1 DEF DiskKeeps, Above, Grows
  <2>3. Newest'
    <3>1. flight.pc \in {"got", "saved"} => flight.got \in Issued
      BY DEF Base, TokenBase, TokensKnown
    <3> QED BY <1>0, <2>1, <3>1 DEF Newest, Order, Grows
  <2>4. Onward(k) /\ cmd'[k].new = NextToken
    BY <1>0, <1>1, <2>1, GoesWith DEF Authorize
  <2>5. Above(disk', issued', NextToken)
    BY <2>1, TokensAssumption DEF Above
  <2>6. \A j \in Owner : Stage(cmd'[j]) = "hold" => Above(disk', issued', cmd'[j].new)
                                                    \/ cmd'[j] = cmd[j]
    BY <2>4, <2>5 DEF Onward
  <2> QED BY <1>0, <2>2, <2>3, <2>6, OrderKept
<1>2. CASE Abort(k) /\ UNCHANGED tokenVars
  <2>1. Onward(k) /\ Stage(cmd'[k]) # "hold"
    BY <1>0, <1>2, Aborts DEF CommandsOK
  <2> QED BY <1>0, <1>2, <2>1, CommandsOrder DEF Onward, tokenVars
<1> QED BY <1>1, <1>2 DEF Authorize

LEMMA RestartOrder ==
  ASSUME Base, Order, Grows, Restarted
  PROVE  Order'
<1>1. /\ mem' = 0 /\ flight' = NoFlight /\ UNCHANGED <<disk, issued>> /\ window' = "start"
      /\ cmd' = [j \in Owner |-> NoCommand]
  BY DEF Restarted, TokensAfterRestart
<1>2. DiskKeeps /\ Newest'
  BY <1>1, DiskStays, NewestStays, CallTypes DEF Order
<1>3. \A j \in Owner : Stage(cmd'[j]) # "hold"
  BY <1>1, NoStage
<1> QED BY <1>1, <1>2, <1>3, CallTypes, Zero, OrderKept

LEMMA CommandOrder ==
  ASSUME Base, Order, Grows, NEW k \in Owner, CommandStep(k)
  PROVE  Order'
<1>1. CASE Authorize(k)
  BY <1>1, AuthorizeOrder
<1>2. CASE Hold(k)
  <2>1. /\ mem' = cmd[k].new /\ UNCHANGED <<disk, issued, flight, window, loaded>>
        /\ Doing(k, "hold") /\ Advance(k)
    BY <1>2 DEF Hold, HoldNew
  <2>2. DiskKeeps /\ Newest'
    BY <2>1, DiskStays, NewestStays DEF Order
  <2>3. Stage(cmd[k]) = "hold"
    BY <2>1, StageOf, OwnerFacts DEF CommandsOK, Commands
  <2>4. Above(disk', issued', mem')
    BY <2>1, <2>3 DEF Order, OnDisk
  <2>5. \A j \in Owner : Stage(cmd'[j]) = "hold" => cmd'[j] = cmd[j]
    BY <2>1, NotHold
  <2> QED BY <2>1, <2>2, <2>4, <2>5, OrderKept
<1>3. CASE Take(k)
  <2>1. /\ UNCHANGED <<mem, disk, issued, flight, window, loaded>>
        /\ Doing(k, "take") /\ AdvanceWith(k, "old", slot)
    BY <1>3 DEF Take, tokenVars
  <2>2. Onward(k) /\ Follows("take", Stage(cmd'[k]))
    BY <2>1, OwnerFacts, GoesWith
  <2>3. \A j \in Owner : Stage(cmd'[j]) = "hold" => cmd'[j] = cmd[j]
    BY <2>2 DEF Onward, Follows
  <2> QED BY <2>1, <2>3, CommandsOrder
<1>4. CASE StopAdmission(k) \/ StopFuse(k) \/ Drain(k) \/ Replace(k) \/ Install(k) \/ Write(k)
           \/ ClearCaches(k)
  <2>1. /\ UNCHANGED <<mem, disk, issued, flight, window, loaded>> /\ Advance(k)
    BY <1>4 DEF StopAdmission, StopFuse, Drain, Replace, Install, Write, ClearCaches, tokenVars
  <2>2. PICK s \in {"shutdown", "unmount", "drain", "replace", "install", "write", "clear"} : Doing(k, s)
    BY <1>4 DEF StopAdmission, StopFuse, Drain, Replace, Install, Write, ClearCaches
  <2>3. \A j \in Owner : Stage(cmd'[j]) = "hold" => cmd'[j] = cmd[j]
    BY <2>1, <2>2, NotHold
  <2> QED BY <2>1, <2>3, CommandsOrder
<1>5. CASE ResetConfig(k)
  <2>1. /\ UNCHANGED <<mem, disk, issued, flight, loaded>> /\ Advance(k) /\ Doing(k, "reset")
        /\ window' \in {"in", window}
    BY <1>5 DEF ResetConfig, tokenVars
  <2>2. \A j \in Owner : Stage(cmd'[j]) = "hold" => cmd'[j] = cmd[j]
    BY <2>1, NotHold
  <2> QED BY <2>1, <2>2, CommandsOrder
<1>6. CASE Forget(k) \/ DropToken(k)
  <2>1. /\ mem' \in {mem, 0} /\ disk' \in {disk, 0} /\ UNCHANGED <<issued, flight, loaded>>
        /\ window' \in {"out", window} /\ (Advance(k) \/ Abort(k))
    BY <1>6 DEF Forget, ClearDisk, DropToken, ClearMemory, tokenVars
  <2>2. PICK s \in {"forget", "drop"} : Doing(k, s)
    BY <1>6 DEF Forget, DropToken
  <2>3. \A j \in Owner : Stage(cmd'[j]) = "hold" => cmd'[j] = cmd[j]
    BY <2>1, <2>2, NotHold
  <2>4. DiskKeeps /\ Newest'
    BY <2>1, DiskStays, NewestStays DEF Order
  <2> QED BY <2>1, <2>3, <2>4, Zero, OrderKept
<1>7. CASE Relaunch(k)
  BY <1>7, RestartOrder DEF Relaunch
<1> QED BY <1>1, <1>2, <1>3, <1>4, <1>5, <1>6, <1>7 DEF CommandStep

LEMMA RefreshOrder ==
  ASSUME Base, Order, Grows, RefreshStep
  PROVE  Order'
<1>0. UNCHANGED <<window, loaded, cmd>>
  BY DEF RefreshStep, TokenAnswered, TokenSaved, TokenPublished, TokenFails, switchVars
<1>1. CASE Answered
  <2>1. /\ UNCHANGED <<mem, disk>> /\ flight.pc = "asked" /\ flight' = [flight EXCEPT !.pc = "got", !.got = NextToken]
        /\ NextToken \in Token
    BY <1>1 DEF Answered
  <2>2. /\ Issued' = Issued \cup {NextToken} /\ flight'.got = NextToken
        /\ \A t \in Issued : t < NextToken
    BY <1>1, AnsweredTokens DEF Base
  <2>3. flight \in Flight
    BY DEF Base, TokenBase, TokenTypeOK
  <2>4. flight'.pc = "got"
    BY <2>1, <2>3 DEF Flight
  <2>5. \A t \in Issued' : t <= NextToken
    BY <2>1, <2>2, IssuedTokens
  <2>6. Newest'
    BY <2>2, <2>5 DEF Newest
  <2> QED BY <1>0, <2>1, <2>4, <2>6, DiskStays, OrderKept
<1>2. CASE Save
  <2>1. /\ flight.pc = "got" /\ disk' = flight.got /\ UNCHANGED <<mem, issued>>
        /\ flight' = [flight EXCEPT !.pc = "saved"]
    BY <1>2 DEF Save
  <2>2. flight \in Flight /\ flight.got \in Issued
    BY <2>1 DEF Base, TokenBase, TokenTypeOK, TokensKnown
  <2>3. flight'.pc = "saved" /\ flight'.got = flight.got
    BY <2>1, <2>2 DEF Flight
  <2>4. DiskKeeps
    BY <2>1 DEF DiskKeeps, Above, Order, Newest
  <2>5. Newest'
    BY <2>1, <2>3 DEF Order, Newest, Issued
  <2>6. Above(disk', issued', flight'.got)
    BY <2>1, <2>2, <2>3, IssuedTokens DEF Above
  <2> QED BY <1>0, <2>1, <2>4, <2>5, <2>6, OrderKept
<1>3. CASE Publish
  <2>1. /\ flight.pc = "saved" /\ mem' = flight.got /\ flight' = NoFlight /\ UNCHANGED <<disk, issued>>
    BY <1>3 DEF Publish
  <2>2. Above(disk', issued', mem')
    BY <2>1 DEF Order, OnDisk
  <2>3. DiskKeeps /\ Newest'
    BY <2>1, DiskStays, NewestStays, CallTypes DEF Order
  <2> QED BY <1>0, <2>1, <2>2, <2>3, CallTypes, OrderKept
<1>4. CASE RefreshFails
  <2>1. flight' = NoFlight /\ UNCHANGED <<mem, disk, issued>>
    BY <1>4 DEF RefreshFails
  <2>2. DiskKeeps /\ Newest'
    BY <2>1, DiskStays, NewestStays, CallTypes DEF Order
  <2> QED BY <1>0, <2>1, <2>2, CallTypes, OrderKept
<1> QED
  BY <1>1, <1>2, <1>3, <1>4 DEF RefreshStep, TokenAnswered, TokenSaved, TokenPublished, TokenFails

LEMMA OrderStep ==
  ASSUME Base, Order, [Next]_vars
  PROVE  Order'
<1>0. Grows
  BY TokenStep
<1>1. ASSUME UNCHANGED <<mem, disk, issued, window, loaded, cmd>>,
             flight' = flight \/ flight'.pc = "asked"
      PROVE  Order'
  <2>1. DiskKeeps /\ Newest'
    BY <1>0, <1>1, DiskStays, NewestStays DEF Order
  <2> QED BY <1>1, <2>1, OrderKept
<1>2. CASE SignIn \/ SignOut \/ ConfigSave
  <2>1. PICK k \in Owner, kind \in Kinds : Begin(k, kind)
    BY <1>2, CommandAssumption, KindNames DEF SignIn, SignOut, ConfigSave
  <2>2. Onward(k) /\ Stage(cmd'[k]) # "hold"
    BY <2>1, Begins, OwnerFacts
  <2>3. UNCHANGED <<mem, disk, issued, flight, loaded, window>>
    BY <2>1 DEF Begin, tokenVars
  <2> QED BY <1>0, <2>2, <2>3, CommandsOrder DEF Onward
<1>3. ASSUME NEW c \in Caller, Request(c) \/ CallStep(c)
      PROVE  Order'
  <2>1. Send(c) \/ Succeeds(c) \/ Refused(c)
    BY <1>3 DEF Request, CallStep, Settle, Replay
  <2>2. flight' = flight \/ flight'.pc = "asked"
    BY <2>1 DEF Send, Succeeds, Refused, Join
  <2>3. UNCHANGED <<mem, disk, issued, window, loaded, cmd>>
    BY <1>3 DEF Request, CallStep, Settle, Replay, Send, Succeeds, Refused, switchVars
  <2> QED BY <1>1, <2>2, <2>3
<1>4. CASE TokenExpires
  BY <1>1, <1>4 DEF TokenExpires, Expire
<1>5. ASSUME NEW e \in Engine,
             EngineStarts(e) \/ FuseStarts(e) \/ FileOpened(e) \/ FileClosed(e)
      PROVE  Order'
  BY <1>1, <1>5 DEF EngineStarts, FuseStarts, FileOpened, FileClosed, tokenVars, switchVars
<1>6. CASE Crash
  BY <1>0, <1>6, RestartOrder DEF Crash
<1>7. CASE UNCHANGED vars
  BY <1>1, <1>7 DEF vars, tokenVars, switchVars
<1> QED
  BY <1>0, <1>2, <1>3, <1>4, <1>5, <1>6, <1>7, WindowOrder, CommandOrder, RefreshOrder DEF Next

-----------------------------------------------------------------------------
LEMMA InitBase == Init => Base /\ Turns /\ Order
<1> SUFFICES ASSUME Init PROVE Base /\ Turns /\ Order
  OBVIOUS
<1>0. MaxTokens \in Nat \ {0} /\ MaxEngines \in Nat \ {0} /\ MaxSwitches \in Nat /\ MaxFaults \in Nat
  BY TokensAssumption, OwnershipAssumption, SwitchBoundAssumption
<1>1. /\ mem = 0 /\ disk = 0 /\ stale = {} /\ replaced = {} /\ issued = [n \in Token |-> 0]
      /\ flight = NoFlight /\ call = [c \in Caller |-> NoCall]
  BY DEF Init, TokenInit
<1>2. Issued = {} /\ 1..0 = {}
  BY <1>1 DEF Issued
<1>3. Log
  <2>1. LogOf(0, 0)
    BY <1>2 DEF LogOf
  <2> QED BY <1>0, <2>1 DEF Log
<1>4. FlightOK /\ CallsOK /\ CopiesOK /\ IssuedOK
  BY <1>0, <1>1, <1>3, CallTypes DEF FlightOK, CallsOK, CopiesOK, Known, IssuedOK, Token
<1>5. TokenBase
  BY <1>4, Parts
<1>6. /\ slot = 0 /\ engine = [e \in Engine |-> NoEngine] /\ replacing = 0 /\ gate = NoOwner
      /\ fuse = 0 /\ leases = {}
  BY DEF Init, OwnerInit
<1>7. Built = {} /\ \A e \in Engine : ~Alive(e)
  BY <1>6 DEF Built, NoEngine, Alive
<1>8. OwnerBase
  BY <1>0, <1>2, <1>6, <1>7 DEF OwnerBase, OwnerTypeOK, EnginesInOrder, NoEngine
<1>9. \A k \in Owner : cmd[k] = NoCommand
  BY DEF Init
<1>10. CommandsOK /\ HoldKnown
  BY <1>9, NoStage DEF Init, CommandsOK, Commands, HoldKnown
<1>11. SwitchBase
  <2>1. /\ rows = {} /\ configured = FALSE /\ window = "start" /\ loaded = 0
        /\ signedOut = FALSE /\ switches = 0 /\ faults = 0
    BY DEF Init
  <2>2. rows \subseteq 1..MaxTokens /\ configured \in BOOLEAN /\ signedOut \in BOOLEAN
    BY <2>1
  <2>3. window \in {"start", "loaded", "held", "restoring", "in", "out"}
    BY <2>1
  <2>4. loaded \in 0..MaxTokens /\ switches \in 0..MaxSwitches /\ faults \in 0..MaxFaults
    BY <1>0, <2>1
  <2>5. Known(loaded)
    BY <2>1 DEF Known
  <2> QED BY <1>10, <2>2, <2>3, <2>4, <2>5, SwitchParts
<1>12. Turns
  <2>1. Replacing /\ Going
    BY <1>6, <1>9, NoStage, OwnershipAssumption DEF Replacing, Going, Dropping
  <2>2. \A e \in Engine : Idle(e) /\ e # 0
    BY <1>1, CallTypes, CallersAre DEF Idle, Window
  <2>3. Alone
    BY <1>6, <1>7, <2>2 DEF Alone, Active, Acts
  <2> QED BY <2>1, <2>3 DEF Turns
<1>13. Order
  BY <1>1, <1>9, NoStage, CallTypes, Zero DEF Init, Order, OnDisk, Newest
<1> QED BY <1>5, <1>8, <1>11, <1>12, <1>13 DEF Base

LEMMA Inductive == Spec => [](Base /\ Turns /\ Order)
<1>1. Base /\ Turns /\ Order /\ [Next]_vars => (Base /\ Turns /\ Order)'
  <2> SUFFICES ASSUME Base, Turns, Order, [Next]_vars
               PROVE  (Base /\ Turns /\ Order)'
    OBVIOUS
  <2>1. TokenBase' /\ SwitchBase' /\ OwnerInv' /\ Order'
    BY TokenStep, SwitchStep, OwnerStep, OrderStep
  <2> QED BY <2>1 DEF Base, OwnerInv
<1> QED BY <1>1, InitBase, PTL DEF Spec

(* Types of the tokens, the engines, the commands and the window, for any   *)
(* number of callers, engines, tokens, commands and faults.                 *)
THEOREM TypeCorrect == Spec => []TypeOK
<1>1. Base => TypeOK
  BY TypesHold DEF Base, TokenBase, OwnerBase, SwitchBase
<1> QED BY <1>1, Inductive, PTL

(* One engine at a time works on the directory and the database: whoever    *)
(* has a request under way, a mount or an open file is the engine of the    *)
(* slot or the one that the replacement under way waits for                 *)
(* (drop_runtime_async, install_virtual_fs_session, SyncEngine::shutdown).  *)
THEOREM OneEngineAtATime == Spec => []EnginesTakeTurns
<1>1. Turns => EnginesTakeTurns
  BY DEF Turns, Alone, Active, EnginesTakeTurns
<1> QED BY <1>1, Inductive, PTL

(* token.bin has a token at least as new as the one in memory, of the same  *)
(* sign-in, whatever refreshes, sign-ins, sign-outs, restores of the window *)
(* and ends of the process come between (perform_refresh, authorize,        *)
(* restore).                                                                *)
THEOREM FileFirst == Spec => []DiskNotBehind
<1>1. Order => DiskNotBehind
  BY DEF Order, OnDisk, Above, DiskNotBehind
<1> QED BY <1>1, Inductive, PTL
=============================================================================
