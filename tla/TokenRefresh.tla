---------------------------- MODULE TokenRefresh ----------------------------
(***************************************************************************)
(* The login token (src/src/auth/token_refresher.rs, token_store.rs) and   *)
(* the requests that carry it (src/src/drive/client.rs): a copy in memory, *)
(* a copy on disk, one refresh at a time whose result is shared by all who *)
(* asked for it, and one replay of a request that was refused with 401.    *)
(*                                                                         *)
(* Tokens are numbered as the server issues them; a token belongs to the   *)
(* sign-in it descends from, and every sign-in is of another account.      *)
(***************************************************************************)
EXTENDS Integers, FiniteSets

CONSTANTS
    Caller,     \* who sends requests, one at a time each
    MaxTokens   \* bound: tokens the server issues

ASSUME TokensAssumption == MaxTokens \in Nat \ {0}

VARIABLES
    mem,        \* TokenRefresher::current, 0 when there is none
    disk,       \* token.bin, 0 when there is none
    issued,     \* the sign-in every token descends from, 0: not issued yet
    stale,      \* tokens the drive refuses
    flight,     \* the active refresh, and what it has got
    call,       \* where the request of every caller is
    replaced    \* ghost: tokens whose successor has been stored

tokenVars == <<mem, disk, issued, stale, flight, call, replaced>>

Token == 1..MaxTokens
Issued == {n \in Token : issued[n] # 0}
NextToken == Cardinality(Issued) + 1
SignIns == Cardinality({issued[n] : n \in Issued})

(* asked: the POST is on its way; got: its answer is here; saved: it is on  *)
(* disk and not yet in memory.                                              *)
Flight == [pc : {"none", "asked", "got", "saved"}, from : 0..MaxTokens, got : 0..MaxTokens]
NoFlight == [pc |-> "none", from |-> 0, got |-> 0]

(* sent: with token tok; wait: for the refresh.  refused is the token that  *)
(* was answered with 401.                                                   *)
Call == [pc : {"idle", "sent", "wait"}, tok : 0..MaxTokens, refused : 0..MaxTokens]
NoCall == [pc |-> "idle", tok |-> 0, refused |-> 0]

TokenInit ==
    /\ mem = 0
    /\ disk = 0
    /\ issued = [n \in Token |-> 0]
    /\ stale = {}
    /\ flight = NoFlight
    /\ call = [c \in Caller |-> NoCall]
    /\ replaced = {}

Waiting == {c \in Caller : call[c].pc = "wait"}
Idle(c) == call[c].pc = "idle"
End(c) == call' = [call EXCEPT ![c] = NoCall]

(* current_token: memory, or else the disk. *)
Current == IF mem # 0 THEN mem ELSE disk

-----------------------------------------------------------------------------
(* RefreshSingleflight::run: join the active refresh or lead one.           *)
Join(c, refused) ==
    LET wait == [call EXCEPT ![c] = [pc |-> "wait", tok |-> 0, refused |-> refused]] IN
    \/ /\ flight.pc # "none"
       /\ call' = wait
       /\ UNCHANGED flight
    \/ /\ flight.pc = "none"
       /\ Current # 0
       /\ flight' = [pc |-> "asked", from |-> Current, got |-> 0]
       /\ call' = wait
    \/ /\ flight.pc = "none"
       /\ Current = 0
       /\ End(c)
       /\ UNCHANGED flight

(* ensure_valid_access_token, then the request: a token that is about to    *)
(* expire is refreshed first.                                               *)
Send(c) ==
    /\ Idle(c)
    /\ Current # 0
    /\ \/ /\ call' = [call EXCEPT ![c] = [pc |-> "sent", tok |-> Current, refused |-> 0]]
          /\ UNCHANGED flight
       \/ Join(c, 0)
    /\ UNCHANGED <<mem, disk, issued, stale, replaced>>

Succeeds(c) ==
    /\ call[c].pc = "sent"
    /\ call[c].tok \notin stale
    /\ End(c)
    /\ UNCHANGED <<mem, disk, issued, stale, flight, replaced>>

(* 401: refresh and replay, once. *)
Refused(c) ==
    /\ call[c].pc = "sent"
    /\ call[c].tok \in stale
    /\ IF call[c].refused = 0 THEN Join(c, call[c].tok)
                              ELSE End(c) /\ UNCHANGED flight
    /\ UNCHANGED <<mem, disk, issued, stale, replaced>>

-----------------------------------------------------------------------------
(* perform_refresh *)

Issue(signIn) == issued' = [issued EXCEPT ![NextToken] = signIn]

Answered_RememberedFirst ==
    /\ flight.pc = "asked"
    /\ NextToken \in Token
    /\ Issue(issued[flight.from])
    /\ mem' = NextToken
    /\ flight' = [flight EXCEPT !.pc = "got", !.got = NextToken]
    /\ UNCHANGED <<disk, stale, call, replaced>>
Answered ==
    /\ flight.pc = "asked"
    /\ NextToken \in Token
    /\ Issue(issued[flight.from])
    /\ flight' = [flight EXCEPT !.pc = "got", !.got = NextToken]
    /\ UNCHANGED <<mem, disk, stale, call, replaced>>

Save ==
    /\ flight.pc = "got"
    /\ disk' = flight.got
    /\ flight' = [flight EXCEPT !.pc = "saved"]
    /\ replaced' = replaced \cup {flight.from}
    /\ UNCHANGED <<mem, issued, stale, call>>

Delivered == [c \in Caller |-> IF c \in Waiting
                               THEN [call[c] EXCEPT !.pc = "sent", !.tok = flight.got]
                               ELSE call[c]]

(* The memory copy, then RefreshLeaderGuard::complete: the result to all    *)
(* who wait, and the slot is free.                                          *)
Publish ==
    /\ flight.pc = "saved"
    /\ mem' = flight.got
    /\ call' = Delivered
    /\ flight' = NoFlight
    /\ UNCHANGED <<disk, issued, stale, replaced>>

Failed_LeaderOnly == call
Failed == [c \in Caller |-> IF c \in Waiting THEN NoCall ELSE call[c]]

(* The refresh fails, its answer is lost or cannot be stored, or its leader *)
(* is dropped: all who wait get the error.                                  *)
RefreshFails ==
    /\ flight.pc \in {"asked", "got"}
    /\ call' = Failed
    /\ flight' = NoFlight
    /\ UNCHANGED <<mem, disk, issued, stale, replaced>>

-----------------------------------------------------------------------------
(* Signing in and out *)

(* authorize: the code is exchanged and the token stored, *)
KeepNew ==
    /\ NextToken \in Token
    /\ Issue(SignIns + 1)
    /\ disk' = NextToken
    /\ UNCHANGED <<mem, stale, flight, call, replaced>>

(* then remembered. *)
HoldNew(n) ==
    /\ mem' = n
    /\ UNCHANGED <<disk, issued, stale, flight, call, replaced>>

(* logout: the file, then the memory copy. *)
ClearDisk ==
    /\ disk' = 0
    /\ UNCHANGED <<mem, issued, stale, flight, call, replaced>>
ClearMemory ==
    /\ mem' = 0
    /\ UNCHANGED <<disk, issued, stale, flight, call, replaced>>

(* The drive stops accepting a token. *)
Expire ==
    /\ \E n \in Issued \ stale : stale' = stale \cup {n}
    /\ UNCHANGED <<mem, disk, issued, flight, call, replaced>>

(* Memory is lost with the process. *)
TokensAfterRestart ==
    /\ mem' = 0
    /\ flight' = NoFlight
    /\ call' = [c \in Caller |-> NoCall]
    /\ UNCHANGED <<disk, issued, stale, replaced>>

TokenTypeOK ==
    /\ mem \in 0..MaxTokens
    /\ disk \in 0..MaxTokens
    /\ issued \in [Token -> 0..MaxTokens]
    /\ stale \subseteq Token
    /\ flight \in Flight
    /\ call \in [Caller -> Call]
    /\ replaced \subseteq Token
=============================================================================
