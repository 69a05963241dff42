-------------------------- MODULE SafeTradeManager --------------------------
(***************************************************************************)
(* CSafeTradeManager of Include/CSafeTradeManager.mqh: Buy and Sell send   *)
(* an order and wait for its answer, and send it again after an answer     *)
(* that may be tried again.  The strategy calls once per bar and ignores   *)
(* the result.  Prices, sides and texts are left out.                      *)
(***************************************************************************)
EXTENDS Naturals

CONSTANTS
    SendRetries,    \* m_max_retries
    MaxCalls        \* bound: calls of Buy or Sell

ASSUME SafeAssumption == {SendRetries, MaxCalls} \subseteq Nat

VARIABLES
    call,           \* the call that runs: its attempt, 0 when none runs
    opened,         \* executions at the broker
    told,           \* calls that returned true
    hidden,         \* executions whose answer was TIMEOUT
    calls, answered \* calls so far; answers to the attempts of this call

safeVars == <<call, opened, told, hidden, calls, answered>>

\* Mutant: a partial execution is no success.
SuccessInFull == {"DONE", "PLACED"}

\* _IsSuccessRetcode, _IsRetryableRetcode
Success == {"DONE", "PLACED", "DONE_PARTIAL"}
Retryable == {"REQUOTE", "REJECT", "PRICE_OFF", "TIMEOUT"}
Retcodes  == {"DONE", "PLACED", "DONE_PARTIAL", "REQUOTE", "REJECT", "PRICE_OFF", "TIMEOUT",
              "OTHER"}

SafeTypeOK ==
    /\ call \in 0..SendRetries + 1
    /\ {opened, told, hidden, answered} \subseteq Nat
    /\ calls \in 0..MaxCalls

SafeInit ==
    call = 0 /\ opened = 0 /\ told = 0 /\ hidden = 0 /\ calls = 0 /\ answered = 0

\* _Send: a volume of zero or a stop inside the broker's distance ends it before the
\* first order is sent.
Send_(valid) ==
    /\ call = 0
    /\ calls < MaxCalls
    /\ calls' = calls + 1
    /\ call' = IF valid THEN 1 ELSE 0
    /\ answered' = 0
    /\ UNCHANGED <<opened, told, hidden>>

\* What the broker does for an attempt: an order that is confirmed was executed, and one
\* that timed out may have been.
Executed(code) ==
    CASE code \in {"DONE", "PLACED", "DONE_PARTIAL"} -> {TRUE}
      [] code = "TIMEOUT" -> {TRUE, FALSE}
      [] OTHER -> {FALSE}

\* What the loop does with the answer to an attempt.
Next_(code) ==
    IF code \in Retryable /\ call <= SendRetries THEN call + 1 ELSE 0

Attempt(code, done) ==
    /\ call # 0
    /\ done \in Executed(code)
    /\ answered' = answered + 1
    /\ opened' = opened + (IF done THEN 1 ELSE 0)
    /\ hidden' = hidden + (IF done /\ code = "TIMEOUT" THEN 1 ELSE 0)
    /\ told' = told + (IF code \in Success THEN 1 ELSE 0)
    /\ call' = Next_(code)
    /\ UNCHANGED calls

SafeNext ==
    \/ \E valid \in BOOLEAN : Send_(valid)
    \/ \E code \in Retcodes, done \in BOOLEAN : Attempt(code, done)

SafeSpec == SafeInit /\ [][SafeNext]_safeVars

-----------------------------------------------------------------------------
\* What is open at the broker was reported to the strategy by a call that returned
\* true, except what a TIMEOUT hid; and one call sends at most SendRetries orders after the
\* first, so that a broker that never answers executes it no more often than that.
ReportedOrHidden ==
    /\ opened = told + hidden
    /\ answered <= SendRetries + 1

=============================================================================
