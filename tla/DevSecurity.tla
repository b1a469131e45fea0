---------------------------- MODULE DevSecurity ----------------------------
(***************************************************************************)
(* What a developer's request passes before its handler runs               *)
(* (mintcode_api/dev_security.py): the timestamp window, the key, the      *)
(* nonce, and counters per minute of the key, of the client's address and, *)
(* for a new redemption, of the voucher. The signature is taken to be that *)
(* of the key's holder.                                                    *)
(*                                                                         *)
(* require_dev is a coroutine of the one server process. It looks at its   *)
(* clock and reads the key, waits for the request's body, and does the     *)
(* rest without waiting again: a request is admitted in one step.          *)
(***************************************************************************)
EXTENDS Integers, FiniteSets

CONSTANTS
    DevKey,        \* developer keys the admin has made
    Address,       \* client addresses
    Voucher,       \* vouchers that exist
    Nonce,         \* nonces clients use
    Skew,          \* dev_auth_timestamp_skew_seconds
    Minute,        \* the length of a counter's window
    KeyLimit,      \* dev_rate_limit_dev_key_per_min
    AddressLimit,  \* dev_rate_limit_ip_per_min
    VoucherLimit,  \* dev_rate_limit_voucher_per_min
    Horizon        \* the last instant: a bound on the clock

ASSUME SecurityAssumption ==
    /\ Skew \in Nat /\ Horizon \in Nat /\ Minute \in Nat \ {0}
    /\ KeyLimit \in Nat /\ AddressLimit \in Nat /\ VoucherLimit \in Nat
    /\ DevKey \intersect Address = {}
    /\ (DevKey \union Address) \intersect Voucher = {}

VARIABLES
    clock,     \* the server's clock
    enabled,   \* the keys that are enabled
    nonces,    \* developer_nonces: key, timestamp and nonce of each request
    counts,    \* developer_rate_limits, by what is counted and window
    admitted,  \* history: how often a key, timestamp and nonce were admitted
    passed     \* history: requests let pass, by what is counted and window

security == <<clock, enabled, nonces, counts, admitted, passed>>

Instant == 0 .. Horizon
Counted == DevKey \union Address \union Voucher
Signature == DevKey \X Instant \X Nonce

Limit(s) == IF s \in DevKey THEN KeyLimit
            ELSE IF s \in Address THEN AddressLimit ELSE VoucherLimit

(* A window is named by the instant it starts at.                            *)
Window(t) == t - (t % Minute)

Tally == [Counted -> [Instant -> Nat]]
NoTally == [s \in Counted |-> [t \in Instant |-> 0]]
Add(tally, S, w) ==
    [s \in Counted |-> [tally[s] EXCEPT ![w] = IF s \in S THEN @ + 1 ELSE @]]

SecurityInit ==
    /\ clock = 0 /\ enabled = DevKey /\ nonces = {}
    /\ counts = NoTally /\ passed = NoTally
    /\ admitted = [m \in Signature |-> 0]

SecurityTypeOK ==
    /\ clock \in Instant /\ enabled \subseteq DevKey /\ nonces \subseteq Signature
    /\ counts \in Tally /\ passed \in Tally
    /\ admitted \in [Signature -> Nat]

-----------------------------------------------------------------------------
(* The headers are in order: the timestamp is near the clock and the key is  *)
(* enabled.                                                                  *)
Presentable(k, ts) ==
    /\ k \in enabled
    /\ ts - clock <= Skew /\ clock - ts <= Skew

(* This request makes its counter exceed the limit; fault: one more passes.  *)
OverLate(s, w) == counts[s][w] > Limit(s)
Over(s, w) == counts[s][w] >= Limit(s)

(* The signature was used before; fault: nobody remembers.                   *)
ReplayNever(m) == FALSE
Replay(m) == m \in nonces

(* A repeated request is rolled back and not counted. Any other is           *)
(* recorded, also when a limit refuses it, and the address is only counted   *)
(* when the key's limit lets it pass.                                        *)
Reached(k, a, w) == IF Over(k, w) THEN {k} ELSE {k, a}
Passing(k, a, w) == {s \in Reached(k, a, w) : ~Over(s, w)}
Passes(k, a, w) == Passing(k, a, w) = {k, a}

Admit(m, a, w) ==
    LET k == m[1] IN
    /\ ~Replay(m)
    /\ nonces' = nonces \union {m}
    /\ counts' = Add(counts, Reached(k, a, w), w)
    /\ passed' = Add(passed, Passing(k, a, w), w)
    /\ admitted' = IF Passes(k, a, w) THEN [admitted EXCEPT ![m] = @ + 1] ELSE admitted
    /\ UNCHANGED <<clock, enabled>>

(* rate_limit_voucher, in a transaction and at an instant of its own.        *)
CountVoucher(v) ==
    LET w == Window(clock) IN
    /\ counts' = Add(counts, {v}, w)
    /\ passed' = Add(passed, IF Over(v, w) THEN {} ELSE {v}, w)
    /\ UNCHANGED <<clock, enabled, nonces, admitted>>

(* The clock, and the admin's two operations on a key.                       *)
SecurityEnvironment ==
    \/ clock < Horizon /\ clock' = clock + 1
       /\ UNCHANGED <<enabled, nonces, counts, admitted, passed>>
    \/ \E k \in DevKey : (enabled' = enabled \union {k} \/ enabled' = enabled \ {k})
       /\ UNCHANGED <<clock, nonces, counts, admitted, passed>>

-----------------------------------------------------------------------------
(* A request signed once is admitted once, however often it is delivered.    *)
AdmittedOnce == \A m \in Signature : admitted[m] <= 1

(* No window lets more requests pass than the limit, for a key, an address   *)
(* or a voucher, although requests counted in a window may end after it.     *)
LimitsKept == \A s \in Counted, w \in Instant : passed[s][w] <= Limit(s)
=============================================================================
