----------------------------- MODULE Rule34Quota -----------------------------
(* Who asks for quota, and how much of it there is: the parameters of       *)
(* Rule34Limiter and of the client around it.                               *)
EXTENDS EventLoopClock, Sequences, FiniteSets

CONSTANTS
    Requests,           \* the coroutines that call slot
    Kind,               \* their class
    Concurrency,        \* semaphore of each class
    QuotaLimit, Window, QueueLimit, InteractiveBurst,
    RetryAfter          \* cooldowns a 429 asks for

Class == {"interactive", "background"}

ASSUME LimiterAssumption ==
    /\ Kind \in [Requests -> Class]
    /\ Concurrency \in [Class -> Nat \ {0}]
    /\ QuotaLimit \in Nat \ {0}
    /\ Window \in Nat \ {0}
    /\ QueueLimit \in Nat
    /\ InteractiveBurst \in Nat
    /\ RetryAfter \subseteq Nat \ {0}

=============================================================================
