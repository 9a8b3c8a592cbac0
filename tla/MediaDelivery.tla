---------------------------- MODULE MediaDelivery ----------------------------
(***************************************************************************)
(* One post on its way to a chat: its URLs in turn, each tried a few       *)
(* times, as a file downloaded and uploaded where Telegram could not fetch *)
(* the URL, and at last as a text with the link.  A request that may have  *)
(* been accepted ends it.  When a request leaves the limiter is for        *)
(* TelegramLimiter to say; here it may wait for any time.                  *)
(***************************************************************************)
EXTENDS Naturals, FiniteSets

CONSTANTS
    Senders,            \* tasks that send a post
    MostUrls,           \* a post has a file, a sample and a preview at most
    Downloadable,       \* the positions of URLs that name a photo
    Tries               \* retries: attempts per URL

VARIABLE chain          \* per sender: where it is, and what it is trying

ASSUME MediaAssumption ==
    /\ MostUrls \in Nat
    /\ Downloadable \subseteq 1..MostUrls
    /\ Tries \in Nat \ {0}

Resting == [at |-> "idle", via |-> "url", urls |-> 0, source |-> 1, attempt |-> 1,
            copies |-> 0, result |-> "none"]

ChainInit == chain = [w \in Senders |-> Resting]

\* Only this sender moves.
Moves(w, new) == chain' = [chain EXCEPT ![w] = new]

Ends(w, result) ==
    Moves(w, [chain[w] EXCEPT !.at = "done", !.result = result])

(***************************************************************************)
(* send_post_media_to_chat; send_post_media has no precondition.           *)
(***************************************************************************)
\* A post without a URL is told about in a text, which is no delivery.
Begin(w, urls) ==
    /\ chain[w].at = "idle"
    /\ Moves(w, [Resting EXCEPT !.at = "queued", !.urls = urls,
                                !.via = IF urls = 0 THEN "notice" ELSE "url"])

\* The request has its slot and looks at its precondition once more.
Dispatch(w, allowed) ==
    /\ chain[w].at = "queued"
    /\ \/ allowed /\ Moves(w, [chain[w] EXCEPT !.at = "sending"])
       \/ ~allowed /\ Ends(w, "skipped")

Accept(w) ==
    /\ chain[w].at = "sending"
    /\ Moves(w, [chain[w] EXCEPT
           !.at = "done",
           !.copies = IF chain[w].via = "notice" THEN @ ELSE @ + 1,
           !.result = IF chain[w].via = "notice" THEN "undeliverable" ELSE "sent"])

\* A RetryAfter queues the request again, or one too many ends the chain.
ToldToWait(w) ==
    /\ chain[w].at = "sending"
    /\ \/ Moves(w, [chain[w] EXCEPT !.at = "queued"])
       \/ Ends(w, "refused")

\* Mutant of Interrupted: a network error is retried like a rejection.
InterruptedRetrying(w) ==
    /\ chain[w].at = "sending"
    /\ \E accepted \in 0..1 :
          Moves(w, [chain[w] EXCEPT !.at = "rejected", !.copies = @ + accepted])

\* The time is up or the connection broke: perhaps the post was accepted.
Interrupted(w) ==
    /\ chain[w].at = "sending"
    /\ \E accepted \in IF chain[w].via = "notice" THEN {0} ELSE 0..1 :
          Moves(w, [chain[w] EXCEPT !.at = "done", !.copies = @ + accepted,
                                    !.result = "ambiguous"])

\* Forbidden or BadRequest: what is tried next, if anything is.
Rejected(w, unfetchable) ==
    /\ chain[w].at = "sending"
    /\ IF chain[w].via \in {"text", "notice"} THEN Ends(w, "rejected")
       ELSE Moves(w, [chain[w] EXCEPT
              !.at = IF /\ chain[w].via = "url"
                        /\ unfetchable
                        /\ chain[w].source \in Downloadable
                     THEN "downloading" ELSE "rejected"])

Download(w, succeeds) ==
    /\ chain[w].at = "downloading"
    /\ Moves(w, IF succeeds THEN [chain[w] EXCEPT !.at = "queued", !.via = "upload"]
                ELSE [chain[w] EXCEPT !.at = "rejected"])

\* After the pause the same URL again, then the next one, then the text.
TryNext(w) ==
    LET c == chain[w]
    IN  /\ c.at = "rejected"
        /\ Moves(w, IF c.attempt < Tries
                    THEN [c EXCEPT !.at = "queued", !.via = "url", !.attempt = @ + 1]
                    ELSE IF c.source < c.urls
                    THEN [c EXCEPT !.at = "queued", !.via = "url", !.attempt = 1,
                                   !.source = @ + 1]
                    ELSE [c EXCEPT !.at = "queued", !.via = "text"])

Outcome(w) ==
    \/ Accept(w) \/ ToldToWait(w) \/ Interrupted(w) \/ TryNext(w)
    \/ \E b \in BOOLEAN : Rejected(w, b) \/ Download(w, b)

ChainTypeOK ==
    chain \in [Senders -> [at : {"idle", "queued", "sending", "downloading",
                                 "rejected", "done"},
                           via : {"url", "upload", "text", "notice"},
                           urls : 0..MostUrls,
                           source : 1..(MostUrls + 1), attempt : 1..Tries,
                           copies : 0..1,
                           result : {"none", "sent", "undeliverable", "skipped",
                                     "refused", "ambiguous", "rejected"}]]

\* However many URLs and attempts a chain goes through, the chat gets the post
\* once at most, the answer "sent" means that it did, and every other answer
\* but an ambiguous one that it did not.
OneCopyPerChain ==
    \A w \in Senders :
        /\ chain[w].copies <= 1
        /\ chain[w].result = "sent" => chain[w].copies = 1
        /\ chain[w].result \notin {"sent", "ambiguous"} => chain[w].copies = 0

=============================================================================
