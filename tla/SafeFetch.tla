------------------------------ MODULE SafeFetch ------------------------------
(***************************************************************************)
(* gateway/internal/security: SafeFetcher, the one way a client-supplied   *)
(* URL is fetched, with the Validator it asks before every request.        *)
(*                                                                         *)
(*    idle -> resolve -> get -> read -> fetched | permanent | transient    *)
(*               ^        |                                                *)
(*               +--------+ a redirect, one hop further                    *)
(*                                                                         *)
(* Name servers and web servers are outside: every answer they can give is *)
(* a choice.  URLs are abstracted away; what a hop remembers of its own is *)
(* the address it was validated for.                                       *)
(***************************************************************************)
EXTENDS Integers

CONSTANTS Fetcher,       \* whoever calls Fetch: a pool worker, a session's branch
          Address,       \* the addresses a name can resolve to
          Public,        \* those isPublicIP accepts
          NoAddress,     \* no connection to pin
          MaxRedirects,  \* defaultMaxRedirects
          MaxBytes       \* FetchOptions.MaxBytes

ASSUME FetchAssumption ==
    /\ Public \subseteq Address
    /\ NoAddress \notin Address
    /\ MaxRedirects \in Nat
    /\ MaxBytes \in Nat \ {0}

VARIABLES fetch,    \* where each fetcher's call stands, its hop, the address pinned
                    \* for that hop, and the lengths of the body sent and kept
          dialed    \* history: the addresses connections were opened to

fetchVars == <<fetch, dialed>>

Finished == {"fetched", "permanent", "transient"}

\* No length was announced.
Unannounced == -1

\* One byte beyond what the reader asks for is enough to tell lengths apart.
Length == 0 .. MaxBytes + 2

FetchState == [at : {"idle", "resolve", "get", "read"} \union Finished,
               hop : 0 .. MaxRedirects + 1,
               pinned : Address \union {NoAddress},
               sent : Length, kept : Length]

NoFetch == [at |-> "idle", hop |-> 0, pinned |-> NoAddress, sent |-> 0, kept |-> 0]

FetchTypeOK ==
    /\ fetch \in [Fetcher -> FetchState]
    /\ dialed \subseteq Address

FetchInit ==
    /\ fetch = [f \in Fetcher |-> NoFetch]
    /\ dialed = {}

FetchAt(f, label) == fetch[f].at = label

\* IsPermanent, over the kinds of FetchError.
IsPermanent(kind) ==
    kind \in {"Blocked", "TooManyRedirects", "ResponseTooLarge", "UnacceptableContentType",
              "UnacceptableStatus4xx"}

FetchFails(f, kind) ==
    fetch' = [fetch EXCEPT ![f] = [NoFetch EXCEPT !.at =
                 IF IsPermanent(kind) THEN "permanent" ELSE "transient"]]

\* The caller of Fetch starts it, and takes its result away.
StartFetch(f) == fetch' = [fetch EXCEPT ![f].at = "resolve"]
EndFetch(f) == fetch' = [fetch EXCEPT ![f] = NoFetch]

----------------------------------------------------------------------------
\* resolveContext.  The answer is whatever addresses the name has by now (none
\* stands for a lookup that failed and for a URL that is not acceptable); all of
\* them must be public, and the first, which may be any, is the one returned.
Resolve(f) ==
    /\ FetchAt(f, "resolve")
    /\ IF fetch[f].hop > MaxRedirects
         THEN FetchFails(f, "TooManyRedirects")
         ELSE \E answer \in SUBSET Address :
                 IF answer = {} \/ ~ (answer \subseteq Public)
                   THEN FetchFails(f, "Blocked")
                   ELSE \E first \in answer :
                           fetch' = [fetch EXCEPT ![f].at = "get", ![f].pinned = first]
    /\ UNCHANGED dialed

\* What doOnce makes of a server: a response to read, a redirect, or an error.
Redirected(f) ==
    fetch' = [fetch EXCEPT ![f].at = "resolve", ![f].hop = @ + 1, ![f].pinned = NoAddress]

Responds(f) ==
    \/ fetch' = [fetch EXCEPT ![f].at = "read"]
    \/ Redirected(f)
    \/ \E kind \in {"Network", "Timeout"} : FetchFails(f, kind)

\* Mutant: the connection is made to whatever the name resolves to by now.
GetResolvingAgain(f) ==
    /\ FetchAt(f, "get")
    /\ \E address \in Address : dialed' = dialed \union {address}
    /\ Responds(f)

\* doOnce: one GET over a connection to the pinned address.
Get(f) ==
    /\ FetchAt(f, "get")
    /\ dialed' = dialed \union {fetch[f].pinned}
    /\ Responds(f)

----------------------------------------------------------------------------
\* Mutant: the reader is limited to exactly what is allowed.
LimitToMax(sent) == IF sent < MaxBytes THEN sent ELSE MaxBytes

\* readBounded reads one byte more than it allows, to see that there are more.
Limited(sent) == IF sent < MaxBytes + 1 THEN sent ELSE MaxBytes + 1

\* Terminal responses: status and Content-Type, the length announced if any, and
\* the bytes that come before the body ends or breaks off.
Terminal == [status : {"200", "4xx", "other"}, typed : BOOLEAN,
             announced : {Unannounced} \union Length, sent : Length, broken : BOOLEAN]

\* A body shorter than announced breaks off; none is longer.
Feasible(r) ==
    r.announced # Unannounced =>
        /\ r.sent <= r.announced
        /\ r.sent < r.announced => r.broken

\* The error readResponse returns for r, if any; a broken body is one the reader
\* does not reach the end of.
ReadError(r) ==
    CASE r.status = "4xx" -> "UnacceptableStatus4xx"
      [] r.status = "other" -> "UnacceptableStatus"
      [] r.status = "200" /\ ~r.typed -> "UnacceptableContentType"
      [] r.status = "200" /\ r.typed /\ r.announced > MaxBytes -> "ResponseTooLarge"
      [] OTHER -> IF r.broken /\ r.sent <= MaxBytes THEN "Network"
                  ELSE IF Limited(r.sent) > MaxBytes THEN "ResponseTooLarge" ELSE "none"

\* What readResponse may return, and of how long a body.
ReadOutcomes ==
    {[error |-> ReadError(r), sent |-> r.sent] : r \in {t \in Terminal : Feasible(t)}}

\* readResponse.
Read(f) ==
    /\ FetchAt(f, "read")
    /\ \E outcome \in ReadOutcomes :
          IF outcome.error # "none"
            THEN FetchFails(f, outcome.error)
            ELSE fetch' = [fetch EXCEPT ![f] = [NoFetch EXCEPT !.at = "fetched",
                              !.sent = outcome.sent, !.kept = Limited(outcome.sent)]]
    /\ UNCHANGED dialed

FetchStep(f) == Resolve(f) \/ Get(f) \/ Read(f)

----------------------------------------------------------------------------
\* Connections are only ever opened to addresses the validation of that same hop
\* found public, whatever names resolve to at other times (safefetcher.go, Fetch).
DialedIsValidated == dialed \subseteq Public

\* A body that is handed on is the whole body: one that is too long is an error
\* and never a shorter video (readBounded).
FetchedIsWhole ==
    \A f \in Fetcher :
        FetchAt(f, "fetched") => fetch[f].kept = fetch[f].sent /\ fetch[f].sent <= MaxBytes
=============================================================================
