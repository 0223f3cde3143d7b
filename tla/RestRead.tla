------------------------------ MODULE RestRead ------------------------------
(***************************************************************************)
(* The REST source reading a stream without a parent: one paginated        *)
(* sequence of requests under its loop guards, the send loop with its      *)
(* bounded waits, the declared response actions, and the incremental       *)
(* cursor that is checkpointed after every page.                           *)
(*                                                                         *)
(* A record is a position of the server's list; the list holds its cursor  *)
(* values.  The seven paginators are four families here: body cursor,      *)
(* header cursor, next url and link header all follow a token the response *)
(* carries.                                                                *)
(***************************************************************************)
EXTENDS Integers, SequencesExt

CONSTANTS MaxItems,   \* records at the server
          MaxValue,   \* cursor values are 1 .. MaxValue
          PageSize,   \* records of a page, at the server and in the config
          MaxPages,   \* max_pages of the config
          MaxTrouble, \* answers other than a page of records, and lost ones
          Configs,    \* the stream configurations tried: see Config
          Null

VARIABLES config,   \* the stream's configuration
          items,    \* the server's list, filtered by the since parameter
          phase,    \* "idle", "next", "sending", "page", "done" or "refused" (fatal)
          since,    \* the start parameter of the run
          ask,      \* the paginator's position: a page number, offset or token
          asked,    \* requests of this run: the same-request guard
          pages, total, \* the counters of the sequence
          send,     \* [waited, reauth, count] of the send loop
          page,     \* [records, token, body] of the response
          max,      \* the largest cursor value observed
          pushed, checkpoint, \* since the last commit
          committed, got,     \* the destination
          sent,     \* records pushed in this run
          clean,    \* every answer of this run was a page of records
          trouble,
          ignored   \* a declared action dropped a page, now or in an earlier run

run  == <<phase, since, ask, asked, pages, total, send, page, max, pushed, checkpoint, sent, clean>>
vars == <<config, items, run, committed, got, trouble, ignored>>

Families == {"none", "page", "offset", "token"}
Config == [family : Families,
           stop : {"none", "pages", "count"}, \* a declared total
           post : {"get", "bare", "object", "list"}, \* GET, or POST and its body
           wildcard : BOOLEAN,  \* records_path ends in [*]
           incremental : BOOLEAN,
           stuck : BOOLEAN]     \* the server repeats a token for ever

(***************************************************************************)
(* The gate of a configuration: page parameters need a place to ride in,   *)
(* and the totals belong to the paginators that read them.                 *)
(***************************************************************************)
Carries(c) == c.family # "none"

Valid(c) ==
    /\ c.post = "list" => ~Carries(c)
    /\ c.stop = "pages" => c.family = "page"
    /\ c.stop = "count" => c.family \in {"page", "offset"}
    /\ c.stuck => c.family = "token"

RestAssumption ==
    /\ PageSize \in Nat \ {0} /\ MaxItems \in Nat /\ MaxValue \in Nat
    /\ Configs \subseteq Config /\ Null \notin Int

Fresh == [waited |-> FALSE, reauth |-> FALSE, count |-> 0]
NoPage == [records |-> <<>>, token |-> Null, body |-> FALSE]

FirstAsk == CASE config.family = "page" -> 1 [] config.family = "offset" -> 0 [] OTHER -> Null

Init == /\ config \in {c \in Configs : Valid(c)}
        /\ items \in UNION {[1 .. n -> 1 .. MaxValue] : n \in 0 .. MaxItems}
        /\ \A i, j \in DOMAIN items : i < j => items[i] <= items[j]
        /\ ~config.incremental => \A i \in DOMAIN items : items[i] = 1
        /\ phase = "idle" /\ since = Null /\ ask = Null /\ asked = {} /\ pages = 0 /\ total = 0
        /\ send = Fresh /\ page = NoPage /\ max = Null /\ pushed = {} /\ checkpoint = Null
        /\ committed = Null /\ got = {} /\ sent = <<>> /\ clean = TRUE /\ trouble = 0
        /\ ignored = FALSE
-----------------------------------------------------------------------------
(***************************************************************************)
(* The API: the records from the start parameter on (inclusive), in list   *)
(* order, which is the cursor's, and a page of them at the position asked  *)
(* for.  A parameter that rides nowhere asks for the first page.           *)
(***************************************************************************)
Before == {i \in DOMAIN items : since # Null /\ items[i] < since}

Listed == LET n == Cardinality(Before) IN [k \in 1 .. Len(items) - n |-> n + k]

Carried == config.post # "list"

From == CASE ~Carried \/ ask = Null     -> 0
          [] config.family = "page"     -> (ask - 1) * PageSize
          [] OTHER                      -> ask

PageAt == SubSeq(Listed, From + 1, Min({From + PageSize, Len(Listed)}))

TokenAfter ==
    IF config.family # "token" THEN Null
    ELSE IF config.stuck THEN 0
    ELSE IF From + PageSize < Len(Listed) THEN From + PageSize ELSE Null

TotalPages == (Len(Listed) + PageSize - 1) \div PageSize
-----------------------------------------------------------------------------
(***************************************************************************)
(* A run starts at the committed cursor.                                   *)
(***************************************************************************)
StartRead ==
    /\ phase = "idle"
    /\ phase' = "next"
    /\ since' = (IF config.incremental THEN committed ELSE Null)
    /\ max' = committed
    /\ ask' = FirstAsk /\ asked' = {} /\ pages' = 0 /\ total' = 0
    /\ sent' = <<>> /\ clean' = TRUE
    /\ UNCHANGED <<config, items, send, page, pushed, checkpoint, committed, got, trouble, ignored>>

(***************************************************************************)
(* The next request, unless it repeats one of this run or there were too   *)
(* many.                                                                   *)
(***************************************************************************)
NextRequest ==
    /\ phase = "next"
    /\ IF ask \in asked \/ pages >= MaxPages
         THEN phase' = "refused" /\ UNCHANGED <<asked, pages, send>>
         ELSE /\ phase' = "sending"
              /\ asked' = asked \cup {ask} /\ pages' = pages + 1
              /\ send' = [Fresh EXCEPT !.count = 1]
    /\ UNCHANGED <<config, items, since, ask, total, page, max, pushed, checkpoint, sent, clean,
                   committed, got, trouble, ignored>>

(***************************************************************************)
(* A run ends without its stream: the engine retries a transient failure   *)
(* or a rate limit from what it committed; a fatal one stays for someone   *)
(* to look at.                                                             *)
(***************************************************************************)
Ends(how) ==
    /\ phase' = how
    /\ pushed' = {} /\ checkpoint' = Null /\ page' = NoPage /\ send' = Fresh
    /\ UNCHANGED <<since, ask, asked, pages, total, max, sent>>

Troubled == trouble < MaxTrouble /\ trouble' = trouble + 1 /\ clean' = FALSE

(***************************************************************************)
(* A page of records arrives and is extracted: an empty match of a         *)
(* wildcard is an empty page, and one match has to be the records array.   *)
(***************************************************************************)
Extracts(records) == config.wildcard => Len(records) # 1

Answer ==
    /\ phase = "sending"
    /\ IF Extracts(PageAt)
         THEN /\ phase' = "page" /\ send' = Fresh
              /\ page' = [records |-> PageAt, token |-> TokenAfter, body |-> TRUE]
              /\ total' = total + Len(PageAt)
              /\ UNCHANGED <<since, ask, asked, pages, max, pushed, checkpoint, sent>>
         ELSE Ends("refused")
    /\ UNCHANGED <<config, items, committed, got, trouble, clean, ignored>>

(***************************************************************************)
(* The send loop goes round at most once for a rejected credential and     *)
(* once for a Retry-After within the cap; what is left is classified.      *)
(***************************************************************************)
Unauthorized ==
    /\ phase = "sending" /\ Troubled
    /\ IF ~send.reauth
         THEN /\ send' = [send EXCEPT !.reauth = TRUE, !.count = @ + 1]
              /\ UNCHANGED <<phase, since, ask, asked, pages, total, page, max, pushed, checkpoint, sent>>
         ELSE Ends("refused")
    /\ UNCHANGED <<config, items, committed, got, ignored>>

RateLimited ==
    /\ phase = "sending" /\ Troubled
    /\ \E withinCap \in BOOLEAN :
         IF ~send.waited /\ withinCap
           THEN /\ send' = [send EXCEPT !.waited = TRUE, !.count = @ + 1]
                /\ UNCHANGED <<phase, since, ask, asked, pages, total, page, max, pushed, checkpoint, sent>>
           ELSE Ends("idle")
    /\ UNCHANGED <<config, items, committed, got, ignored>>

Fails == /\ phase = "sending" /\ Troubled
         /\ \/ Ends("idle")    \* transport, 5xx
            \/ Ends("refused") \* any other status, a body that does not parse
         /\ UNCHANGED <<config, items, committed, got, ignored>>

(***************************************************************************)
(* A declared response action: an error, the clean end of the stream, or   *)
(* an empty page whose body may still carry the token.                     *)
(***************************************************************************)
DeclaredAction ==
    /\ phase = "sending" /\ Troubled
    /\ \/ Ends("refused") /\ ignored' = ignored
       \/ /\ phase' = "done" /\ page' = NoPage /\ send' = Fresh /\ ignored' = ignored
          /\ UNCHANGED <<since, ask, asked, pages, total, max, pushed, checkpoint, sent>>
       \/ \E parses \in BOOLEAN :
            /\ phase' = "page" /\ send' = Fresh /\ ignored' = TRUE
            /\ page' = [records |-> <<>>, token |-> IF parses THEN TokenAfter ELSE Null,
                        body |-> parses]
            /\ UNCHANGED <<since, ask, asked, pages, total, max, pushed, checkpoint, sent>>
    /\ UNCHANGED <<config, items, committed, got>>
-----------------------------------------------------------------------------
\* A variant: the page's records are added to the total a second time.
CountReachedTwice == config.stop = "count" /\ page.body /\ total + Len(page.records) >= Len(Listed)

(***************************************************************************)
(* Where the paginator goes after a page; Null ends the stream.            *)
(***************************************************************************)
CountReached == config.stop = "count" /\ page.body /\ total >= Len(Listed)

Decision ==
    CASE config.family = "page" ->
           IF \/ page.records = <<>>
              \/ config.stop = "pages" /\ page.body /\ ask >= TotalPages
              \/ CountReached
             THEN Null ELSE ask + 1
      [] config.family = "offset" ->
           IF Len(page.records) < PageSize \/ CountReached THEN Null ELSE ask + PageSize
      [] config.family = "token" -> page.token
      [] OTHER -> Null

\* A variant: the checkpoint is one past the largest value seen.
ObservedNext == 1 + Max({items[i] : i \in Range(page.records)} \cup (IF max = Null THEN {0} ELSE {max}))

Observed == Max({items[i] : i \in Range(page.records)} \cup (IF max = Null THEN {0} ELSE {max}))

(***************************************************************************)
(* The page is pushed, the largest cursor value up to it is checkpointed,  *)
(* and the paginator moves on.                                             *)
(***************************************************************************)
DeliverPage ==
    /\ phase = "page"
    /\ IF page.records = <<>>
         THEN UNCHANGED <<max, pushed, checkpoint, sent>>
         ELSE /\ pushed' = pushed \cup Range(page.records)
              /\ sent' = sent \o page.records
              /\ IF config.incremental
                   THEN max' = Observed /\ checkpoint' = Observed
                   ELSE UNCHANGED <<max, checkpoint>>
    /\ IF Decision = Null
         THEN phase' = "done" /\ ask' = ask
         ELSE phase' = "next" /\ ask' = Decision
    /\ page' = NoPage
    /\ UNCHANGED <<config, items, since, asked, pages, total, send, clean, committed, got, trouble, ignored>>

(***************************************************************************)
(* The engine commits what a checkpoint covers, and the rest when the      *)
(* stream has ended.                                                       *)
(***************************************************************************)
Absorb == /\ got' = got \cup pushed
          /\ committed' = IF checkpoint = Null THEN committed ELSE checkpoint
          /\ pushed' = {} /\ checkpoint' = Null

EngineCommit ==
    /\ phase \in {"next", "sending", "page"} /\ checkpoint # Null
    /\ Absorb
    /\ UNCHANGED <<config, items, phase, since, ask, asked, pages, total, send, page, max, sent,
                   clean, trouble, ignored>>

FinishRead ==
    /\ phase = "done"
    /\ Absorb
    /\ phase' = "idle"
    /\ UNCHANGED <<config, items, since, ask, asked, pages, total, send, page, max, sent, clean, trouble, ignored>>

\* A crash or a cancellation; the operator runs again after a fatal error.
RunFails == /\ phase \notin {"idle", "done"}
            /\ trouble < MaxTrouble /\ trouble' = trouble + 1 /\ clean' = FALSE
            /\ Ends("idle")
            /\ UNCHANGED <<config, items, committed, got, ignored>>

Next == \/ StartRead \/ NextRequest
        \/ Answer \/ Unauthorized \/ RateLimited \/ Fails \/ DeclaredAction
        \/ DeliverPage \/ EngineCommit \/ FinishRead \/ RunFails

Spec == Init /\ [][Next]_vars
-----------------------------------------------------------------------------
(***************************************************************************)
(* A committed cursor stands for every record below it: whatever page a    *)
(* run died at, the records the next one will not ask for again have       *)
(* arrived.  The list is ordered by the cursor, and no declared action has *)
(* dropped a page of it.                                                   *)
(***************************************************************************)
CursorCovers ==
    config.incremental /\ committed # Null /\ ~ignored =>
        \A i \in DOMAIN items : items[i] < committed => i \in got

(***************************************************************************)
(* A stream whose every answer was a page of records ends with all of      *)
(* them, each pushed once, whatever the paginator stops on.                *)
(***************************************************************************)
WholeStreamOnce == phase = "done" /\ clean /\ config.family # "none" => sent = Listed

(***************************************************************************)
(* One call of the send loop makes at most three requests, whatever mix of *)
(* rejected credentials and rate limits it meets, and a server that        *)
(* repeats its token is asked for it once.                                 *)
(***************************************************************************)
BoundedRequests == /\ send.count <= 3
                   /\ config.stuck => pages <= 2
=============================================================================
