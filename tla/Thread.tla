------------------------------- MODULE Thread -------------------------------
(***************************************************************************)
(* One conversation's thread in the shared inbox: a client scrolls back    *)
(* through it with get_conversation (omnichannel/inbox.py), page by page,  *)
(* and gets a signed URL for each attachment (omnichannel/media.py) out of *)
(* a cache all readers share (core/cache.py).                              *)
(*                                                                         *)
(* A message and its attachment share a name, a number, since ids break    *)
(* ties.  created_at is the start of the transaction that stores the       *)
(* message (server_default now()), which may commit later: messages appear *)
(* in another order than that of their timestamps.                         *)
(***************************************************************************)
EXTENDS Naturals, FiniteSets, Sequences

CONSTANTS
  Messages,      \* of the conversation, by id
  Attached,      \* those with an attachment
  PageLimits,    \* what clients ask for as the page size
  DefaultPage,   \* DEFAULT_MESSAGE_LIMIT
  MaxPage,       \* MAX_LIMIT
  SignExpiry,    \* _SIGN_EXPIRY_SECONDS, in ticks
  UrlTtl,        \* _CACHE_TTL_SECONDS, in ticks
  Sessions,      \* what is left of the task role's credentials when one signs, in ticks
  NoPage,        \* no request of the client is under way
  MaxClock,      \* bound: ticks
  MaxRestarts    \* bound: restarts of the process

ASSUME ThreadAssumption ==
  /\ Messages \subseteq Nat /\ IsFiniteSet(Messages)
  /\ PageLimits \subseteq Nat
  /\ MaxPage \in Nat \ {0} /\ DefaultPage \in 1..MaxPage
  /\ UrlTtl \in Nat \ {0} /\ SignExpiry \in Nat /\ UrlTtl < SignExpiry
  /\ Attached \subseteq Messages /\ Sessions \subseteq Nat \ {0}
  /\ NoPage \notin [messages : SUBSET Messages, more : BOOLEAN]
  /\ MaxClock \in Nat /\ MaxRestarts \in Nat

VARIABLES
  writing,     \* messages whose transaction is open
  committed,   \* messages there are
  createdAt,   \* created_at
  clock,       \* the time, for the database, the cache and S3
  scroll,      \* "new", "open" while there is a messages_next_cursor, then "done"
  before,      \* messages_next_cursor of the last page
  hand,        \* what the request under way has read, or NoPage
  thread,      \* the pages the client got
  atStart,     \* history: the messages there were when it read the first
  urlCache,    \* media._cache: a URL and its expires_at; a URL is when it was
               \* signed, and when the credentials that signed it end
  life,        \* history: restarts
  served       \* history: the URL handed out last, when and in which life

rows == <<writing, committed, createdAt>>
view == <<scroll, before, hand, thread, atStart>>
urls == <<urlCache, served>>
threadVars == <<rows, clock, view, urls, life>>

NoUrls == [m \in Messages |-> [url |-> [signed |-> 0, ends |-> 0], until |-> 0]]

ThreadInit ==
  /\ writing = {} /\ committed \in SUBSET Messages
  /\ clock \in 0..MaxClock
  /\ createdAt \in [Messages -> 0..clock]
  /\ \A m \in Messages \ committed : createdAt[m] = 0
  /\ scroll = "new" /\ before = [ts |-> 0, id |-> 0] /\ hand = NoPage
  /\ thread = <<>> /\ atStart = {}
  /\ urlCache = NoUrls
  /\ life = 0
  /\ served = [m \in Messages |-> {}]

-----------------------------------------------------------------------------
(***************************************************************************)
(* The query.                                                              *)
(***************************************************************************)

\* _clamp, for messages.
PageSize(limit) ==
  IF limit = 0 THEN DefaultPage ELSE IF limit > MaxPage THEN MaxPage ELSE limit

\* ORDER BY created_at, id (both DESC in the query, which is then reversed).
Older(m, n) == createdAt[m] < createdAt[n] \/ (createdAt[m] = createdAt[n] /\ m < n)

\* Mutant: the id does not break ties.
OlderThanCursorNoTies(m) == createdAt[m] < before.ts

\* The WHERE clause of `before`.
OlderThanCursor(m) ==
  createdAt[m] < before.ts \/ (createdAt[m] = before.ts /\ m < before.id)

\* p is the newest `size` of rest.
IsTail(p, rest, size) ==
  /\ \A m \in p, n \in rest \ p : Older(n, m)
  /\ Cardinality(p) <= size
  /\ p = rest \/ Cardinality(p) = size

(***************************************************************************)
(* signed_url_for_attachment, of an attachment of the caller's own org:    *)
(* nothing in it suspends.                                                 *)
(***************************************************************************)

\* Mutant: a URL is cached for as long as it is signed for.
FreshForExpiry(end) == [url |-> [signed |-> clock, ends |-> end], until |-> clock + SignExpiry]

\* generate_signed_url, under credentials of the role that end at `end`, and TTLCache.set.
Fresh(end) == [url |-> [signed |-> clock, ends |-> end], until |-> clock + UrlTtl]

\* TTLCache.get: an entry at its expires_at is a miss.
IsHit(m) == clock < urlCache[m].until

Url(m, end) == IF IsHit(m) THEN urlCache[m] ELSE Fresh(end)

\* The SDK signs with the session it holds, or renews it first: it ends some time on.
SignUrls(S) ==
  \E left \in Sessions :
    /\ urlCache' = [m \in Messages |->
         IF m \in S THEN Url(m, clock + left) ELSE urlCache[m]]
    /\ served' = [m \in Messages |->
         IF m \in S THEN {[url |-> Url(m, clock + left).url, at |-> clock, life |-> life]}
         ELSE served[m]]

-----------------------------------------------------------------------------
(***************************************************************************)
(* get_conversation: the query reads a page, and one row more to know if   *)
(* there are older ones; after the attachments' query the page is answered.*)
(***************************************************************************)
ReadPage(limit) ==
  LET rest == IF scroll = "new" THEN committed ELSE {m \in committed : OlderThanCursor(m)}
  IN /\ scroll # "done" /\ hand = NoPage
     /\ \E p \in SUBSET rest :
          /\ IsTail(p, rest, PageSize(limit))
          /\ hand' = [messages |-> p, more |-> p # rest]
     /\ atStart' = IF scroll = "new" THEN committed ELSE atStart
     /\ UNCHANGED <<rows, clock, scroll, before, thread, urls, life>>

AnswerPage ==
  /\ hand # NoPage
  /\ SignUrls(hand.messages \cap Attached)
  /\ thread' = Append(thread, hand.messages)
  /\ hand' = NoPage
  /\ IF hand.more
       THEN /\ scroll' = "open"
            /\ \E m \in hand.messages :
                 /\ \A n \in hand.messages \ {m} : Older(m, n)
                 /\ before' = [ts |-> createdAt[m], id |-> m]
       ELSE scroll' = "done" /\ UNCHANGED before
  /\ UNCHANGED <<rows, clock, atStart, life>>

\* A query fails, or the client goes away: it may ask for the page again.
ReadRaises ==
  /\ hand # NoPage
  /\ hand' = NoPage
  /\ UNCHANGED <<rows, clock, scroll, before, thread, atStart, urls, life>>

get_conversation == AnswerPage \/ ReadRaises \/ \E limit \in PageLimits : ReadPage(limit)

\* Another agent reads a page with the message on it.
AnotherReads(m) ==
  /\ m \in committed \cap Attached
  /\ SignUrls({m})
  /\ UNCHANGED <<rows, clock, view, life>>

(***************************************************************************)
(* The rest of the program.                                                *)
(***************************************************************************)

\* The transaction that will store m begins; the rate limiter, the upload of
\* attachments and the like come before its end.
BeginMessage(m) ==
  /\ m \notin writing \cup committed
  /\ writing' = writing \cup {m}
  /\ createdAt' = [createdAt EXCEPT ![m] = clock]
  /\ UNCHANGED <<committed, clock, view, urls, life>>

EndMessage(m) ==
  /\ m \in writing
  /\ writing' = writing \ {m}
  /\ committed' \in {committed, committed \cup {m}}
  /\ UNCHANGED <<createdAt, clock, view, urls, life>>

Pass ==
  /\ clock < MaxClock
  /\ clock' = clock + 1
  /\ UNCHANGED <<rows, view, urls, life>>

\* The cache and the request under way are gone, and open transactions roll back.
Restart ==
  /\ life < MaxRestarts
  /\ life' = life + 1
  /\ urlCache' = NoUrls
  /\ hand' = NoPage /\ writing' = {}
  /\ UNCHANGED <<committed, createdAt, clock, scroll, before, thread, atStart, served>>

ThreadNext ==
  \/ get_conversation
  \/ \E m \in Messages : AnotherReads(m) \/ BeginMessage(m) \/ EndMessage(m)
  \/ Pass
  \/ Restart

ThreadSpec == ThreadInit /\ [][ThreadNext]_threadVars

-----------------------------------------------------------------------------
ThreadTypeOK ==
  /\ writing \subseteq Messages /\ committed \subseteq Messages
  /\ writing \cap committed = {}
  /\ createdAt \in [Messages -> Nat]
  /\ clock \in Nat /\ life \in Nat
  /\ scroll \in {"new", "open", "done"}
  /\ before \in [ts : Nat, id : Nat]
  /\ hand \in [messages : SUBSET Messages, more : BOOLEAN] \cup {NoPage}
  /\ thread \in Seq(SUBSET Messages)
  /\ atStart \subseteq Messages
  /\ urlCache \in [Messages -> [url : [signed : Nat, ends : Nat], until : Nat]]
  /\ served \in [Messages -> SUBSET [url : [signed : Nat, ends : Nat], at : Nat, life : Nat]]

Shown == UNION {thread[n] : n \in 1..Len(thread)}

\* Each page comes wholly before the ones above it, and so shows nothing again.
ThreadInOrder ==
  \A k, n \in 1..Len(thread) : k < n =>
    \A m \in thread[k], o \in thread[n] : Older(o, m)

\* At the top, all the messages have been seen that were there at the start.
ThreadComplete == scroll = "done" => atStart \subseteq Shown

(***************************************************************************)
(* A client that scrolls back reads the thread: its pages, in the order    *)
(* they are put above each other, are in reading order without repetition, *)
(* and at the top it has seen every message there was when it began,       *)
(* whatever is committed late under an old timestamp and whichever reads   *)
(* fail in between (inbox.py:302-311, 338-349).                            *)
(***************************************************************************)
ThreadIsRead == ThreadInOrder /\ ThreadComplete

\* S3 takes a URL before its expiry, and before the session that signed it ends.
S3Takes(url) == clock < url.signed + SignExpiry /\ clock < url.ends

\* "A URL served from cache always has at least (expiry - TTL) of validity left", unless
\* the session that signed it ends first.
UrlIsGood(u) ==
  clock <= u.at + (SignExpiry - UrlTtl) => S3Takes(u.url) \/ u.url.ends <= clock

\* "A stable URL for the object's cache window": while the process lives, whoever asks
\* within a TTL of its signing is given this one.
UrlIsShared(m, u) ==
  u.life = life /\ clock < u.url.signed + UrlTtl => IsHit(m) /\ urlCache[m].url = u.url

(***************************************************************************)
(* The two invariants media.py states of its cache (3-15), which pull in   *)
(* opposite directions: a URL is the same for all readers for a TTL,       *)
(* however many they are and whenever they ask, and yet what the cache     *)
(* keeps back never cuts it short for the one who gets it last; a restart  *)
(* may change the URL but not cut it short.  The first holds as far as the *)
(* cache can tell: a URL also dies with the temporary credentials that     *)
(* signed it (clients.py:10-11), which the cache does not look at, so that *)
(* one handed out may have less left, or nothing.                          *)
(***************************************************************************)
UrlsLastAndAreShared ==
  \A m \in Messages : \A u \in served[m] : UrlIsGood(u) /\ UrlIsShared(m, u)

=============================================================================
