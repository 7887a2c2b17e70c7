------------------------------ MODULE Parsing ------------------------------
(***************************************************************************)
(* Three pure functions of the API and the worker: the owner and the name  *)
(* in a repository URL, the options in a Redis URL, and the part of a      *)
(* build log that is stored. The variable holds what one is called with.   *)
(***************************************************************************)
EXTENDS Integers, Sequences, FiniteSets

CONSTANTS
  MaxLogLines,    \* maxLogLines of the code (500)
  MaxLogBytes,    \* maxLogBytes of the code (100 KB)
  MaxLog          \* bound: bytes of a log

ASSUME ParsingAssumption == MaxLogLines \in Nat \ {0} /\ MaxLogBytes \in Nat /\ MaxLog \in Nat

VARIABLE input

First(S) == CHOOSE k \in S : \A j \in S : k <= j
From(s, k) == SubSeq(s, k, Len(s))
Where(x, s) == {k \in 1..Len(s) : s[k] = x}

-----------------------------------------------------------------------------
(* parseRepoURL: a scheme and a path, a sequence of pieces of which "/" and *)
(* ".git" are the ones the code looks for.                                 *)

Failed == [owner |-> <<>>, name |-> <<>>]

\* The length of each literal, and the length of what is compared with it and skipped:
\* two strings of different lengths are never equal.
SchemePrefix == [https |-> [literal |-> 19, cut |-> 19],
                 http  |-> [literal |-> 18, cut |-> 15],
                 ssh   |-> [literal |-> 15, cut |-> 19]]
Handled(scheme) == SchemePrefix[scheme].literal = SchemePrefix[scheme].cut

KeepGitSuffix(path) == path

WithoutGitSuffix(path) ==
  IF Len(path) > 1 /\ path[Len(path)] = ".git" THEN SubSeq(path, 1, Len(path) - 1) ELSE path

\* Owner and name are what is on either side of the first slash; neither may be empty.
ParseRepoURL(scheme, path) ==
  LET short == WithoutGitSuffix(path)
      slashes == Where("/", short)
      owner == SubSeq(short, 1, First(slashes) - 1)
      name == From(short, First(slashes) + 1)
  IN IF ~Handled(scheme) \/ slashes = {} \/ owner = <<>> \/ name = <<>>
     THEN Failed
     ELSE [owner |-> owner, name |-> name]

RepoInputs ==
  LET names == {<<>>, <<"a">>, <<"a", "b">>, <<"a", ".git", "b">>} IN
  [kind : {"repo"}, scheme : DOMAIN SchemePrefix, owner : names, name : names,
   suffix : {<<>>, <<".git">>}]

-----------------------------------------------------------------------------
(* parseRedisURL: the characters that follow redis://, of which the code   *)
(* looks for "@", "/", ":" and digits. A word stands for a longer text that *)
(* has none of them.                                                       *)

Digits == <<"0", "1", "2", "3", "4", "5", "6", "7", "8", "9">>
IsDigit(c) == \E i \in 1..10 : Digits[i] = c
ValueOf(c) == (CHOOSE i \in 1..10 : Digits[i] = c) - 1

ParseLastDigit(s) == IF s = <<>> THEN 0 ELSE ValueOf(s[Len(s)])

\* parseInt: a character that is no digit is passed over.
ParseInt(s) ==
  LET n[k \in 0..Len(s)] ==
        IF k = 0 THEN 0 ELSE IF IsDigit(s[k]) THEN n[k-1] * 10 + ValueOf(s[k]) ELSE n[k-1]
  IN n[Len(s)]

RedisPort == <<":", "6379">>

\* The password is what precedes the first @, the database what follows the first slash
\* after it, and the default port is added to an address that has no colon at all.
ParseRedisURL(url) ==
  LET ats == Where("@", url)
      rest == IF ats = {} THEN url ELSE From(url, First(ats) + 1)
      slashes == Where("/", rest)
      addr == IF slashes = {} THEN rest ELSE SubSeq(rest, 1, First(slashes) - 1)
  IN [password |-> IF ats = {} THEN <<>> ELSE SubSeq(url, 1, First(ats) - 1),
      addr |-> IF Where(":", addr) = {} THEN addr \o RedisPort ELSE addr,
      db |-> IF slashes = {} THEN 0 ELSE ParseInt(From(rest, First(slashes) + 1))]

\* URLs by their parts, of which all but the host may be missing (no IPv6 addresses).
RedisInputs ==
  [kind : {"redis"}, login : {<<>>, <<":", "p", "@">>, <<"u", ":", "p", "@">>}, host : {<<>>, <<"h">>},
   port : {<<>>, <<":", "1">>}, db : {<<>>, <<"/">>, <<"/", "0">>, <<"/", "1", "7">>, <<"/", "7", "x">>}]

RedisURL(u) == u.login \o u.host \o u.port \o u.db
DbText(u) == From(u.db, 2)
IsNumber(s) == \A k \in 1..Len(s) : IsDigit(s[k])

\* strconv.Atoi, of a text that is a number. (One too large for an int is refused here and
\* wraps around in parseInt; both take the numbers of the model without end.)
Atoi(s) ==
  LET n[k \in 0..Len(s)] == IF k = 0 THEN 0 ELSE n[k-1] * 10 + ValueOf(s[k]) IN n[Len(s)]

Refused == -1

\* go-redis, which opens the other connections with the same URL: the password is what
\* follows the colon, a missing host is localhost, and the database has to be a number.
GoRedisURL(u) ==
  [password |-> IF Where(":", u.login) = {} THEN <<>>
                ELSE SubSeq(u.login, First(Where(":", u.login)) + 1, Len(u.login) - 1),
   addr |-> (IF u.host = <<>> THEN <<"localhost">> ELSE u.host)
              \o (IF u.port = <<>> THEN RedisPort ELSE u.port),
   db |-> IF IsNumber(DbText(u)) THEN Atoi(DbText(u)) ELSE Refused]

-----------------------------------------------------------------------------
(* truncateLogs: a log is a sequence of bytes, "n" a line end, "x" another. *)

\* The last MaxLogLines lines: what follows the line end that has that many lines after it.
LimitLines(t) ==
  LET ends == Where("n", t) IN
  IF Cardinality(ends) + 1 <= MaxLogLines THEN t
  ELSE From(t, 1 + First({k \in ends : Cardinality({j \in ends : j > k}) < MaxLogLines}))

LimitBytesMidLine(t) ==
  IF Len(t) <= MaxLogBytes THEN t ELSE From(t, Len(t) - MaxLogBytes + 1)

\* The last MaxLogBytes bytes, without what precedes the first line end in them.
LimitBytes(t) ==
  IF Len(t) <= MaxLogBytes THEN t
  ELSE LET cut == From(t, Len(t) - MaxLogBytes + 1)
           ends == Where("n", cut)
       IN IF ends = {} THEN cut ELSE From(cut, First(ends) + 1)

\* "[LOGS TRUNCATED ...]" and its line end, which the limits do not count.
Header == <<"x", "n">>

Marked(t, tail) == IF tail = t THEN t ELSE Header \o tail

TruncateLogs(t) == Marked(t, LimitBytes(LimitLines(t)))

LogInputs == [kind : {"log"}, text : UNION {[1..k -> {"x", "n"}] : k \in 0..MaxLog}]

-----------------------------------------------------------------------------

ParsingInit == input \in RepoInputs \union RedisInputs \union LogInputs

\* An https URL with or without .git gives owner and name back, and an empty one of the
\* two is refused (project.go:249).
RepoURLRoundTrip ==
  input.kind = "repo" /\ input.scheme = "https" =>
    ParseRepoURL(input.scheme, input.owner \o <<"/">> \o input.name \o input.suffix)
      = IF input.owner = <<>> \/ input.name = <<>> \/ input.name \o input.suffix = <<".git">>
        THEN Failed
        ELSE [owner |-> input.owner, name |-> input.name]

\* Queue and caches use the same address and database of the Redis a URL of the documented
\* format names (asynq.go:49), and the same password if it names none. (Numbers that fit
\* into an int, and a host that is not an IPv6 address.)
RedisURLsAgree ==
  input.kind = "redis" /\ input.host # <<>> /\ IsNumber(DbText(input)) =>
    LET queue == ParseRedisURL(RedisURL(input))
        caches == GoRedisURL(input)
    IN /\ queue.addr = caches.addr /\ queue.db = caches.db
       /\ input.login = <<>> => queue.password = caches.password

LineStarts(t) == {1} \union {k + 1 : k \in Where("n", t)}
Fits(t) == Len(t) <= MaxLogBytes /\ Cardinality(Where("n", t)) < MaxLogLines

\* What is stored of a log is all of it, if it is within both limits, or the header and
\* the longest run of whole last lines that is, with two exceptions of the byte limit: a
\* cut exactly between two lines drops the line after it, and a last line longer than the
\* limit is cut.
TruncationKeepsTail ==
  input.kind = "log" =>
    LET t == input.text
        kept == TruncateLogs(t)
        whole == {k \in LineStarts(t) : Fits(From(t, k))}
        best == From(t, First(whole))
    IN IF whole = {} THEN kept = Header \o From(t, Len(t) - MaxLogBytes + 1)
       ELSE \/ kept = Marked(t, best)
            \/ /\ Len(best) = MaxLogBytes /\ best # t
               /\ kept = Header \o From(best, First(Where("n", best)) + 1)

=============================================================================
