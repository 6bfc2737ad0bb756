------------------------ MODULE SupervisorStream_proofs ------------------------
(***************************************************************************)
(* What a caller is told is true, for any number of concurrent requests,   *)
(* any pools and any lengths of answers: segments are not mixed, the       *)
(* metadata describes the stream, and so do the errors.                    *)
(*                                                                         *)
(* StreamInv ties the chunks that were sent to the rest of the state.  It  *)
(* is inductive together with TypeOK, RequestInv and CachedAnswersAreWhole *)
(* (a replay sends what is in the cache).                                  *)
(***************************************************************************)
EXTENDS Supervisor_proofs

(* The three properties, of one request. *)
Truth(r) ==
  /\ NotMixed(out[r])
  /\ EndsWith(r, "final") => FinalIsTrue(r)
  /\ EndsWith(r, "error") => ErrorIsTrue(out[r])

------------------------------------------------------------------------------
(* Streams and chunks *)

(* The kinds of the chunks that the servicer sends. *)
LEMMA ChunkKinds ==
  /\ \A tok, b : IsToken(TokenChunk(tok, b)) /\ ~IsNotice(TokenChunk(tok, b))
  /\ \A reason : IsNotice(EscalationNotice(reason)) /\ ~IsToken(EscalationNotice(reason))
BY DEF IsToken, IsNotice, TokenChunk, EscalationNotice

(* A stream with one more chunk. *)
LEMMA Appended ==
  ASSUME NEW s \in Seq(Chunk), NEW c
  PROVE  /\ Len(s) \in Nat /\ Len(Append(s, c)) = Len(s) + 1
         /\ DOMAIN s = 1..Len(s) /\ DOMAIN Append(s, c) = 1..(Len(s) + 1)
         /\ \A i \in 1..Len(s) : Append(s, c)[i] = s[i]
         /\ Append(s, c)[Len(s) + 1] = c
OBVIOUS

(* A chunk that is no token, or continues the last one, mixes nothing. *)
LEMMA NotMixedAppend ==
  ASSUME NEW s \in Seq(Chunk), NEW c, NotMixed(s),
         IsToken(c) /\ Len(s) > 0 /\ IsToken(s[Len(s)]) =>
           c.tok = [s[Len(s)].tok EXCEPT !.pos = @ + 1] /\ c.padded = s[Len(s)].padded
  PROVE  NotMixed(Append(s, c))
<1> DEFINE t == Append(s, c)
<1>1. SUFFICES ASSUME NEW i \in 1..Len(s), IsToken(t[i]), IsToken(t[i + 1])
               PROVE  /\ t[i + 1].tok = [t[i].tok EXCEPT !.pos = @ + 1]
                      /\ t[i + 1].padded = t[i].padded
  BY Appended DEF NotMixed
<1>2. CASE i = Len(s)
  BY <1>1, <1>2, Appended
<1>3. CASE i # Len(s)
  <2>1. t[i] = s[i] /\ t[i + 1] = s[i + 1] /\ i \in DOMAIN s /\ i + 1 \in DOMAIN s
    BY <1>3, Appended
  <2>2. QED
    BY <1>1, <2>1 DEF NotMixed
<1>4. QED
  BY <1>2, <1>3

(* The notices of a stream with one more chunk. *)
LEMMA NoticesAppend ==
  ASSUME NEW s \in Seq(Chunk), NEW c, ~IsNotice(c)
  PROVE  Notices(Append(s, c)) = Notices(s)
BY Appended DEF Notices

(* The chunks after the k-th that show an answer are that answer streamed. *)
LEMMA ShownSegment ==
  ASSUME NEW s \in Seq(Chunk), NEW a \in Seq(Token), NEW k \in Nat, k + Len(a) <= Len(s),
         Shows(s, k, a)
  PROVE  /\ SubSeq(s, k + 1, k + Len(a)) = Streamed(a)
         /\ \A i \in (k + 1)..(k + Len(a)) : IsToken(s[i]) /\ ~IsNotice(s[i])
<1>1. Len(a) \in Nat /\ DOMAIN a = 1..Len(a) /\ Len(s) \in Nat
  OBVIOUS
<1>2. ASSUME NEW i \in 1..Len(a) PROVE s[k + i] = TokenChunk(a[i], FALSE)
  BY <1>1 DEF Shows
<1>3. SubSeq(s, k + 1, k + Len(a)) = [i \in 1..Len(a) |-> s[k + i]]
  BY <1>1
<1>4. Streamed(a) = [i \in 1..Len(a) |-> TokenChunk(a[i], FALSE)]
  BY <1>1 DEF Streamed
<1>5. ASSUME NEW i \in (k + 1)..(k + Len(a)) PROVE IsToken(s[i]) /\ ~IsNotice(s[i])
  <2>1. i - k \in 1..Len(a) /\ k + (i - k) = i
    BY <1>1
  <2>2. s[i] = TokenChunk(a[i - k], FALSE)
    BY <1>2, <2>1
  <2>3. QED
    BY <2>2, ChunkKinds
<1>6. QED
  BY <1>2, <1>3, <1>4, <1>5

------------------------------------------------------------------------------
(* The metadata at the end of a stream *)

(* At the end of a replay. *)
LEMMA CachedFinal ==
  ASSUME NEW s \in Seq(Chunk), NEW a \in Seq(Token),
         Len(s) = Len(Words(a)), \A i \in DOMAIN s : s[i] = TokenChunk(Words(a)[i], TRUE),
         NEW f, f.kind = "final", f.escalated = FALSE
  PROVE  /\ Notices(Append(s, f)) = {}
         /\ FinalTokens(Append(s, f)) = Replayed(a)
<1> DEFINE t == Append(s, f)
<1>1. Notices(t) = {}
  <2>1. ASSUME NEW i \in DOMAIN s PROVE ~IsNotice(s[i])
    BY ChunkKinds
  <2>2. Notices(s) = {}
    BY <2>1 DEF Notices
  <2>3. QED
    BY <2>2, NoticesAppend DEF IsNotice
<1>2. FinalTokens(t) = SubSeq(t, 1, Len(s))
  BY <1>1, Appended DEF FinalTokens
<1>3. SubSeq(t, 1, Len(s)) = s
  OBVIOUS
<1>4. Words(a) \in Seq(Token \union {None})
  <2>1. a \in Seq(Token \union {None}) /\ <<None>> \in Seq(Token \union {None})
    OBVIOUS
  <2>2. QED
    BY <2>1 DEF Words
<1>5. s = Replayed(a)
  <2> DEFINE w == Words(a)
  <2> HIDE DEF w
  <2>1. w \in Seq(Token \union {None}) /\ Len(s) = Len(w)
        /\ \A i \in DOMAIN s : s[i] = TokenChunk(w[i], TRUE)
    BY <1>4 DEF w
  <2>2. DOMAIN w = DOMAIN s /\ s = [i \in DOMAIN s |-> s[i]]
    BY <2>1
  <2>3. s = [i \in DOMAIN w |-> TokenChunk(w[i], TRUE)]
    BY <2>1, <2>2
  <2>4. QED
    BY <2>3 DEF Replayed, w
<1>6. QED
  BY <1>1, <1>2, <1>3, <1>5

(* At the end of the default tier's answer, or of that and a failed        *)
(* escalation's notice.                                                    *)
LEMMA DefaultFinal ==
  ASSUME NEW s \in Seq(Chunk), NEW a \in Seq(Token), Shows(s, 0, a),
         Len(s) = Len(a) \/ (Len(s) = Len(a) + 1 /\ IsNotice(s[Len(s)])),
         NEW f, f.kind = "final", f.escalated = FALSE
  PROVE  /\ Notices(Append(s, f)) \subseteq {Len(Append(s, f)) - 1}
         /\ FinalTokens(Append(s, f)) = Streamed(a)
<1> DEFINE t == Append(s, f)
<1>1. Len(a) \in Nat /\ Len(a) <= Len(s) /\ Len(t) = Len(s) + 1 /\ Len(s) \in Nat
  BY Appended
<1>2. SubSeq(s, 1, Len(a)) = Streamed(a) /\ \A i \in 1..Len(a) : ~IsNotice(s[i])
  <2>1. 0 + Len(a) = Len(a) /\ 0 + 1 = 1
    BY <1>1
  <2>2. QED
    BY <1>1, <2>1, ShownSegment
<1>3. Notices(t) = Notices(s)
  BY NoticesAppend DEF IsNotice
<1>4. SubSeq(t, 1, Len(a)) = SubSeq(s, 1, Len(a))
  BY <1>1, Appended
<1>5. t[Len(t)].escalated = FALSE /\ Len(t) - 1 = Len(s)
  BY <1>1, Appended
<1>6. CASE Len(s) = Len(a)
  <2>1. Notices(t) = {}
    BY <1>2, <1>3, <1>6, Appended DEF Notices
  <2>2. FinalTokens(t) = SubSeq(t, 1, Len(a))
    BY <1>5, <1>6, <2>1 DEF FinalTokens
  <2>3. QED
    BY <1>2, <1>4, <2>1, <2>2
<1>7. CASE Len(s) = Len(a) + 1 /\ IsNotice(s[Len(s)])
  <2>1. Notices(s) = {Len(s)}
    BY <1>1, <1>2, <1>7, Appended DEF Notices
  <2>2. FinalTokens(t) = SubSeq(t, 1, Len(a))
    <3>1. (CHOOSE i \in Notices(t) : TRUE) = Len(s) /\ Notices(t) # {}
      BY <1>3, <2>1
    <3>2. FinalTokens(t) = SubSeq(t, 1, Len(s) - 1)
      BY <1>5, <3>1 DEF FinalTokens
    <3>3. QED
      BY <1>1, <1>7, <3>2
  <2>3. QED
    BY <1>2, <1>3, <1>4, <1>5, <2>1, <2>2
<1>8. QED
  BY <1>6, <1>7

(* At the end of the escalation tier's answer. *)
LEMMA EscalatedFinal ==
  ASSUME NEW s \in Seq(Chunk), NEW a \in Seq(Token), NEW k \in 1..Len(s),
         Len(s) = k + Len(a), IsNotice(s[k]), Shows(s, k, a),
         \A i \in 1..k - 1 : IsToken(s[i]),
         NEW f, f.kind = "final", f.escalated = TRUE
  PROVE  /\ Notices(Append(s, f)) # {}
         /\ FinalTokens(Append(s, f)) = Streamed(a)
<1> DEFINE t == Append(s, f)
<1>1. Len(a) \in Nat /\ Len(t) = Len(s) + 1 /\ Len(s) \in Nat /\ k \in Nat
  BY Appended
<1>2. /\ SubSeq(s, k + 1, Len(s)) = Streamed(a)
      /\ \A i \in (k + 1)..Len(s) : ~IsNotice(s[i])
  <2>1. /\ SubSeq(s, k + 1, k + Len(a)) = Streamed(a)
        /\ \A i \in (k + 1)..(k + Len(a)) : ~IsNotice(s[i])
    <3>1. k + Len(a) <= Len(s)
      BY <1>1
    <3> HIDE DEF t
    <3>2. QED
      BY <1>1, <3>1, ShownSegment
  <2>2. QED
    BY <2>1
<1>3. Notices(t) = {k}
  <2>1. ASSUME NEW i \in 1..Len(s), i # k PROVE ~IsNotice(s[i])
    <3>1. CASE i < k
      BY <1>1, <3>1 DEF IsToken, IsNotice
    <3>2. CASE i > k
      BY <1>1, <1>2, <3>2
    <3>3. QED
      BY <1>1, <2>1, <3>1, <3>2
  <2>2. Notices(s) = {k}
    BY <2>1, Appended DEF Notices
  <2>3. QED
    BY <2>2, NoticesAppend DEF IsNotice
<1>4. FinalTokens(t) = SubSeq(t, k + 1, Len(s))
  <2>1. (CHOOSE i \in Notices(t) : TRUE) = k
    BY <1>3
  <2>2. t[Len(t)] = f /\ Len(t) - 1 = Len(s)
    BY <1>1, Appended
  <2>3. QED
    BY <2>1, <2>2 DEF FinalTokens
<1>5. SubSeq(t, k + 1, Len(s)) = SubSeq(s, k + 1, Len(s))
  BY <1>1, Appended
<1>6. QED
  BY <1>2, <1>3, <1>4, <1>5

------------------------------------------------------------------------------
(* What a stream shows, when it grows *)

(* The position of an answer's token among the chunks. *)
LEMMA ShownAt ==
  ASSUME NEW s \in Seq(Chunk), NEW a \in Seq(Token), NEW k \in Nat, k + Len(a) <= Len(s),
         NEW i \in DOMAIN a, NEW c
  PROVE  Append(s, c)[k + i] = s[k + i]
<1>1. i \in 1..Len(a) /\ Len(a) \in Nat /\ Len(s) \in Nat
  OBVIOUS
<1>2. k + i \in 1..Len(s)
  BY <1>1
<1>3. QED
  BY <1>2, Appended

LEMMA ShowsAppend ==
  ASSUME NEW s \in Seq(Chunk), NEW a \in Seq(Token), NEW k \in Nat, k + Len(a) <= Len(s),
         Shows(s, k, a), NEW c
  PROVE  Shows(Append(s, c), k, a)
BY ShownAt DEF Shows

LEMMA ShowsNext ==
  ASSUME NEW s \in Seq(Chunk), NEW a \in Seq(Token), NEW k \in Nat, Len(s) = k + Len(a),
         Shows(s, k, a), NEW tok \in Token
  PROVE  Shows(Append(s, TokenChunk(tok, FALSE)), k, Append(a, tok))
<1> DEFINE c == TokenChunk(tok, FALSE)
           b == Append(a, tok)
<1> HIDE DEF c
<1>1. /\ Len(a) \in Nat /\ DOMAIN a = 1..Len(a) /\ DOMAIN b = 1..(Len(a) + 1)
      /\ b[Len(a) + 1] = tok /\ \A i \in 1..Len(a) : b[i] = a[i]
  OBVIOUS
<1> HIDE DEF b
<1>2. Append(s, c)[k + (Len(a) + 1)] = c
  BY <1>1, Appended
<1>3. k + Len(a) <= Len(s)
  BY <1>1
<1>4. ASSUME NEW i \in DOMAIN a PROVE Append(s, c)[k + i] = TokenChunk(a[i], FALSE)
  BY <1>3, <1>4, ShownAt DEF Shows
<1>5. ASSUME NEW i \in DOMAIN b PROVE Append(s, c)[k + i] = TokenChunk(b[i], FALSE)
  <2>1. CASE i = Len(a) + 1
    BY <1>1, <1>2, <2>1 DEF c
  <2>2. CASE i # Len(a) + 1
    <3>1. i \in DOMAIN a
      BY <1>1, <2>2
    <3>2. QED
      BY <1>1, <1>4, <3>1
  <2>3. QED
    BY <2>1, <2>2
<1>6. QED
  BY <1>5 DEF Shows, b, c

LEMMA ShowsNothing ==
  ASSUME NEW s, NEW k
  PROVE  Shows(s, k, <<>>)
BY DEF Shows

(* The same for the words of a replay. *)
LEMMA ReplaysNext ==
  ASSUME NEW s \in Seq(Chunk), NEW w \in Seq(Token \union {None}),
         \A i \in DOMAIN s : s[i] = TokenChunk(w[i], TRUE),
         NEW c, c = TokenChunk(w[Len(s) + 1], TRUE)
  PROVE  \A i \in DOMAIN Append(s, c) : Append(s, c)[i] = TokenChunk(w[i], TRUE)
<1>1. SUFFICES ASSUME NEW i \in 1..(Len(s) + 1) PROVE Append(s, c)[i] = TokenChunk(w[i], TRUE)
  BY Appended
<1>2. CASE i = Len(s) + 1
  BY <1>2, Appended
<1>3. CASE i # Len(s) + 1
  <2>1. i \in 1..Len(s) /\ i \in DOMAIN s
    BY <1>3, Appended
  <2>2. s[i] = TokenChunk(w[i], TRUE)
    BY <2>1
  <2>3. Append(s, c)[i] = s[i]
    BY <2>1, Appended
  <2>4. QED
    BY <2>2, <2>3
<1>4. QED
  BY <1>2, <1>3

------------------------------------------------------------------------------
(* Steps by what they send *)

(* The types used below. *)
LEMMA SentTypes ==
  ASSUME TypeOK, NEW r \in Requests
  PROVE  /\ out[r] \in Seq(Chunk) /\ parts[r] \in Seq(Token) /\ query[r] \in Queries
         /\ FirstAnswer(r) \in Seq(Token)
         /\ result[r] # None => result[r] \in Result /\ result[r].answer \in Seq(Token)
         /\ Len(out[r]) \in Nat /\ Len(parts[r]) \in Nat /\ Len(FirstAnswer(r)) \in Nat
         /\ result[r] = None => FirstAnswer(r) = <<>> /\ Len(FirstAnswer(r)) = 0
<1>1. /\ out[r] \in Seq(Chunk) /\ parts[r] \in Seq(Token) /\ query[r] \in Queries
      /\ result[r] \in Result \union {None}
  BY DEF TypeOK, RequestTypeOK, Cache!TypeOK
<1>2. result[r] # None => result[r] \in Result /\ result[r].answer \in Seq(Token)
  BY <1>1, AnswerType DEF Result
<1>3. FirstAnswer(r) \in Seq(Token)
  BY <1>2 DEF FirstAnswer
<1>4. result[r] = None => FirstAnswer(r) = <<>> /\ Len(FirstAnswer(r)) = 0
  BY DEF FirstAnswer
<1>5. Len(out[r]) \in Nat /\ Len(parts[r]) \in Nat /\ Len(FirstAnswer(r)) \in Nat
  BY <1>1, <1>3
<1>6. QED
  BY <1>1, <1>2, <1>3, <1>4, <1>5

(* The last token of an answer. *)
LEMMA LastOf ==
  ASSUME NEW a \in Seq(Token), a # <<>>
  PROVE  Len(a) \in Nat /\ Len(a) >= 1 /\ 1 \in DOMAIN a /\ Len(a) \in DOMAIN a
OBVIOUS

(* Yield, for the request that yields. *)
LEMMA Yielded ==
  ASSUME TypeOK, NEW r \in Requests, NEW c, Yield(r, c)
  PROVE  out'[r] = Append(out[r], c)
BY DEF TypeOK, RequestTypeOK, Yield

(* A request that sends nothing, and is not closed by it. *)
LEMMA NothingSent ==
  ASSUME NEW r \in Requests, SentInv(r), Truth(r), out'[r] = out[r], query' = query,
         pc[r] # "closed", pc'[r] # "closed"
  PROVE  TerminalInv(r)' /\ Truth(r)'
<1>1. TerminalInv(r)'
  BY DEF SentInv, TerminalInv
<1>2. FinalIsTrue(r) => FinalIsTrue(r)'
  BY DEF FinalIsTrue
<1>3. (EndsWith(r, "final") <=> EndsWith(r, "final")') /\ (EndsWith(r, "error") <=> EndsWith(r, "error")')
  BY DEF EndsWith
<1>4. QED
  BY <1>1, <1>2, <1>3 DEF Truth

(* A request that sends a token or a notice. *)
LEMMA ChunkSent ==
  ASSUME TypeOK, NEW r \in Requests, SentInv(r), Truth(r), NEW c \in Chunk, Yield(r, c),
         c.kind \in {"token", "escalating"}, pc[r] # "closed", pc'[r] # "closed",
         IsToken(c) /\ Len(out[r]) > 0 /\ IsToken(out[r][Len(out[r])]) =>
           /\ c.tok = [out[r][Len(out[r])].tok EXCEPT !.pos = @ + 1]
           /\ c.padded = out[r][Len(out[r])].padded
  PROVE  TerminalInv(r)' /\ Truth(r)'
<1>1. out[r] \in Seq(Chunk) /\ out'[r] = Append(out[r], c)
  BY SentTypes, Yielded
<1>2. TerminalInv(r)'
  BY <1>1, Appended DEF SentInv, TerminalInv
<1>3. NotMixed(out'[r])
  BY <1>1, NotMixedAppend DEF Truth
<1>4. ~EndsWith(r, "final")' /\ ~EndsWith(r, "error")'
  <2>1. out'[r][Len(out'[r])] = c
    BY <1>1, Appended
  <2>2. QED
    BY <2>1 DEF EndsWith
<1>5. QED
  BY <1>2, <1>3, <1>4 DEF Truth

(* A request that sends its last chunk, if that is true. *)
LEMMA LastSent ==
  ASSUME TypeOK, NEW r \in Requests, SentInv(r), Truth(r), NEW c \in Chunk, Close(r, c),
         c.kind \in {"final", "error"}, pc[r] # "closed",
         query' = query, best' = best, result' = result,
         c.kind = "final" => FinalIsTrue(r)', c.kind = "error" => ErrorIsTrue(out'[r])
  PROVE  SentInv(r)' /\ Truth(r)'
<1>1. out[r] \in Seq(Chunk) /\ out'[r] = Append(out[r], c) /\ pc'[r] = "closed"
  BY SentTypes, Yielded DEF Close, Goto, TypeOK, RequestTypeOK
<1>2. out'[r][Len(out'[r])] = c /\ out'[r] # <<>>
  BY <1>1, Appended
<1>3. TerminalInv(r)'
  BY <1>1, <1>2, Appended DEF SentInv, TerminalInv
<1>4. NotMixed(out'[r])
  BY <1>1, NotMixedAppend DEF Truth, IsToken
<1>5. (EndsWith(r, "final") <=> c.kind = "final")' /\ (EndsWith(r, "error") <=> c.kind = "error")'
  BY <1>2 DEF EndsWith
<1>6. Truth(r)'
  BY <1>4, <1>5 DEF Truth
<1>7. LookupInv(r)' /\ ReplayInv(r)' /\ TierInv(r)' /\ ResultInv(r)' /\ PoolInv(r)'
  BY <1>1 DEF SentInv, LookupInv, ReplayInv, TierInv, ResultInv, PoolInv
<1>8. QED
  BY <1>1, <1>3, <1>6, <1>7 DEF SentInv

(* A request that fails with a status: nothing is sent. *)
LEMMA BreakSent ==
  ASSUME TypeOK, NEW r \in Requests, SentInv(r), Truth(r), pc[r] \in Awaiting, pc'[r] \in Broken,
         query' = query, out'[r] = out[r], result'[r] = result[r] \/ PoolInv(r)',
         best'[r] \in {best[r], None}
  PROVE  SentInv(r)' /\ Truth(r)'
<1>1. pc[r] # "closed" /\ pc'[r] \notin {"idle", "closed"} \union Awaiting
  BY DEF Awaiting, Broken
<1>2. TerminalInv(r)' /\ Truth(r)'
  BY <1>1, NothingSent
<1>3. LookupInv(r)' /\ ReplayInv(r)' /\ TierInv(r)' /\ ResultInv(r)' /\ PoolInv(r)'
  BY <1>1 DEF SentInv, LookupInv, ReplayInv, TierInv, ResultInv, PoolInv, Awaiting
<1>4. QED
  BY <1>1, <1>2, <1>3 DEF SentInv, Awaiting

------------------------------------------------------------------------------
(* The lookup and the replay *)

(* A whole answer was found in the store. *)
LEMMA FoundWhole ==
  ASSUME TypeOK, CachedAnswersAreWhole, NEW r \in Requests, LookupInv(r), NEW k \in Keys,
         Cache!Visit(r, k), best'[r] # None
  PROVE  IsWhole(best'[r])
<1>1. best'[r] \in {best[r], store[k]}
  BY DEF Cache!Visit, TypeOK, Cache!TypeOK
<1>2. QED
  BY <1>1 DEF LookupInv, CachedAnswersAreWhole

LEMMA ScanSent ==
  ASSUME TypeOK, CachedAnswersAreWhole, NEW r \in Requests, SentInv(r), Truth(r),
         NEW k \in Keys, Scan(r, k)
  PROVE  SentInv(r)' /\ Truth(r)'
<1>1. /\ pc[r] = "lookup" /\ pc' = pc /\ out' = out /\ result' = result /\ query' = query
      /\ Cache!Visit(r, k)
  BY DEF Scan, requestVars, Cache!Visit
<1>2. TerminalInv(r)' /\ Truth(r)'
  BY <1>1, NothingSent
<1>3. LookupInv(r)'
  BY <1>1, FoundWhole DEF SentInv, LookupInv
<1>4. ReplayInv(r)' /\ TierInv(r)' /\ ResultInv(r)' /\ PoolInv(r)'
  BY <1>1 DEF SentInv, ReplayInv, TierInv, ResultInv, PoolInv
<1>5. QED
  BY <1>1, <1>2, <1>3, <1>4 DEF SentInv

LEMMA ReceiveSent ==
  ASSUME TypeOK, NEW r \in Requests, SentInv(r), Truth(r), Receive(r)
  PROVE  SentInv(r)' /\ Truth(r)'
<1>1. /\ pc[r] = "idle" /\ pc'[r] = "lookup" /\ out' = out /\ result' = result
      /\ query' = query /\ best'[r] = None
  BY DEF Receive, Goto, Cache!Begin, TypeOK, RequestTypeOK, Cache!TypeOK
<1>2. TerminalInv(r)' /\ Truth(r)'
  BY <1>1, NothingSent
<1>3. LookupInv(r)' /\ ReplayInv(r)' /\ TierInv(r)' /\ ResultInv(r)' /\ PoolInv(r)'
  BY <1>1 DEF SentInv, LookupInv, ReplayInv, TierInv, ResultInv, PoolInv
<1>4. QED
  BY <1>1, <1>2, <1>3 DEF SentInv

(* A hit: what was found is similar enough, and nothing is replayed yet. *)
LEMMA HitSent ==
  ASSUME TypeOK, RequestInv, NEW r \in Requests, SentInv(r), Truth(r), LookupHit(r)
  PROVE  SentInv(r)' /\ Truth(r)'
<1>1. /\ pc[r] = "lookup" /\ pc'[r] = "replay" /\ out' = out /\ result' = result
      /\ query' = query /\ best' = best /\ idx'[r] = 0
      /\ Score[<<query[r], best[r].query>>] >= Threshold
  BY DEF LookupHit, Goto, Cache!Hit, Cache!Similar, Cache!ScoreOf, TypeOK, RequestTypeOK
<1>2. TerminalInv(r)' /\ Truth(r)'
  BY <1>1, NothingSent
<1>3. LookupInv(r)' /\ TierInv(r)' /\ ResultInv(r)' /\ PoolInv(r)'
  BY <1>1 DEF SentInv, LookupInv, TierInv, ResultInv, PoolInv
<1>4. ReplayInv(r)'
  <2>1. best[r] # None /\ best[r] \in Cache!Entry
    BY DEF LookupHit, Cache!Hit, Cache!Similar, TypeOK, Cache!TypeOK
  <2>2. best[r].value.answer \in Seq(Token)
    BY <2>1, AnswerType DEF Cache!Entry, CacheValue
  <2>3. Len(Words(best[r].value.answer)) >= 0
    BY <2>2 DEF Words
  <2>4. out'[r] = <<>> /\ Len(<<>>) = 0 /\ DOMAIN <<>> = {}
    BY <1>1 DEF SentInv
  <2>5. QED
    BY <1>1, <2>3, <2>4 DEF ReplayInv, Cached
<1>5. QED
  BY <1>1, <1>2, <1>3, <1>4 DEF SentInv

(* The word of a replay continues the answer. *)
LEMMA ReplayWordSent ==
  ASSUME TypeOK, RequestInv, NEW r \in Requests, SentInv(r), Truth(r), ReplayWord(r)
  PROVE  SentInv(r)' /\ Truth(r)'
<1> DEFINE w == Words(Cached(r).answer)
           c == TokenChunk(w[idx[r] + 1], TRUE)
<1>1. /\ pc[r] = "replay" /\ idx[r] < Len(w) /\ Yield(r, c)
      /\ pc' = pc /\ result' = result /\ query' = query /\ best' = best
      /\ idx'[r] = idx[r] + 1
  BY DEF ReplayWord, cacheVars, TypeOK, RequestTypeOK
<1>2. c \in Chunk
  BY ReplayedChunk
<1>3. /\ w \in Seq(Token \union {None}) /\ idx[r] = Len(out[r]) /\ out[r] \in Seq(Chunk)
      /\ \A i \in DOMAIN out[r] : out[r][i] = TokenChunk(w[i], TRUE)
  BY <1>1, CachedType, SentTypes DEF SentInv, ReplayInv
<1>4. out'[r] = Append(out[r], c)
  BY <1>1, Yielded
<1>5. ASSUME Len(out[r]) > 0
      PROVE  /\ c.tok = [out[r][Len(out[r])].tok EXCEPT !.pos = @ + 1]
             /\ c.padded = out[r][Len(out[r])].padded
  <2> DEFINE n == Len(out[r])
  <2>1. PICK l \in Lengths : Cached(r).answer = Complete(best[r].query, Cached(r).model_used, l)
    BY <1>1 DEF SentInv, LookupInv, IsWhole, RequestInv, ControlInv, IsAnswerTo, Cached
  <2>2. w = Cached(r).answer
    <3>1. Len(<<None>>) = 1
      OBVIOUS
    <3>2. QED
      BY <1>1, <1>3, <1>5, <3>1 DEF Words
  <2>3. n \in 1..l /\ n + 1 \in 1..l
    <3>1. l \in Nat /\ Len(w) = l
      <4>1. l \in Nat
        BY SupervisorAssumption
      <4>2. QED
        BY <4>1, <2>1, <2>2 DEF Complete
    <3>2. QED
      BY <1>1, <1>3, <1>5, <3>1
  <2>4. /\ w[n + 1] = [query |-> best[r].query, model |-> Cached(r).model_used, pos |-> n + 1, total |-> l]
        /\ w[n] = [query |-> best[r].query, model |-> Cached(r).model_used, pos |-> n, total |-> l]
    BY <2>1, <2>2, <2>3 DEF Complete
  <2>5. w[n + 1] = [w[n] EXCEPT !.pos = @ + 1]
    BY <2>4
  <2>6. out[r][n] = TokenChunk(w[n], TRUE) /\ c = TokenChunk(w[n + 1], TRUE)
    <3>1. n \in DOMAIN out[r]
      BY <1>3, <1>5
    <3> HIDE DEF w
    <3>2. QED
      BY <1>3, <3>1
  <2>7. QED
    BY <2>5, <2>6 DEF TokenChunk
<1>6. TerminalInv(r)' /\ Truth(r)'
  <2>1. c.kind \in {"token", "escalating"}
    BY DEF TokenChunk
  <2>2. pc[r] # "closed" /\ pc'[r] # "closed"
    BY <1>1
  <2> HIDE DEF c
  <2>3. QED
    BY <1>1, <1>2, <1>5, <2>1, <2>2, ChunkSent
<1>7. ReplayInv(r)'
  <2>1. Cached(r)' = Cached(r)
    BY <1>1 DEF Cached
  <2>2. c = TokenChunk(w[Len(out[r]) + 1], TRUE)
    BY <1>3
  <2> HIDE DEF c, w
  <2>3. idx'[r] = Len(out'[r]) /\ idx'[r] <= Len(w)
    BY <1>1, <1>3, <1>4, Appended
  <2>4. \A i \in DOMAIN out'[r] : out'[r][i] = TokenChunk(w[i], TRUE)
    <3>1. \A i \in DOMAIN Append(out[r], c) : Append(out[r], c)[i] = TokenChunk(w[i], TRUE)
      BY <1>3, <2>2, ReplaysNext
    <3>2. QED
      BY <1>4, <3>1
  <2>5. QED
    BY <2>1, <2>3, <2>4 DEF ReplayInv, w
<1>8. LookupInv(r)' /\ TierInv(r)' /\ ResultInv(r)' /\ PoolInv(r)'
  BY <1>1 DEF SentInv, LookupInv, TierInv, ResultInv, PoolInv
<1>9. QED
  BY <1>1, <1>6, <1>7, <1>8 DEF SentInv

(* The metadata after a replay. *)
LEMMA ReplayFinalSent ==
  ASSUME TypeOK, RequestInv, NEW r \in Requests, SentInv(r), Truth(r), ReplayFinal(r)
  PROVE  SentInv(r)' /\ Truth(r)'
<1> DEFINE a == Cached(r).answer
           f == QueryMetadata(Cached(r).agent_name, Cached(r).model_used, TRUE, FALSE, "cache")
<1>1. /\ pc[r] = "replay" /\ idx[r] = Len(Words(a)) /\ Close(r, f)
      /\ result' = result /\ query' = query /\ best' = best
  BY DEF ReplayFinal, cacheVars
<1>2. f \in Chunk
  BY CachedMetadata
<1>3. /\ f.kind = "final" /\ f.cached = TRUE /\ f.escalated = FALSE /\ f.route_method = "cache"
      /\ f.model_used = Cached(r).model_used /\ f.agent_name = Cached(r).agent_name
  BY DEF QueryMetadata
<1> HIDE DEF f
<1>4. a \in Seq(Token) /\ best[r].query \in Queries
  BY <1>1, CachedType, AnswerType
  DEF CacheValue, RequestInv, ControlInv, TypeOK, Cache!TypeOK, Cache!Entry
<1>5. PICK n \in Lengths :
        /\ a = Complete(best[r].query, f.model_used, n)
        /\ SemanticRoute[best[r].query] # None => f.agent_name = SemanticRoute[best[r].query]
  BY <1>1, <1>3 DEF SentInv, LookupInv, IsWhole, RequestInv, ControlInv, IsAnswerTo, Cached
<1>6. /\ out[r] \in Seq(Chunk) /\ Len(out[r]) = Len(Words(a))
      /\ \A i \in DOMAIN out[r] : out[r][i] = TokenChunk(Words(a)[i], TRUE)
  BY <1>1, SentTypes DEF SentInv, ReplayInv
<1>7. out'[r] = Append(out[r], f) /\ out'[r][Len(out'[r])] = f
  BY <1>1, <1>6, Yielded, Appended DEF Close
<1>8. Notices(out'[r]) = {} /\ FinalTokens(out'[r]) = Replayed(a)
  <2> HIDE DEF a
  <2>1. /\ Notices(Append(out[r], f)) = {}
        /\ FinalTokens(Append(out[r], f)) = Replayed(a)
    BY <1>3, <1>4, <1>6, CachedFinal
  <2>2. QED
    BY <1>7, <2>1
<1>9. Score[<<query'[r], best[r].query>>] >= Threshold
  BY <1>1 DEF SentInv, LookupInv
<1>10. FinalIsTrue(r)'
  BY <1>3, <1>4, <1>5, <1>7, <1>8, <1>9 DEF FinalIsTrue
<1>11. QED
  BY <1>1, <1>2, <1>3, <1>10, LastSent

(* 1: the semantic cache. *)
LEMMA LookupSent ==
  ASSUME TypeOK, RequestInv, CachedAnswersAreWhole, NEW r \in Requests, SentInv(r), Truth(r),
         Lookup(r)
  PROVE  SentInv(r)' /\ Truth(r)'
<1>1. CASE LookupRaises(r)
  <2>1. /\ pc[r] \in Awaiting /\ pc'[r] \in Broken /\ out' = out /\ result' = result
        /\ query' = query /\ best'[r] = None
    BY <1>1 DEF LookupRaises, Goto, Cache!Raise, Cache!Abandon, Awaiting, Broken,
                TypeOK, RequestTypeOK, Cache!TypeOK
  <2>2. QED
    BY <2>1, BreakSent
<1>2. QED
  BY <1>1, ScanSent, HitSent, ReplayWordSent, ReplayFinalSent DEF Lookup, TypeOK, Cache!TypeOK

(* 2, 3: routing. *)
LEMMA RouteSent ==
  ASSUME TypeOK, RequestInv, NEW r \in Requests, SentInv(r), Truth(r), Route(r)
  PROVE  SentInv(r)' /\ Truth(r)'
<1>1. /\ pc[r] \in {"lookup", "route"} /\ pc'[r] \in {"stream", "route", "route_error"}
      /\ out' = out /\ result' = result /\ query' = query /\ best'[r] \in {best[r], None}
      /\ tier' = tier /\ parts' = parts
  BY DEF Route, RouteByEmbedding, RouteUnsure, LLMRoute, LLMRouteFails, Goto, Cache!Miss,
         cacheVars, TypeOK, RequestTypeOK, Cache!TypeOK
<1>2. TerminalInv(r)' /\ Truth(r)'
  BY <1>1, NothingSent
<1>3. LookupInv(r)' /\ ReplayInv(r)' /\ ResultInv(r)' /\ PoolInv(r)'
  BY <1>1 DEF SentInv, LookupInv, ReplayInv, ResultInv, PoolInv
<1>4. TierInv(r)'
  <2>1. out[r] = <<>> /\ parts[r] = <<>> /\ result[r] = None /\ tier[r] = "default"
    BY <1>1 DEF SentInv, RequestInv, ControlInv
  <2>2. Shows(<<>>, 0, <<>>)
    BY DEF Shows
  <2>3. QED
    BY <1>1, <2>1, <2>2 DEF TierInv
<1>5. QED
  BY <1>1, <1>2, <1>3, <1>4 DEF SentInv

------------------------------------------------------------------------------
(* 4, 5: the tiers *)

(* Where the tier that is streamed begins. *)
Start(r) == IF tier[r] = "default" THEN 0 ELSE Len(FirstAnswer(r)) + 1

(* An answer of n chunks, a notice at k and m more are l chunks. *)
LEMMA Positions ==
  ASSUME NEW n \in Nat, NEW m \in Nat, NEW k, k = n + 1, NEW l, l = k + m
  PROVE  0 + n <= l /\ 0 \in Nat /\ k \in 1..l /\ 1 \in 1..l /\ (n = 0 /\ m = 0 => l = 1)
OBVIOUS

(* The chunks of the tier, and what is before them. *)
LEMMA TierShape ==
  ASSUME TypeOK, NEW r \in Requests, TierInv(r), pc[r] \in {"stream", "assess"}
  PROVE  /\ Start(r) \in Nat /\ Len(out[r]) = Start(r) + Len(parts[r])
         /\ Shows(out[r], Start(r), parts[r])
         /\ Start(r) > 0 => IsNotice(out[r][Start(r)])
         /\ \A i \in 1..Start(r) - 1 : IsToken(out[r][i])
<1>1. /\ out[r] \in Seq(Chunk) /\ parts[r] \in Seq(Token) /\ FirstAnswer(r) \in Seq(Token)
      /\ Len(out[r]) \in Nat /\ Len(parts[r]) \in Nat /\ Len(FirstAnswer(r)) \in Nat
      /\ result[r] = None => Len(FirstAnswer(r)) = 0
  BY SentTypes
<1>2. CASE tier[r] = "default"
  <2>1. Start(r) = 0
    BY <1>2 DEF Start
  <2>2. Len(out[r]) = Len(parts[r]) /\ Shows(out[r], 0, parts[r])
    BY <1>2 DEF TierInv
  <2>3. QED
    BY <1>1, <2>1, <2>2
<1>3. CASE tier[r] # "default"
  <2>1. /\ Start(r) = Len(FirstAnswer(r)) + 1
        /\ Len(out[r]) = Start(r) + Len(parts[r]) /\ Shows(out[r], Start(r), parts[r])
        /\ Shows(out[r], 0, FirstAnswer(r))
    BY <1>3 DEF TierInv, Start
  <2>2. IsNotice(out[r][Start(r)])
    <3>1. CASE result[r] = None
      <4>1. Start(r) = 1
        BY <1>1, <2>1, <3>1
      <4>2. out[r][1] = EscalationNotice("default tier unavailable")
        BY <1>3, <3>1 DEF TierInv
      <4>3. QED
        BY <4>1, <4>2, ChunkKinds
    <3>2. CASE result[r] # None
      BY <1>3, <2>1, <3>2 DEF TierInv
    <3>3. QED
      BY <3>1, <3>2
  <2>3. \A i \in 1..Start(r) - 1 : IsToken(out[r][i])
    <3>1. 0 + Len(FirstAnswer(r)) <= Len(out[r]) /\ 0 \in Nat
      BY <1>1, <2>1, Positions, Zenon
    <3>2. \A i \in (0 + 1)..(0 + Len(FirstAnswer(r))) : IsToken(out[r][i])
      BY <1>1, <2>1, <3>1, ShownSegment
    <3>3. QED
      BY <2>1, <3>2
  <2>4. QED
    BY <2>1, <2>2, <2>3
<1>4. QED
  BY <1>2, <1>3

(* The token that is sent continues the last of parts. *)
LEMMA NextOfParts ==
  ASSUME TypeOK, RequestInv, NEW r \in Requests, NEW n \in Lengths, SendToken(r, n),
         parts[r] # <<>>
  PROVE  NextTok(r, n) = [parts[r][Len(parts[r])] EXCEPT !.pos = @ + 1]
<1>1. parts[r] \in Seq(Token) /\ pc[r] = "stream" /\ n = parts[r][1].total
  BY SentTypes DEF SendToken
<1>2. PICK l \in Lengths : \A i \in DOMAIN parts[r] :
        parts[r][i] = [query |-> query[r], model |-> Model(r), pos |-> i, total |-> l]
  BY <1>1 DEF RequestInv, AnswerInv, IsPartOfAnswer
<1>3. 1 \in DOMAIN parts[r] /\ Len(parts[r]) \in DOMAIN parts[r]
  BY <1>1, LastOf
<1>4. n = l
  <2>1. parts[r][1] = [query |-> query[r], model |-> Model(r), pos |-> 1, total |-> l]
    BY <1>2, <1>3, Zenon
  <2>2. QED
    BY <1>1, <2>1
<1>5. parts[r][Len(parts[r])] =
        [query |-> query[r], model |-> Model(r), pos |-> Len(parts[r]), total |-> l]
  BY <1>2, <1>3
<1>6. QED
  BY <1>4, <1>5 DEF NextTok

LEMMA TokenSent ==
  ASSUME TypeOK, RequestInv, NEW r \in Requests, SentInv(r), Truth(r),
         NEW n \in Lengths, SendToken(r, n)
  PROVE  SentInv(r)' /\ Truth(r)'
<1> DEFINE tok == NextTok(r, n)
           c == TokenChunk(tok, FALSE)
           s == out[r]
<1>1. /\ pc[r] = "stream" /\ Yield(r, c) /\ parts'[r] = Append(parts[r], tok)
      /\ pc' = pc /\ tier' = tier /\ result' = result /\ query' = query /\ best' = best
  BY DEF SendToken, NextTok, cacheVars, TypeOK, RequestTypeOK
<1>2. c \in Chunk /\ tok \in Token
  BY SentToken
<1>3. /\ s \in Seq(Chunk) /\ parts[r] \in Seq(Token) /\ FirstAnswer(r) \in Seq(Token)
      /\ out'[r] = Append(s, c) /\ tier[r] \in {"default", "escalation"}
  BY <1>1, SentTypes, Yielded DEF TypeOK, RequestTypeOK
<1>4. /\ Start(r) \in Nat /\ Len(s) = Start(r) + Len(parts[r])
      /\ Shows(s, Start(r), parts[r])
      /\ Start(r) > 0 => IsNotice(s[Start(r)])
  BY <1>1, TierShape DEF SentInv
<1>5. ASSUME Len(s) > 0, IsToken(s[Len(s)])
      PROVE  c.tok = [s[Len(s)].tok EXCEPT !.pos = @ + 1] /\ c.padded = s[Len(s)].padded
  <2>1. parts[r] # <<>>
    <3>1. parts[r] = <<>> => Len(s) = Start(r) /\ IsNotice(s[Len(s)])
      BY <1>3, <1>4, <1>5
    <3>2. QED
      BY <1>5, <3>1 DEF IsToken, IsNotice
  <2>2. Len(parts[r]) \in DOMAIN parts[r]
    BY <1>3, <2>1
  <2>3. s[Len(s)] = TokenChunk(parts[r][Len(parts[r])], FALSE)
    BY <1>4, <2>2 DEF Shows
  <2>4. tok = [parts[r][Len(parts[r])] EXCEPT !.pos = @ + 1]
    BY <2>1, NextOfParts
  <2>5. QED
    BY <2>3, <2>4 DEF TokenChunk
<1>6. c.kind \in {"token", "escalating"}
  BY DEF TokenChunk
<1>7. Shows(out'[r], Start(r), Append(parts[r], tok))
  BY <1>2, <1>3, <1>4, ShowsNext
<1> HIDE DEF tok, c
<1>8. TerminalInv(r)' /\ Truth(r)'
  BY <1>1, <1>2, <1>5, <1>6, ChunkSent
<1>9. Len(out'[r]) = Start(r) + Len(parts'[r])
  <2>1. Len(out'[r]) = Len(s) + 1 /\ Len(parts'[r]) = Len(parts[r]) + 1
    BY <1>1, <1>2, <1>3, Appended
  <2>2. QED
    BY <1>3, <1>4, <2>1
<1>10. TierInv(r)'
  <2>1. CASE tier[r] = "default"
    BY <1>1, <1>7, <1>9, <2>1 DEF SentInv, TierInv, Start
  <2>2. CASE tier[r] # "default"
    <3> DEFINE k == Len(FirstAnswer(r)) + 1
    <3>1. Start(r) = k /\ k \in 1..Len(s) /\ 1 \in 1..Len(s)
          /\ 0 + Len(FirstAnswer(r)) <= Len(s) /\ 0 \in Nat
      <4>1. Start(r) = k
        BY <2>2 DEF Start
      <4>2. Len(FirstAnswer(r)) \in Nat /\ Len(parts[r]) \in Nat /\ Len(s) \in Nat
        BY SentTypes
      <4>3. QED
        BY <1>4, <4>1, <4>2, Positions, Zenon
    <3>2. Shows(out'[r], 0, FirstAnswer(r))
      BY <1>1, <1>3, <2>2, <3>1, ShowsAppend DEF SentInv, TierInv
    <3>3. out'[r][k] = s[k] /\ out'[r][1] = s[1]
      BY <1>3, <3>1, Appended
    <3>4. FirstAnswer(r)' = FirstAnswer(r)
      BY <1>1 DEF FirstAnswer
    <3>5. QED
      BY <1>1, <1>7, <1>9, <2>2, <3>1, <3>2, <3>3, <3>4 DEF SentInv, TierInv
  <2>3. QED
    BY <2>1, <2>2
<1>11. LookupInv(r)' /\ ReplayInv(r)' /\ ResultInv(r)' /\ PoolInv(r)'
  BY <1>1 DEF SentInv, LookupInv, ReplayInv, ResultInv, PoolInv
<1>12. QED
  BY <1>1, <1>8, <1>10, <1>11 DEF SentInv

(* The tier goes on without a chunk: the next candidate, the end of the    *)
(* stream, the next checker.                                               *)
LEMMA TierSilent ==
  ASSUME TypeOK, NEW r \in Requests, SentInv(r), Truth(r),
         NextCandidate(r) \/ StreamEnds(r) \/ NextChecker(r)
  PROVE  SentInv(r)' /\ Truth(r)'
<1>1. /\ pc[r] \in {"stream", "assess"} /\ pc'[r] \in {"stream", "assess"}
      /\ tier'[r] = tier[r] /\ parts'[r] = parts[r] /\ out' = out /\ result' = result
      /\ query' = query /\ best' = best
  BY DEF NextCandidate, FailsBeforeFirstToken, Try, StreamEnds, NextChecker, Goto, cacheVars,
         TypeOK, RequestTypeOK
<1>2. TerminalInv(r)' /\ Truth(r)'
  BY <1>1, NothingSent
<1>3. LookupInv(r)' /\ ReplayInv(r)' /\ ResultInv(r)' /\ PoolInv(r)'
  BY <1>1 DEF SentInv, LookupInv, ReplayInv, ResultInv, PoolInv
<1>4. TierInv(r)'
  BY <1>1 DEF SentInv, TierInv, FirstAnswer
<1>5. QED
  BY <1>1, <1>2, <1>3, <1>4 DEF SentInv

(* STREAM_INTERRUPTED, after a token. *)
LEMMA InterruptedSent ==
  ASSUME TypeOK, NEW r \in Requests, SentInv(r), Truth(r), Interrupted(r)
  PROVE  SentInv(r)' /\ Truth(r)'
<1> DEFINE c == QueryError("STREAM_INTERRUPTED")
           s == out[r]
<1>1. /\ pc[r] = "stream" /\ parts[r] # <<>> /\ Close(r, c)
      /\ result' = result /\ query' = query /\ best' = best
  BY DEF Interrupted, cacheVars
<1>2. c \in Chunk /\ c.kind = "error" /\ c.code = "STREAM_INTERRUPTED"
  BY ChunkTypes DEF QueryError, Codes
<1> HIDE DEF c
<1>3. s \in Seq(Chunk) /\ parts[r] \in Seq(Token) /\ out'[r] = Append(s, c)
  BY <1>1, SentTypes, Yielded DEF Close
<1>4. Start(r) \in Nat /\ Len(s) = Start(r) + Len(parts[r]) /\ Shows(s, Start(r), parts[r])
  BY <1>1, TierShape DEF SentInv
<1>5. Len(parts[r]) \in DOMAIN parts[r] /\ Len(s) >= 1 /\ Len(s) \in Nat
  <2>1. Len(parts[r]) \in DOMAIN parts[r] /\ Len(parts[r]) \in Nat /\ Len(parts[r]) >= 1
    BY <1>1, <1>3, LastOf
  <2>2. QED
    BY <1>4, <2>1
<1>6. IsToken(s[Len(s)])
  <2>1. s[Len(s)] = TokenChunk(parts[r][Len(parts[r])], FALSE)
    BY <1>4, <1>5 DEF Shows
  <2>2. QED
    BY <2>1, ChunkKinds
<1>7. ErrorIsTrue(out'[r])
  <2>1. Len(out'[r]) = Len(s) + 1 /\ out'[r][Len(out'[r])] = c /\ Len(s) \in 1..Len(s)
    BY <1>3, <1>5, Appended
  <2>2. Len(out'[r]) - 1 = Len(s) /\ Len(out'[r]) > 1 /\ out'[r][Len(s)] = s[Len(s)]
    BY <1>3, <1>5, <2>1, Appended
  <2>3. QED
    BY <1>2, <1>6, <2>1, <2>2 DEF ErrorIsTrue
<1>8. QED
  BY <1>1, <1>2, <1>7, LastSent

LEMMA Alone ==
  ASSUME NEW s \in Seq(Chunk), Len(s) = 1
  PROVE  s = <<s[1]>>
OBVIOUS

LEMMA BeforeLast ==
  ASSUME NEW s \in Seq(Chunk), NEW c \in Chunk
  PROVE  /\ SubSeq(Append(s, c), 1, Len(Append(s, c)) - 1) = s
         /\ Append(s, c)[Len(Append(s, c))] = c
<1>1. SubSeq(Append(s, c), 1, Len(Append(s, c)) - 1) = s
  OBVIOUS
<1>2. QED
  BY <1>1, Appended

(* A notice and an error whose code is not STREAM_INTERRUPTED. *)
LEMMA ErrorAfterNotice ==
  ASSUME NEW s \in Seq(Chunk), Len(s) = 1, s[1] = EscalationNotice("default tier unavailable"),
         NEW c \in Chunk, c.code = "ALL_TIERS_EXHAUSTED"
  PROVE  ErrorIsTrue(Append(s, c))
<1>1. Append(s, c)[Len(Append(s, c))].code # "STREAM_INTERRUPTED"
  <2>1. Append(s, c)[Len(Append(s, c))] = c
    BY BeforeLast
  <2>2. QED
    BY <2>1
<1>2. SubSeq(Append(s, c), 1, Len(Append(s, c)) - 1) = <<s[1]>>
  BY Alone, BeforeLast, Zenon
<1>3. QED
  BY <1>1, <1>2, Zenon DEF ErrorIsTrue

(* ALL_TIERS_EXHAUSTED, after nothing but the notice. *)
LEMMA ExhaustedSent ==
  ASSUME TypeOK, NEW r \in Requests, SentInv(r), Truth(r), AllTiersExhausted(r)
  PROVE  SentInv(r)' /\ Truth(r)'
<1> DEFINE c == QueryError("ALL_TIERS_EXHAUSTED")
           s == out[r]
           notice == EscalationNotice("default tier unavailable")
<1>1. /\ pc[r] = "stream" /\ parts[r] = <<>> /\ tier[r] = "escalation" /\ result[r] = None
      /\ Close(r, c) /\ result' = result /\ query' = query /\ best' = best
  BY DEF AllTiersExhausted, EscalationExhausted, FailsBeforeFirstToken, cacheVars
<1>2. c \in Chunk /\ c.kind = "error" /\ c.code = "ALL_TIERS_EXHAUSTED"
  BY ChunkTypes DEF QueryError, Codes
<1> HIDE DEF c
<1>3. s \in Seq(Chunk) /\ out'[r] = Append(s, c)
  BY <1>1, SentTypes, Yielded DEF Close
<1>4. Len(s) = 1 /\ s[1] = notice
  <2>1. Len(FirstAnswer(r)) = 0
    BY <1>1, SentTypes, Zenon
  <2>2. Len(parts[r]) = 0
    BY <1>1
  <2>3. Len(s) = (Len(FirstAnswer(r)) + 1) + Len(parts[r])
    BY <1>1, Zenon DEF SentInv, TierInv
  <2>4. s[1] = notice
    BY <1>1, Zenon DEF SentInv, TierInv
  <2>5. Len(FirstAnswer(r)) \in Nat /\ Len(parts[r]) \in Nat
    BY SentTypes
  <2>6. QED
    BY <2>1, <2>2, <2>3, <2>4, <2>5, Positions, Zenon
<1>5. ErrorIsTrue(out'[r])
  BY <1>2, <1>3, <1>4, ErrorAfterNotice
<1>6. QED
  BY <1>1, <1>2, <1>5, LastSent

LEMMA ResultOf ==
  ASSUME NEW r
  PROVE  /\ TierResult(r).answer = parts[r] /\ TierResult(r).model_used = Model(r)
         /\ TierResult(r).escalated = (tier[r] = "escalation")
BY DEF TierResult

(* The model of a candidate is one of its pool. *)
LEMMA FromItsPool ==
  ASSUME TypeOK, RequestInv, NEW r \in Requests, pc[r] = "assess",
         result'[r] = TierResult(r)
  PROVE  PoolInv(r)'
<1>1. idx[r] \in DOMAIN Pool(r) /\ Model(r) = Pool(r)[idx[r]]
  BY DEF RequestInv, ControlInv, Model
<1>2. /\ result'[r].model_used = Model(r)
      /\ Pool(r) = IF result'[r].escalated THEN EscalationPool ELSE DefaultPool
  <2>1. result'[r].model_used = Model(r) /\ (result'[r].escalated <=> tier[r] = "escalation")
    BY ResultOf, Zenon
  <2>2. tier[r] \in {"default", "escalation"}
    BY DEF TypeOK, RequestTypeOK
  <2>3. Pool(r) = IF tier[r] = "escalation" THEN EscalationPool ELSE DefaultPool
    BY <2>2 DEF Pool
  <2>4. QED
    BY <2>1, <2>3, Zenon
<1>3. QED
  BY <1>1, <1>2 DEF PoolInv

(* The answer of the tier becomes the result. *)
LEMMA TakenSent ==
  ASSUME TypeOK, RequestInv, NEW r \in Requests, SentInv(r), Truth(r), pc[r] = "assess",
         result'[r] = TierResult(r), pc'[r] = "caching", out' = out, query' = query, best' = best
  PROVE  SentInv(r)' /\ Truth(r)'
<1> DEFINE s == out[r]
           a == parts[r]
           k == Len(s) - Len(a)
<1>1. TerminalInv(r)' /\ Truth(r)'
  BY NothingSent
<1>2. PoolInv(r)'
  BY FromItsPool
<1>3. /\ Start(r) \in Nat /\ Len(s) = Start(r) + Len(a) /\ Shows(s, Start(r), a)
      /\ Start(r) > 0 => IsNotice(s[Start(r)])
      /\ \A i \in 1..Start(r) - 1 : IsToken(s[i])
  BY TierShape DEF SentInv
<1>4. k = Start(r)
  BY <1>3, SentTypes
<1>5. result'[r].answer = a /\ (result'[r].escalated <=> tier[r] = "escalation")
  BY ResultOf, Zenon
<1>6. ResultInv(r)'
  <2>1. CASE tier[r] = "default"
    <3>1. Start(r) = 0 /\ ~result'[r].escalated
      BY <1>5, <2>1 DEF Start
    <3>2. Len(s) = Len(a) /\ Shows(s, 0, a)
      BY <2>1 DEF SentInv, TierInv
    <3>3. QED
      BY <1>5, <3>1, <3>2 DEF ResultInv
  <2>2. CASE tier[r] = "escalation"
    <3>1. Start(r) >= 1
      BY <2>2, SentTypes DEF Start
    <3>2. IsNotice(s[k]) /\ Shows(s, k, a) /\ k >= 1 /\ \A i \in 1..k - 1 : IsToken(s[i])
      <4>1. Start(r) > 0 /\ 1..k - 1 = 1..Start(r) - 1
        BY <1>3, <1>4, <3>1
      <4>2. QED
        BY <1>3, <1>4, <3>1, <4>1, Zenon
    <3> HIDE DEF k
    <3>3. QED
      BY <1>5, <2>2, <3>2 DEF ResultInv, k
  <2>3. QED
    BY <2>1, <2>2 DEF TypeOK, RequestTypeOK
<1>7. LookupInv(r)' /\ ReplayInv(r)' /\ TierInv(r)'
  BY DEF SentInv, LookupInv, ReplayInv, TierInv
<1>8. QED
  BY <1>1, <1>2, <1>6, <1>7 DEF SentInv

(* The positions of an answer that begins the stream, and of what follows. *)
LEMMA AfterAnswer ==
  ASSUME NEW a \in Seq(Token)
  PROVE  /\ 0 \in Nat /\ 0 + Len(a) <= Len(a) /\ Len(a) + 1 = (Len(a) + 1) + Len(<<>>)
         /\ a = <<>> => Len(a) + 1 = 1
OBVIOUS

(* The notice after the default tier, whether it has answered or not. *)
LEMMA EscalateSent ==
  ASSUME TypeOK, NEW r \in Requests, SentInv(r), Truth(r), pc[r] \in {"stream", "assess"},
         tier[r] = "default", NEW reason \in Reasons, Escalate(r, reason),
         query' = query, best' = best, FirstAnswer(r)' = parts[r], PoolInv(r)',
         IF result'[r] = None THEN reason = "default tier unavailable"
         ELSE ~result'[r].escalated
  PROVE  SentInv(r)' /\ Truth(r)'
<1> DEFINE c == EscalationNotice(reason)
           s == out[r]
           a == parts[r]
<1>1. c \in Chunk /\ IsNotice(c) /\ ~IsToken(c) /\ c.kind \in {"token", "escalating"}
  BY ChunkTypes, ChunkKinds DEF EscalationNotice
<1>2. /\ pc'[r] = "stream" /\ tier'[r] = "escalation" /\ parts'[r] = <<>> /\ Yield(r, c)
  BY DEF Escalate, Goto, Try, TypeOK, RequestTypeOK
<1>3. /\ s \in Seq(Chunk) /\ a \in Seq(Token) /\ out'[r] = Append(s, c)
      /\ Len(a) \in Nat /\ 0 \in Nat
  BY <1>2, SentTypes, Yielded
<1>4. Len(s) = Len(a) /\ 0 + Len(a) <= Len(s) /\ Shows(s, 0, a)
  <2>1. Len(s) = Len(a) /\ Shows(s, 0, a)
    BY DEF SentInv, TierInv
  <2>2. 0 + Len(a) <= Len(a)
    BY <1>3, AfterAnswer, Zenon
  <2>3. QED
    BY <2>1, <2>2, Zenon
<1>5. c = EscalationNotice("default tier unavailable") \/ result'[r] # None
  OBVIOUS
<1>6. a = <<>> \/ result'[r] # None
  BY DEF FirstAnswer
<1> HIDE DEF c
<1>7. TerminalInv(r)' /\ Truth(r)'
  BY <1>1, <1>2, ChunkSent
<1>8. TierInv(r)'
  <2>1. Shows(out'[r], 0, a)
    BY <1>3, <1>4, ShowsAppend
  <2>2. Len(out'[r]) = (Len(a) + 1) + Len(<<>>) /\ out'[r][Len(a) + 1] = c
    <3>1. Len(out'[r]) = Len(a) + 1 /\ out'[r][Len(a) + 1] = c
      <4>1. Len(Append(s, c)) = Len(s) + 1 /\ Append(s, c)[Len(s) + 1] = c
        BY <1>3, Appended
      <4>2. QED
        BY <1>3, <1>4, <4>1, Zenon
    <3>2. Len(a) + 1 = (Len(a) + 1) + Len(<<>>)
      BY <1>3, AfterAnswer, Zenon
    <3>3. QED
      BY <3>1, <3>2, Zenon
  <2> Shows(out'[r], Len(a) + 1, <<>>)
    BY ShowsNothing
  <2>3. IF result'[r] = None THEN out'[r][1] = EscalationNotice("default tier unavailable")
        ELSE ~result'[r].escalated /\ IsNotice(out'[r][Len(a) + 1])
    <3>1. CASE result'[r] = None
      <4>1. Len(a) + 1 = 1
        BY <1>3, <1>6, <3>1, AfterAnswer, Zenon
      <4>2. QED
        BY <1>5, <2>2, <3>1, <4>1, Zenon
    <3>2. CASE result'[r] # None
      BY <1>1, <2>2, <3>2
    <3>3. QED
      BY <3>1, <3>2
  <2>4. QED
    BY <1>2, <2>1, <2>2, <2>3 DEF TierInv
<1>9. LookupInv(r)' /\ ReplayInv(r)' /\ ResultInv(r)'
  BY <1>2 DEF SentInv, LookupInv, ReplayInv, ResultInv
<1>10. QED
  BY <1>2, <1>7, <1>8, <1>9 DEF SentInv

(* An assessment: one of these two. *)
LEMMA AssessedSent ==
  ASSUME TypeOK, RequestInv, NEW r \in Requests, SentInv(r), Truth(r), pc[r] = "assess",
         NEW a \in Assessment, Assessed(r, a)
  PROVE  SentInv(r)' /\ Truth(r)'
<1>1. /\ result'[r] = TierResult(r) /\ query' = query /\ best' = best
      /\ TierResult(r) \in Result /\ TierResult(r) # None
  BY ModelType, NoneIsNoRecord DEF Assessed, cacheVars, TypeOK, RequestTypeOK
<1>2. CASE Goto(r, "caching") /\ UNCHANGED <<tier, idx, parts, out>>
  BY <1>1, <1>2, TakenSent DEF Goto, TypeOK, RequestTypeOK
<1>3. ASSUME tier[r] = "default", NEW reason \in Reasons, Escalate(r, reason)
      PROVE  SentInv(r)' /\ Truth(r)'
  <2>1. result'[r].answer = parts[r] /\ (result'[r].escalated <=> tier[r] = "escalation")
    BY <1>1, ResultOf, Zenon
  <2>2. result'[r] # None /\ FirstAnswer(r)' = parts[r] /\ ~result'[r].escalated
    BY <1>1, <1>3, <2>1 DEF FirstAnswer
  <2>3. PoolInv(r)'
    BY <1>1, FromItsPool
  <2>4. QED
    BY <1>1, <1>3, <2>2, <2>3, EscalateSent
<1>4. QED
  BY <1>2, <1>3 DEF Assessed, Reasons

(* Nothing came of the default tier. *)
LEMMA UnavailableSent ==
  ASSUME TypeOK, NEW r \in Requests, SentInv(r), Truth(r), DefaultExhausted(r)
  PROVE  SentInv(r)' /\ Truth(r)'
<1>1. /\ pc[r] = "stream" /\ parts[r] = <<>> /\ tier[r] = "default"
      /\ Escalate(r, "default tier unavailable")
      /\ query' = query /\ best' = best /\ result' = result
  BY DEF DefaultExhausted, FailsBeforeFirstToken, cacheVars
<1>2. result[r] = None
  BY <1>1 DEF SentInv, TierInv
<1>3. FirstAnswer(r)' = parts[r] /\ PoolInv(r)'
  BY <1>1, <1>2 DEF FirstAnswer, PoolInv
<1>4. QED
  BY <1>1, <1>2, <1>3, EscalateSent DEF Reasons

(* The escalation tier failed, and what the default tier sent is kept. *)
LEMMA KeptSent ==
  ASSUME TypeOK, NEW r \in Requests, SentInv(r), Truth(r), KeepDefaultAnswer(r)
  PROVE  SentInv(r)' /\ Truth(r)'
<1> DEFINE s == out[r]
           a == FirstAnswer(r)
<1>1. /\ pc[r] = "stream" /\ parts[r] = <<>> /\ tier[r] = "escalation" /\ result[r] # None
      /\ pc'[r] = "caching" /\ out' = out /\ result' = result /\ query' = query /\ best' = best
  BY DEF KeepDefaultAnswer, EscalationExhausted, FailsBeforeFirstToken, Goto, cacheVars,
         TypeOK, RequestTypeOK
<1>2. TerminalInv(r)' /\ Truth(r)'
  BY <1>1, NothingSent
<1>3. /\ ~result[r].escalated /\ IsNotice(s[Len(a) + 1]) /\ Shows(s, 0, a)
      /\ Len(s) = (Len(a) + 1) + Len(parts[r])
  BY <1>1, Zenon DEF SentInv, TierInv
<1>4. Len(s) = Len(a) + 1
  <2>1. Len(a) \in Nat /\ Len(parts[r]) = 0
    BY <1>1, SentTypes
  <2>2. QED
    BY <1>3, <2>1
<1>5. a = result[r].answer
  BY <1>1 DEF FirstAnswer
<1>6. ResultInv(r)'
  BY <1>1, <1>3, <1>4, <1>5 DEF ResultInv
<1>7. LookupInv(r)' /\ ReplayInv(r)' /\ TierInv(r)' /\ PoolInv(r)'
  BY <1>1 DEF SentInv, LookupInv, ReplayInv, TierInv, PoolInv
<1>8. QED
  BY <1>1, <1>2, <1>6, <1>7 DEF SentInv

LEMMA TierSent ==
  ASSUME TypeOK, RequestInv, NEW r \in Requests, SentInv(r), Truth(r), StreamTier(r)
  PROVE  SentInv(r)' /\ Truth(r)'
<1>1. ASSUME NEW a \in Assessment, Assess(r, a) PROVE SentInv(r)' /\ Truth(r)'
  BY <1>1, AssessedSent DEF Assess
<1>2. CASE NoChecker(r)
  <2>1. [sure |-> TRUE, needs_escalation |-> FALSE] \in Assessment
    BY DEF Assessment
  <2>2. QED
    BY <1>2, <2>1, AssessedSent DEF NoChecker
<1>3. CASE AssessesNothing(r)
  <2>1. /\ pc[r] = "assess" /\ pc'[r] = "assess_error" /\ result'[r] = TierResult(r)
        /\ out' = out /\ query' = query /\ best' = best
    BY <1>3 DEF AssessesNothing, Goto, cacheVars, TypeOK, RequestTypeOK
  <2>2. PoolInv(r)'
    BY <2>1, FromItsPool
  <2>3. QED
    BY <2>1, <2>2, BreakSent DEF Awaiting, Broken
<1>4. QED
  BY <1>1, <1>2, <1>3, TokenSent, TierSilent, InterruptedSent, ExhaustedSent, UnavailableSent,
     KeptSent
  DEF StreamTier

------------------------------------------------------------------------------
(* _finalize, and what ends a request from outside *)

LEMMA StoreSent ==
  ASSUME TypeOK, NEW r \in Requests, SentInv(r), Truth(r), Store(r)
  PROVE  SentInv(r)' /\ Truth(r)'
<1>1. /\ pc[r] = "caching" /\ pc'[r] = "stored" /\ out' = out /\ result' = result
      /\ query' = query /\ best' = best
  BY DEF Store, Goto, Cache!Put, TypeOK, RequestTypeOK
<1>2. TerminalInv(r)' /\ Truth(r)'
  BY <1>1, NothingSent
<1>3. LookupInv(r)' /\ ReplayInv(r)' /\ TierInv(r)' /\ ResultInv(r)' /\ PoolInv(r)'
  BY <1>1 DEF SentInv, LookupInv, ReplayInv, TierInv, ResultInv, PoolInv
<1>4. QED
  BY <1>1, <1>2, <1>3 DEF SentInv

(* The position before the last n of l chunks. *)
LEMMA Remaining ==
  ASSUME NEW l \in Nat, NEW n \in Nat, NEW k, k = l - n, k >= 1
  PROVE  k \in 1..l /\ l = k + n
OBVIOUS

(* The metadata describes an answer of either tier. *)
LEMMA ResultFinal ==
  ASSUME TypeOK, RequestInv, NEW r \in Requests, SentInv(r), pc[r] = "stored",
         NEW f, f.kind = "final", f.escalated = result[r].escalated
  PROVE  /\ FinalTokens(Append(out[r], f)) = Streamed(result[r].answer)
         /\ IF f.escalated THEN Notices(Append(out[r], f)) # {}
            ELSE Notices(Append(out[r], f)) \subseteq {Len(Append(out[r], f)) - 1}
<1> DEFINE s == out[r]
           a == result[r].answer
           k == Len(s) - Len(a)
<1>1. /\ s \in Seq(Chunk) /\ Len(s) \in Nat /\ result[r] \in Result /\ a \in Seq(Token)
      /\ Len(a) \in Nat
  <2>1. result[r] # None
    BY DEF RequestInv, ControlInv
  <2>2. result[r] \in Result /\ a \in Seq(Token) /\ s \in Seq(Chunk)
    BY <2>1, SentTypes
  <2>3. QED
    BY <2>2
<1>2. CASE result[r].escalated = TRUE
  <2>1. /\ k >= 1 /\ IsNotice(s[k]) /\ Shows(s, k, a)
        /\ \A i \in 1..k - 1 : IsToken(s[i])
    BY <1>2 DEF SentInv, ResultInv
  <2>2. k \in 1..Len(s) /\ Len(s) = k + Len(a)
    BY <1>1, <2>1, Remaining, Zenon
  <2> HIDE DEF k, s, a
  <2>3. Notices(Append(s, f)) # {} /\ FinalTokens(Append(s, f)) = Streamed(a)
    BY <1>1, <1>2, <2>1, <2>2, EscalatedFinal
  <2>4. QED
    BY <1>2, <2>3 DEF s, a
<1>3. CASE result[r].escalated = FALSE
  <2>1. /\ Shows(s, 0, a)
        /\ Len(s) = Len(a) \/ (Len(s) = Len(a) + 1 /\ IsNotice(s[Len(s)]))
    BY <1>3 DEF SentInv, ResultInv
  <2> HIDE DEF s, a
  <2>2. /\ Notices(Append(s, f)) \subseteq {Len(Append(s, f)) - 1}
        /\ FinalTokens(Append(s, f)) = Streamed(a)
    BY <1>1, <1>3, <2>1, DefaultFinal
  <2>3. QED
    BY <1>3, <2>2 DEF s, a
<1>4. QED
  BY <1>1, <1>2, <1>3 DEF Result

LEMMA FinalSent ==
  ASSUME TypeOK, RequestInv, NEW r \in Requests, SentInv(r), Truth(r), Final(r)
  PROVE  SentInv(r)' /\ Truth(r)'
<1> DEFINE f == FinalOf(r)
<1>1. /\ pc[r] = "stored" /\ result' = result /\ query' = query /\ best' = best
  BY DEF Final, cacheVars
<1>2. f \in Chunk /\ Close(r, f)
  BY FinalChunk
<1>3. /\ f.kind = "final" /\ f.cached = FALSE /\ f.escalated = result[r].escalated
      /\ f.model_used = result[r].model_used /\ f.agent_name = agent[r]
  BY DEF FinalOf, QueryMetadata
<1> HIDE DEF f
<1>4. out'[r] = Append(out[r], f) /\ out'[r][Len(out'[r])] = f
  BY <1>2, SentTypes, Yielded, Appended DEF Close
<1>5. /\ FinalTokens(out'[r]) = Streamed(result[r].answer)
      /\ IF f.escalated THEN Notices(out'[r]) # {}
         ELSE Notices(out'[r]) \subseteq {Len(out'[r]) - 1}
  BY <1>1, <1>3, <1>4, ResultFinal
<1>6. /\ result[r] # None /\ Routed(r)
      /\ IsAnswerTo(result[r].answer, query[r], result[r].model_used)
  BY <1>1 DEF RequestInv, ControlInv, AnswerInv
<1>7. PICK n \in Lengths : result[r].answer = Complete(query'[r], f.model_used, n)
  BY <1>1, <1>3, <1>6 DEF IsAnswerTo
<1>8. LET pool == IF f.escalated THEN EscalationPool ELSE DefaultPool IN
      \E i \in DOMAIN pool : pool[i] = f.model_used
  BY <1>3, <1>6 DEF SentInv, PoolInv
<1>9. SemanticRoute[query'[r]] # None => f.agent_name = SemanticRoute[query'[r]]
  BY <1>1, <1>3, <1>6 DEF Routed
<1>10. FinalIsTrue(r)'
  BY <1>3, <1>4, <1>5, <1>7, <1>8, <1>9 DEF FinalIsTrue
<1>11. QED
  BY <1>1, <1>2, <1>3, <1>10, LastSent

LEMMA FinalizeSent ==
  ASSUME TypeOK, RequestInv, NEW r \in Requests, SentInv(r), Truth(r), Finalize(r) \/ Cancel(r)
  PROVE  SentInv(r)' /\ Truth(r)'
<1>1. CASE StoreRaises(r)
  <2>1. /\ pc[r] \in Awaiting /\ pc'[r] \in Broken /\ out' = out /\ result' = result
        /\ query' = query /\ best' = best
    BY <1>1 DEF StoreRaises, Goto, Awaiting, Broken, cacheVars, TypeOK, RequestTypeOK
  <2>2. QED
    BY <2>1, BreakSent
<1>2. CASE Cancel(r)
  <2>1. /\ pc[r] \in Awaiting /\ pc'[r] \in Broken /\ out' = out /\ result' = result
        /\ query' = query /\ best'[r] \in {best[r], None}
    BY <1>2 DEF Cancel, Goto, Cache!Abandon, Broken, cacheVars, TypeOK, RequestTypeOK,
                Cache!TypeOK
  <2>2. QED
    BY <2>1, BreakSent
<1>3. QED
  BY <1>1, <1>2, StoreSent, FinalSent DEF Finalize

------------------------------------------------------------------------------
(* The invariant is inductive. *)

(* A request that nothing happens to. *)
LEMMA SentFrame ==
  ASSUME NEW s \in Requests, SentInv(s), Truth(s), SameRequest(s), best'[s] = best[s],
         query' = query
  PROVE  SentInv(s)' /\ Truth(s)'
<1> USE DEF SameRequest
<1>1. LookupInv(s)' /\ ReplayInv(s)'
  BY DEF SentInv, LookupInv, ReplayInv, Cached
<1>2. TierInv(s)'
  BY DEF SentInv, TierInv, FirstAnswer
<1>3. ResultInv(s)' /\ PoolInv(s)' /\ TerminalInv(s)'
  BY DEF SentInv, ResultInv, PoolInv, TerminalInv
<1>4. (FinalIsTrue(s) => FinalIsTrue(s)') /\ (EndsWith(s, "final") <=> EndsWith(s, "final")')
      /\ (EndsWith(s, "error") <=> EndsWith(s, "error")')
  BY DEF FinalIsTrue, EndsWith
<1>5. Truth(s)'
  BY <1>4 DEF Truth
<1>6. QED
  BY <1>1, <1>2, <1>3, <1>5 DEF SentInv

(* A crash breaks what is awaiting and leaves the rest. *)
LEMMA CrashSent ==
  ASSUME TypeOK, NEW r \in Requests, SentInv(r), Truth(r), Crash, query' = query
  PROVE  SentInv(r)' /\ Truth(r)'
<1>1. out' = out /\ result' = result /\ best'[r] = None
  BY DEF Crash, Cache!Restart
<1>2. CASE pc[r] \in Awaiting
  <2>1. pc'[r] \in Broken
    BY <1>2 DEF Crash, Broken
  <2>2. QED
    BY <1>1, <1>2, <2>1, BreakSent
<1>3. CASE pc[r] \notin Awaiting
  <2>1. pc'[r] = pc[r]
    BY <1>3 DEF Crash
  <2>2. TerminalInv(r)'
    BY <1>1, <2>1 DEF SentInv, TerminalInv
  <2>3. LookupInv(r)' /\ ReplayInv(r)' /\ TierInv(r)' /\ ResultInv(r)' /\ PoolInv(r)'
    BY <1>1, <1>3, <2>1 DEF SentInv, LookupInv, ReplayInv, TierInv, ResultInv, PoolInv, Awaiting
  <2>4. (FinalIsTrue(r) => FinalIsTrue(r)') /\ (EndsWith(r, "final") <=> EndsWith(r, "final")')
        /\ (EndsWith(r, "error") <=> EndsWith(r, "error")')
    BY <1>1 DEF FinalIsTrue, EndsWith
  <2>5. Truth(r)'
    BY <1>1, <2>4 DEF Truth
  <2>6. QED
    BY <1>1, <2>1, <2>2, <2>3, <2>5 DEF SentInv
<1>4. QED
  BY <1>2, <1>3

(* What was sent is true, of every request. *)
StreamsAreTrue == StreamInv /\ \A r \in Requests : Truth(r)

LEMMA StreamsStep ==
  TypeOK /\ RequestInv /\ CachedAnswersAreWhole /\ StreamsAreTrue /\ [Next]_vars
    => StreamsAreTrue'
<1> SUFFICES ASSUME TypeOK, RequestInv, CachedAnswersAreWhole, StreamsAreTrue, [Next]_vars,
                    NEW s \in Requests
             PROVE  SentInv(s)' /\ Truth(s)'
  BY DEF StreamsAreTrue, StreamInv
<1>1. SentInv(s) /\ Truth(s)
  BY DEF StreamsAreTrue, StreamInv
<1>2. query' = query
  BY CacheStep, QueryConstant
<1>3. ASSUME NEW r \in Requests, RequestStep(r) PROVE SentInv(s)' /\ Truth(s)'
  <2>1. CASE r = s
    BY <1>1, <1>3, <2>1, ReceiveSent, ScanSent, LookupSent, RouteSent, TierSent, FinalizeSent
    DEF RequestStep, Progress
  <2>2. CASE r # s
    BY <1>1, <1>2, <1>3, <2>2, OtherRequests, SentFrame
  <2>3. QED
    BY <2>1, <2>2
<1>4. CASE RedisChanges \/ UNCHANGED vars
  <2>1. SameRequest(s) /\ best'[s] = best[s]
    BY <1>4 DEF RedisChanges, vars, requestVars, cacheVars, SameRequest, Cache!RedisStops,
                Cache!RedisStarts, Cache!Flush
  <2>2. QED
    BY <1>1, <1>2, <2>1, SentFrame
<1>5. QED
  BY <1>1, <1>2, <1>3, <1>4, NextSteps, CrashSent

LEMMA StreamsInit == Init => StreamsAreTrue
<1> SUFFICES ASSUME Init, NEW r \in Requests PROVE SentInv(r) /\ Truth(r)
  BY DEF StreamsAreTrue, StreamInv
<1>1. pc[r] = "idle" /\ out[r] = <<>> /\ result[r] = None /\ best[r] = None
  BY DEF Init, Cache!Init
<1>2. DOMAIN out[r] = {}
  BY <1>1
<1>3. SentInv(r)
  BY <1>1, <1>2 DEF SentInv, LookupInv, ReplayInv, TierInv, ResultInv, PoolInv, TerminalInv
<1>4. Truth(r)
  BY <1>1, <1>2 DEF Truth, NotMixed, EndsWith
<1>5. QED
  BY <1>3, <1>4

LEMMA StreamsTrue == Spec => []StreamsAreTrue
BY StreamsInit, StreamsStep, SupervisorInvariant, CacheHoldsWholeAnswers, PTL DEF Spec

(***************************************************************************)
(* What a request has sent follows from the rest of its state: the default *)
(* tier's answer so far, or that answer, the notice and the escalation     *)
(* tier's so far, or the words replayed so far; one terminal chunk ends it.*)
(***************************************************************************)
THEOREM StreamInvariant == Spec => []StreamInv
<1>1. StreamsAreTrue => StreamInv
  BY DEF StreamsAreTrue
<1>2. QED
  BY <1>1, StreamsTrue, PTL

(***************************************************************************)
(* The tokens that no notice separates are of one answer, each sent once   *)
(* and in order, however candidates, checkers and callers fail.            *)
(***************************************************************************)
THEOREM SegmentsUnmixed == Spec => []SegmentsAreNotMixed
<1>1. StreamsAreTrue => SegmentsAreNotMixed
  BY DEF StreamsAreTrue, Truth, SegmentsAreNotMixed
<1>2. QED
  BY <1>1, StreamsTrue, PTL

(***************************************************************************)
(* The metadata describes the stream it closes: its model gave the whole   *)
(* of the answer, in the tier it claims; a cached answer is of a query at  *)
(* least as similar as the threshold.                                      *)
(***************************************************************************)
THEOREM FinalsAreTrue == Spec => []FinalDescribesStream
<1>1. StreamsAreTrue => FinalDescribesStream
  BY DEF StreamsAreTrue, Truth, FinalDescribesStream
<1>2. QED
  BY <1>1, StreamsTrue, PTL

(***************************************************************************)
(* STREAM_INTERRUPTED comes right after a token, and ALL_TIERS_EXHAUSTED   *)
(* after nothing but the notice that the default tier was unavailable.     *)
(***************************************************************************)
THEOREM ErrorsAreTrue == Spec => []ErrorsTellTheTruth
<1>1. StreamsAreTrue => ErrorsTellTheTruth
  BY DEF StreamsAreTrue, Truth, ErrorsTellTheTruth
<1>2. QED
  BY <1>1, StreamsTrue, PTL

------------------------------------------------------------------------------
(* Where an answer is lost *)

(* Tokens after the last notice are an answer. *)
LEMMA AnswerAfter ==
  ASSUME NEW s \in Seq(Chunk), NEW k \in Nat, k < Len(s), IsToken(s[k + 1]),
         \A i \in (k + 1)..Len(s) : ~IsNotice(s[i]),
         NEW f, ~IsNotice(f)
  PROVE  ClientAnswer(Append(s, f)) # {}
<1> DEFINE t == Append(s, f)
<1>1. Len(s) \in Nat /\ k + 1 \in 1..Len(s)
  OBVIOUS
<1>2. k + 1 \in DOMAIN t /\ t[k + 1] = s[k + 1]
  BY <1>1, Appended
<1>3. Notices(t) = Notices(s)
  BY NoticesAppend
<1>4. ASSUME NEW j \in Notices(s) PROVE j < k + 1
  <2>1. j \in 1..Len(s) /\ IsNotice(s[j])
    BY <1>1 DEF Notices
  <2>2. QED
    BY <1>1, <2>1
<1>5. k + 1 \in ClientAnswer(t)
  BY <1>2, <1>3, <1>4 DEF ClientAnswer
<1>6. QED
  BY <1>5

LEMMA AnswerShown ==
  ASSUME NEW s \in Seq(Chunk), NEW a \in Seq(Token), a # <<>>, NEW k \in Nat,
         Len(s) = k + Len(a), Shows(s, k, a), NEW f, ~IsNotice(f)
  PROVE  ClientAnswer(Append(s, f)) # {}
<1>1. Len(a) \in Nat /\ Len(a) >= 1 /\ Len(s) \in Nat
  OBVIOUS
<1>2. k + Len(a) <= Len(s) /\ k < Len(s) /\ k + 1 \in (k + 1)..(k + Len(a))
  BY <1>1
<1>3. \A i \in (k + 1)..(k + Len(a)) : IsToken(s[i]) /\ ~IsNotice(s[i])
  BY <1>2, ShownSegment
<1>4. QED
  BY <1>2, <1>3, AnswerAfter

(* The actions that send a last chunk. *)
LEMMA Closing ==
  ASSUME TypeOK, NEW r \in Requests, RequestStep(r)
  PROVE  /\ pc[r] # "closed"
         /\ pc'[r] = "closed" =>
              ReplayFinal(r) \/ Interrupted(r) \/ AllTiersExhausted(r) \/ Final(r)
<1> USE DEF TypeOK, RequestTypeOK, Goto
<1>1. CASE Receive(r) \/ \E k \in Keys : Scan(r, k)
  BY <1>1 DEF Receive, Scan, requestVars
<1>2. CASE Lookup(r)
  BY <1>2 DEF Lookup, Scan, LookupHit, LookupRaises, ReplayWord, ReplayFinal, requestVars
<1>3. CASE Route(r)
  BY <1>3 DEF Route, RouteByEmbedding, RouteUnsure, LLMRoute, LLMRouteFails
<1>4. CASE StreamTier(r)
  <2>1. ASSUME NEW a, pc[r] = "assess", Assessed(r, a) PROVE pc'[r] # "closed"
    BY <2>1 DEF Assessed, Escalate
  <2>2. QED
    BY <1>4, <2>1 DEF StreamTier, SendToken, NextCandidate, FailsBeforeFirstToken, Interrupted,
      StreamEnds, Assess, AssessesNothing, NextChecker, NoChecker, DefaultExhausted, Escalate, AllTiersExhausted,
      EscalationExhausted, KeepDefaultAnswer
<1>5. CASE Finalize(r)
  BY <1>5 DEF Finalize, Store, StoreRaises, Final
<1>6. CASE Cancel(r)
  BY <1>6 DEF Cancel, Awaiting
<1>7. QED
  BY <1>1, <1>2, <1>3, <1>4, <1>5, <1>6 DEF RequestStep, Progress

AnswerOrCause(r) ==
  EndsWith(r, "final") /\ ClientAnswer(out[r]) = {} =>
    \/ Len(out[r]) - 1 \in Notices(out[r])
    \/ result[r] # None /\ result[r].answer = <<>>

(* A replay is an answer: even the empty one is a blank word. *)
LEMMA ReplayLeavesAnswer ==
  ASSUME TypeOK, RequestInv, NEW r \in Requests, SentInv(r), ReplayFinal(r)
  PROVE  AnswerOrCause(r)'
<1> DEFINE w == Words(Cached(r).answer)
           f == QueryMetadata(Cached(r).agent_name, Cached(r).model_used, TRUE, FALSE, "cache")
           s == out[r]
<1>1. pc[r] = "replay" /\ idx[r] = Len(w) /\ Yield(r, f)
  BY DEF ReplayFinal, Close
<1>2. ~IsNotice(f)
  BY DEF QueryMetadata, IsNotice
<1> HIDE DEF f
<1>3. s \in Seq(Chunk) /\ out'[r] = Append(s, f)
  BY <1>1, SentTypes, Yielded
<1>4. Len(w) >= 1
  <2>1. Cached(r).answer \in Seq(Token)
    BY <1>1, CachedType, AnswerType DEF CacheValue
  <2>2. QED
    BY <2>1 DEF Words
<1> HIDE DEF w
<1>5. Len(s) = Len(w) /\ \A i \in DOMAIN s : s[i] = TokenChunk(w[i], TRUE)
  BY <1>1 DEF SentInv, ReplayInv, w
<1>6. Len(s) \in Nat /\ 0 < Len(s) /\ DOMAIN s = 1..Len(s) /\ 0 \in Nat /\ 0 + 1 = 1
  BY <1>3, <1>4, <1>5
<1>7. \A i \in (0 + 1)..Len(s) : IsToken(s[i]) /\ ~IsNotice(s[i])
  BY <1>5, <1>6, ChunkKinds
<1>8. IsToken(s[0 + 1])
  BY <1>6, <1>7
<1>9. ClientAnswer(out'[r]) # {}
  BY <1>2, <1>3, <1>6, <1>7, <1>8, AnswerAfter
<1>10. QED
  BY <1>9 DEF AnswerOrCause

(* So is a result, unless it is empty or the notice follows it. *)
LEMMA ResultLeavesAnswer ==
  ASSUME TypeOK, RequestInv, NEW r \in Requests, SentInv(r), Final(r)
  PROVE  AnswerOrCause(r)'
<1> DEFINE f == FinalOf(r)
           s == out[r]
           a == result[r].answer
           k == Len(s) - Len(a)
<1>1. pc[r] = "stored" /\ result' = result /\ result[r] # None /\ Yield(r, f)
  BY FinalChunk DEF Final, Close, RequestInv, ControlInv
<1>2. ~IsNotice(f)
  BY DEF FinalOf, QueryMetadata, IsNotice
<1> HIDE DEF f
<1>3. /\ s \in Seq(Chunk) /\ a \in Seq(Token) /\ out'[r] = Append(s, f)
      /\ result[r] \in Result
  BY <1>1, SentTypes, Yielded
<1>4. Len(s) \in Nat /\ Len(a) \in Nat
  BY <1>3
<1>5. CASE a = <<>>
  BY <1>1, <1>5 DEF AnswerOrCause
<1>6. CASE a # <<>> /\ result[r].escalated = TRUE
  <2>1. k >= 1 /\ Shows(s, k, a)
    BY <1>1, <1>6 DEF SentInv, ResultInv
  <2>2. k \in Nat /\ Len(s) = k + Len(a)
    <3>1. k \in 1..Len(s) /\ Len(s) = k + Len(a)
      BY <1>4, <2>1, Remaining, Zenon
    <3>2. QED
      BY <1>4, <3>1
  <2> HIDE DEF s, a, k
  <2>3. ClientAnswer(Append(s, f)) # {}
    BY <1>2, <1>3, <1>6, <2>1, <2>2, AnswerShown
  <2>4. QED
    BY <1>3, <2>3 DEF AnswerOrCause
<1>7. CASE a # <<>> /\ result[r].escalated = FALSE
  <2>1. Shows(s, 0, a) /\ (Len(s) # Len(a) => IsNotice(s[Len(s)]) /\ Len(s) = Len(a) + 1)
    BY <1>1, <1>7 DEF SentInv, ResultInv
  <2> HIDE DEF s, a, k
  <2>2. CASE Len(s) = Len(a)
    <3>1. Len(s) = 0 + Len(a) /\ 0 \in Nat
      BY <1>4, <2>2
    <3>2. ClientAnswer(Append(s, f)) # {}
      BY <1>2, <1>3, <1>7, <2>1, <3>1, AnswerShown
    <3>3. QED
      BY <1>3, <3>2 DEF AnswerOrCause
  <2>3. CASE Len(s) # Len(a)
    <3>1. Len(s) \in DOMAIN s /\ Len(Append(s, f)) - 1 = Len(s)
      BY <1>3, <1>4, <2>1, <2>3, Appended
    <3>2. Len(Append(s, f)) - 1 \in Notices(Append(s, f))
      BY <1>2, <1>3, <2>1, <2>3, <3>1, NoticesAppend DEF Notices
    <3>3. QED
      BY <1>3, <3>2 DEF AnswerOrCause
  <2>4. QED
    BY <2>2, <2>3
<1>8. QED
  BY <1>3, <1>5, <1>6, <1>7 DEF Result

LEMMA ExplainedStep ==
  TypeOK /\ RequestInv /\ StreamsAreTrue /\ StreamsAreTrue' /\ LostAnswersAreExplained
    /\ [Next]_vars => LostAnswersAreExplained'
<1> SUFFICES ASSUME TypeOK, RequestInv, StreamsAreTrue, StreamsAreTrue', LostAnswersAreExplained,
                    [Next]_vars, NEW s \in Requests
             PROVE  AnswerOrCause(s)'
  BY DEF LostAnswersAreExplained, AnswerOrCause
<1>1. AnswerOrCause(s) /\ SentInv(s)
  BY DEF LostAnswersAreExplained, AnswerOrCause, StreamsAreTrue, StreamInv
<1>2. ASSUME out'[s] = out[s], result'[s] = result[s] PROVE AnswerOrCause(s)'
  BY <1>1, <1>2 DEF AnswerOrCause, EndsWith
<1>3. ASSUME RequestStep(s) PROVE AnswerOrCause(s)'
  <2>1. CASE ReplayFinal(s)
    BY <1>1, <2>1, ReplayLeavesAnswer
  <2>2. CASE Final(s)
    BY <1>1, <2>2, ResultLeavesAnswer
  <2>3. CASE ~ReplayFinal(s) /\ ~Final(s)
    <3>1. CASE pc'[s] # "closed"
      <4>1. out'[s] \in Seq(Chunk)
        BY InvStep DEF TypeOK, RequestTypeOK
      <4>2. ASSUME out'[s] # <<>> PROVE Len(out'[s]) \in DOMAIN out'[s]
        BY <4>1, <4>2
      <4>3. TerminalInv(s)'
        BY DEF StreamsAreTrue, StreamInv, SentInv
      <4>4. ~EndsWith(s, "final")'
        BY <3>1, <4>2, <4>3 DEF TerminalInv, EndsWith
      <4>5. QED
        BY <4>4 DEF AnswerOrCause
    <3>2. ASSUME NEW code, Yield(s, QueryError(code)) PROVE AnswerOrCause(s)'
      <4>1. out'[s] = Append(out[s], QueryError(code)) /\ out[s] \in Seq(Chunk)
        BY <3>2, Yielded, SentTypes
      <4>2. out'[s][Len(out'[s])] = QueryError(code)
        BY <4>1, Appended
      <4>3. ~EndsWith(s, "final")'
        BY <4>2 DEF EndsWith, QueryError
      <4>4. QED
        BY <4>3 DEF AnswerOrCause
    <3>3. CASE Interrupted(s) \/ AllTiersExhausted(s)
      BY <3>2, <3>3 DEF Interrupted, AllTiersExhausted, Close
    <3>4. QED
      BY <1>3, <2>3, <3>1, <3>3, Closing
  <2>4. QED
    BY <2>1, <2>2, <2>3
<1>4. ASSUME NEW r \in Requests, r # s, RequestStep(r) PROVE AnswerOrCause(s)'
  BY <1>2, <1>4, OtherRequests DEF SameRequest
<1>5. CASE Crash \/ RedisChanges \/ UNCHANGED vars
  BY <1>2, <1>5 DEF Crash, RedisChanges, vars, requestVars
<1>6. QED
  BY <1>3, <1>4, <1>5, NextSteps

(***************************************************************************)
(* A final leaves a client without an answer only after the notice of an   *)
(* escalation that failed, or because its model answered nothing.          *)
(***************************************************************************)
THEOREM LossesExplained == Spec => []LostAnswersAreExplained
<1>1. Init => LostAnswersAreExplained
  BY DEF Init, LostAnswersAreExplained, EndsWith
<1>2. QED
  BY <1>1, ExplainedStep, StreamsTrue, SupervisorInvariant, PTL DEF Spec
==============================================================================
