----------------------- MODULE RequestPipelineProofs ------------------------
(***************************************************************************)
(* The request pipeline, for any number of concurrent requests, of buffers *)
(* and of resolve calls.                                                   *)
(***************************************************************************)
EXTENDS RequestPipeline, SequenceTheorems, TLAPS

-----------------------------------------------------------------------------
(* What a step does to the record of its request.                          *)

LEMMA FieldValues ==
  /\ 0 \in 0..MaxResolves /\ Own \in Bodies
  /\ <<>> \in Seq(Bodies) /\ <<>> \in Seq(Writers)
  /\ \A n \in 0..MaxResolves : n < MaxResolves => n + 1 \in 0..MaxResolves
BY PipelineAssumption DEF Own, Bodies

LEMMA FieldNames ==
  /\ {"idle", "hook", "match", "csrf", "action", "load", "head", "headed", "render", "stream",
      "error", "boundary", "write", "after", "release", "done"} \subseteq Phases
  /\ {"none", "wrote", "plain", "safe"} \subseteq Errors
  /\ {"none", "data", "shell", "page"} \subseteq Uses
  /\ {"sent", "broken"} \subseteq Writers
BY DEF Phases, Errors, Uses, UserErrors, Writers

(* The answers of a request: one more, or the last one broken off. *)
LEMMA Answering ==
  ASSUME NEW ans \in Seq(Writers)
  PROVE  /\ Append(ans, "sent") \in Seq(Writers) /\ Append(ans, "sent") # <<>>
         /\ \A sent \in {<<>>, <<"broken">>} : ans \o sent \in Seq(Writers)
         /\ AllBroken(ans) =>
              /\ OneWhole(ans) /\ OneWhole(Append(ans, "sent"))
              /\ \A sent \in {<<>>, <<"broken">>} : AllBroken(ans \o sent)
<1>0. "sent" \in Writers /\ "broken" \in Writers
  BY FieldNames
<1>1. Append(ans, "sent") \in Seq(Writers) /\ Append(ans, "sent") # <<>>
  BY <1>0
<1>2. ans \o <<>> \in Seq(Writers) /\ ans \o <<"broken">> \in Seq(Writers)
  BY <1>0
<1>3. AllBroken(ans) => OneWhole(ans) /\ OneWhole(Append(ans, "sent"))
  BY <1>0 DEF AllBroken, OneWhole
<1>4. AllBroken(ans) => AllBroken(ans \o <<>>) /\ AllBroken(ans \o <<"broken">>)
  BY <1>0 DEF AllBroken
<1>5. QED
  BY <1>1, <1>2, <1>3, <1>4

LEMMA BrokenOff ==
  ASSUME NEW ans \in Seq(Writers), ans # <<>>
  PROVE  LET brk == [ans EXCEPT ![Len(ans)] = "broken"]
         IN  brk \in Seq(Writers) /\ (OneWhole(ans) => AllBroken(brk))
<1>0. "broken" \in Writers
  BY FieldNames
<1>a. Len(ans) \in 1..Len(ans)
  OBVIOUS
<1> DEFINE brk == [ans EXCEPT ![Len(ans)] = "broken"]
<1>1. /\ brk \in Seq(Writers) /\ Len(brk) = Len(ans)
      /\ \A n \in 1..Len(ans) : brk[n] = IF n = Len(ans) THEN "broken" ELSE ans[n]
  BY <1>0, <1>a, ExceptSeq
<1>2. OneWhole(ans) => AllBroken(brk)
  <2>1. \A n \in 1..Len(ans) : n = Len(ans) \/ n \in 1..(Len(ans) - 1)
    OBVIOUS
  <2> HIDE DEF brk
  <2>2. QED
    BY <1>1, <2>1 DEF OneWhole, AllBroken
<1>3. QED
  BY <1>1, <1>2

(* The request's state becomes s. *)
Becomes(r, s) == req' = [req EXCEPT ![r] = s]

LEMMA Replaced ==
  ASSUME TypeOK, NEW r \in Requests, NEW s \in RequestState, Becomes(r, s)
  PROVE  /\ req' \in [Requests -> RequestState] /\ req'[r] = s
         /\ \A q \in Requests : q # r => req'[q] = req[q]
BY DEF TypeOK, Becomes

(* The effect of a step of the hook, of resolve up to the load chain, and   *)
(* of the end of a request, on a state s that becomes t.                    *)
HookEffect(r, t) ==
  LET s == req[r]
  IN  /\ t.buf = s.buf /\ t.pageBuf = s.pageBuf /\ t.answers = s.answers
      /\ t.at # "write" => t.result = s.result
      /\ t.at \notin {"hook", "release"} => t.after = s.after
      /\ \/ /\ s.at = "idle" /\ t.at = "hook" /\ t.after \in {"none", "queued"}
            /\ t.resps = s.resps /\ t.err = s.err
         \/ /\ s.at = "hook" /\ s.err # "wrote" /\ t.err # "wrote"
            /\ \/ t.at \in {"match", "error"}
               \/ t.at = "write" /\ t.result \in {s.result} \cup Returnable(r)
               \/ t.at = "release" /\ t.after = "dropped"
         \/ s.at = "hook" /\ s.err = "wrote" /\ t.at = "after" /\ t.err = "none"

ResolveEffect(s, t) ==
  /\ s.at \in {"match", "csrf", "action", "load"}
  /\ t.at \in {"csrf", "action", "load", "hook", "error"}
  /\ t.buf = s.buf /\ t.pageBuf = s.pageBuf /\ t.result = s.result /\ t.after = s.after
  /\ \/ /\ t.answers = s.answers
        /\ t.err = s.err \/ t.err \in UserErrors
        /\ t.at = "hook" => t.err \in UserErrors \/ t.resps = Append(s.resps, Own)
     \/ t.at = "hook" /\ t.err = "wrote" /\ t.answers = Append(s.answers, "sent")
     \/ /\ t.at = "error" /\ t.err = "safe"
        /\ \E sent \in {<<>>, <<"broken">>} : t.answers = s.answers \o sent

LEMMA HookShape ==
  ASSUME TypeOK, NEW r \in Requests, HookStep(r)
  PROVE  NoPool /\ \E t \in RequestState : Becomes(r, t) /\ HookEffect(r, t)
<1>0. req \in [Requests -> RequestState] /\ req[r] \in RequestState
  BY DEF TypeOK
<1>1. CASE Start(r)
  <2>1. PICK a \in {"none", "queued"} : req' = [req EXCEPT ![r].at = "hook", ![r].after = a]
    BY <1>1 DEF Start
  <2> DEFINE t == [req[r] EXCEPT !.at = "hook", !.after = a]
  <2>2. t \in RequestState
    BY <1>0, FieldNames DEF RequestState
  <2>3. Becomes(r, t)
    BY <1>0, <2>1 DEF Becomes
  <2>4. HookEffect(r, t)
    BY <1>0, <1>1 DEF HookEffect, Start, RequestState
  <2>5. QED
    BY <1>1, <2>2, <2>3, <2>4 DEF Start
<1>2. CASE CallResolve(r)
  <2> DEFINE t == [req[r] EXCEPT !.at = "match", !.resolves = @ + 1, !.err = "none"]
  <2>1. t \in RequestState
    BY <1>0, <1>2, FieldNames, FieldValues DEF RequestState, CallResolve
  <2>2. Becomes(r, t)
    BY <1>0, <1>2 DEF Becomes, CallResolve
  <2>3. HookEffect(r, t)
    BY <1>0, <1>2 DEF HookEffect, CallResolve, InHook, RequestState
  <2>4. QED
    BY <1>2, <2>1, <2>2, <2>3 DEF CallResolve
<1>3. CASE ShortCircuit(r)
  <2> DEFINE t == [req[r] EXCEPT !.resps = <<>>, !.resolves = 0, !.err = "none", !.at = "write"]
  <2>1. t \in RequestState
    BY <1>0, FieldNames, FieldValues DEF RequestState
  <2>2. Becomes(r, t)
    BY <1>0, <1>3 DEF Becomes, ShortCircuit, HookReturned
  <2>3. HookEffect(r, t)
    BY <1>0, <1>3 DEF HookEffect, ShortCircuit, InHook, RequestState
  <2>4. QED
    BY <1>3, <2>1, <2>2, <2>3 DEF ShortCircuit
<1>4. CASE ReturnResponse(r)
  <2>1. PICK res \in Returnable(r) :
          req' = [HookReturned(r) EXCEPT ![r].at = "write", ![r].result = res]
    BY <1>4 DEF ReturnResponse
  <2>2. res \in Bodies
    BY <1>0, <2>1 DEF Returnable, RequestState
  <2> DEFINE t == [req[r] EXCEPT !.resps = <<>>, !.resolves = 0, !.err = "none", !.at = "write",
                                 !.result = res]
  <2>3. t \in RequestState
    BY <1>0, <2>2, FieldNames, FieldValues DEF RequestState
  <2>4. Becomes(r, t)
    BY <1>0, <2>1 DEF Becomes, HookReturned
  <2>5. HookEffect(r, t)
    BY <1>0, <1>4, <2>1 DEF HookEffect, ReturnResponse, InHook, RequestState
  <2>6. QED
    BY <1>4, <2>3, <2>4, <2>5 DEF ReturnResponse
<1>5. CASE ReturnNothing(r)
  <2> DEFINE t == [req[r] EXCEPT !.resps = <<>>, !.resolves = 0, !.err = "none",
                                 !.at = "release", !.after = "dropped"]
  <2>1. t \in RequestState
    BY <1>0, FieldNames, FieldValues DEF RequestState
  <2>2. Becomes(r, t)
    BY <1>0, <1>5 DEF Becomes, ReturnNothing, HookReturned
  <2>3. HookEffect(r, t)
    BY <1>0, <1>5 DEF HookEffect, ReturnNothing, InHook, RequestState
  <2>4. QED
    BY <1>5, <2>1, <2>2, <2>3 DEF ReturnNothing
<1>6. CASE ReturnError(r) /\ req[r].err = "wrote"
  <2> DEFINE t == [req[r] EXCEPT !.resps = <<>>, !.resolves = 0, !.err = "none", !.at = "after"]
  <2>1. t \in RequestState
    BY <1>0, FieldNames, FieldValues DEF RequestState
  <2>2. Becomes(r, t)
    BY <1>0, <1>6 DEF Becomes, HookReturned, ReturnError, ReturnErrorAfter
  <2>3. HookEffect(r, t)
    BY <1>0, <1>6 DEF HookEffect, ReturnError, ReturnErrorAfter, RequestState
  <2>4. QED
    BY <1>6, <2>1, <2>2, <2>3 DEF ReturnError, ReturnErrorAfter
<1>7. CASE ReturnError(r) /\ req[r].err # "wrote"
  <2>1. PICK e \in UserErrors : req' = [HookReturned(r) EXCEPT ![r].at = "error", ![r].err = e]
    BY <1>7 DEF ReturnError, ReturnErrorAfter
  <2> DEFINE t == [req[r] EXCEPT !.resps = <<>>, !.resolves = 0, !.err = "none", !.at = "error",
                                 !.err = e]
  <2>2. e \in Errors /\ e # "wrote"
    BY <2>1 DEF Errors, UserErrors
  <2>3. t \in RequestState
    BY <1>0, <2>2, FieldNames, FieldValues DEF RequestState
  <2>4. Becomes(r, t)
    BY <1>0, <2>1 DEF Becomes, HookReturned
  <2>5. HookEffect(r, t)
    BY <1>0, <1>7, <2>2 DEF HookEffect, ReturnError, ReturnErrorAfter, RequestState
  <2>6. QED
    BY <1>7, <2>3, <2>4, <2>5 DEF ReturnError, ReturnErrorAfter
<1>8. QED
  BY <1>1, <1>2, <1>3, <1>4, <1>5, <1>6, <1>7 DEF HookStep

(* resolve hands a Response or an error back to the hook, or a page on to   *)
(* the load chain.                                                          *)
LEMMA ResolvedShape ==
  ASSUME TypeOK, NEW r \in Requests, req[r].at \in {"match", "csrf", "action", "load"},
         \/ Resolved(r, Own) \/ (\E e \in UserErrors : Failed(r, e)) \/ ToPage(r)
  PROVE  NoPool /\ \E t \in RequestState : Becomes(r, t) /\ ResolveEffect(req[r], t)
<1>0. req \in [Requests -> RequestState] /\ req[r] \in RequestState
  BY DEF TypeOK
<1>1. CASE Resolved(r, Own)
  <2> DEFINE t == [req[r] EXCEPT !.at = "hook", !.use = "none", !.resps = Append(@, Own)]
  <2>1. Append(req[r].resps, Own) \in Seq(Bodies)
    BY <1>0, FieldValues DEF RequestState
  <2>2. t \in RequestState
    BY <1>0, <2>1, FieldNames DEF RequestState
  <2>3. Becomes(r, t)
    BY <1>0, <1>1 DEF Becomes, Resolved
  <2>4. ResolveEffect(req[r], t)
    BY <1>0 DEF ResolveEffect, RequestState
  <2>5. QED
    BY <1>1, <2>2, <2>3, <2>4 DEF Resolved
<1>2. ASSUME NEW e \in UserErrors, Failed(r, e)
      PROVE  NoPool /\ \E t \in RequestState : Becomes(r, t) /\ ResolveEffect(req[r], t)
  <2> DEFINE t == [req[r] EXCEPT !.at = "hook", !.use = "none", !.err = e]
  <2>1. e \in Errors
    BY DEF Errors
  <2>2. t \in RequestState
    BY <1>0, <2>1, FieldNames DEF RequestState
  <2>3. Becomes(r, t)
    BY <1>0, <1>2 DEF Becomes, Failed
  <2>4. ResolveEffect(req[r], t)
    BY <1>0 DEF ResolveEffect, RequestState
  <2>5. QED
    BY <1>2, <2>2, <2>3, <2>4 DEF Failed
<1>3. CASE ToPage(r) /\ ~Resolved(r, Own)
  <2>1. PICK u \in {"shell", "page"} : req' = [req EXCEPT ![r].at = "load", ![r].use = u] /\ NoPool
    BY <1>3 DEF ToPage
  <2> DEFINE t == [req[r] EXCEPT !.at = "load", !.use = u]
  <2>2. t \in RequestState
    BY <1>0, <2>1, FieldNames DEF RequestState
  <2>3. Becomes(r, t)
    BY <1>0, <2>1 DEF Becomes
  <2>4. ResolveEffect(req[r], t)
    BY <1>0 DEF ResolveEffect, RequestState
  <2>5. QED
    BY <2>1, <2>2, <2>3, <2>4
<1>4. QED
  BY <1>1, <1>2, <1>3

LEMMA MatchShape ==
  ASSUME TypeOK, NEW r \in Requests, Match(r) \/ MatchServer(r) \/ MatchNoPage(r)
  PROVE  NoPool /\ \E t \in RequestState : Becomes(r, t) /\ ResolveEffect(req[r], t)
<1>0. req \in [Requests -> RequestState] /\ req[r] \in RequestState
  BY DEF TypeOK
<1>1. CASE Match(r)
  <2>1. PICK to \in {"slash", "load", "csrf"} :
          req' = [req EXCEPT ![r].matched = TRUE,
                             ![r].at = IF to = "slash" THEN "hook" ELSE to,
                             ![r].resps = IF to = "slash" THEN Append(@, Own) ELSE @,
                             ![r].use = IF to = "load" THEN "data" ELSE "none"]
    BY <1>1 DEF Match
  <2>a. PICK p \in {"hook", "load", "csrf"}, rs \in {req[r].resps, Append(req[r].resps, Own)},
             u \in {"data", "none"} :
          /\ p = "hook" => rs = Append(req[r].resps, Own)
          /\ req' = [req EXCEPT ![r].matched = TRUE, ![r].at = p, ![r].resps = rs, ![r].use = u]
    <3>1. CASE to = "slash"
      BY <1>0, <2>1, <3>1
    <3>2. CASE to = "load"
      BY <1>0, <2>1, <3>2 DEF RequestState
    <3>3. CASE to = "csrf"
      BY <1>0, <2>1, <3>3 DEF RequestState
    <3>4. QED
      BY <2>1, <3>1, <3>2, <3>3
  <2> DEFINE t == [req[r] EXCEPT !.matched = TRUE, !.at = p, !.resps = rs, !.use = u]
  <2>2. rs \in Seq(Bodies)
    BY <1>0, <2>a, FieldValues DEF RequestState
  <2>3. t \in RequestState
    BY <1>0, <2>2, FieldNames DEF RequestState
  <2>4. Becomes(r, t)
    BY <1>0, <2>a DEF Becomes
  <2>5. ResolveEffect(req[r], t)
    BY <1>0, <1>1, <2>a DEF ResolveEffect, RequestState, Match
  <2>6. QED
    BY <1>1, <2>3, <2>4, <2>5 DEF Match
<1>2. CASE MatchServer(r)
  <2>1. CASE req' = [req EXCEPT ![r].matched = TRUE, ![r].at = "hook", ![r].err = "wrote",
                                ![r].answers = Append(@, "sent")]
    <3> DEFINE t == [req[r] EXCEPT !.matched = TRUE, !.at = "hook", !.err = "wrote",
                                   !.answers = Append(@, "sent")]
    <3>1. Append(req[r].answers, "sent") \in Seq(Writers)
      BY <1>0, FieldNames DEF RequestState
    <3>2. t \in RequestState
      BY <1>0, <3>1, FieldNames DEF RequestState
    <3>3. Becomes(r, t)
      BY <1>0, <2>1 DEF Becomes
    <3>4. ResolveEffect(req[r], t)
      BY <1>0, <1>2 DEF ResolveEffect, RequestState, MatchServer
    <3>5. QED
      BY <1>2, <3>2, <3>3, <3>4 DEF MatchServer
  <2>2. ASSUME NEW sent \in {<<>>, <<"broken">>},
               req' = [req EXCEPT ![r].matched = TRUE, ![r].at = "error", ![r].err = "safe",
                                  ![r].answers = @ \o sent]
        PROVE  NoPool /\ \E t \in RequestState : Becomes(r, t) /\ ResolveEffect(req[r], t)
    <3> DEFINE t == [req[r] EXCEPT !.matched = TRUE, !.at = "error", !.err = "safe",
                                   !.answers = @ \o sent]
    <3>0. req[r].answers \in Seq(Writers)
      BY <1>0 DEF RequestState
    <3>1. req[r].answers \o sent \in Seq(Writers)
      BY <3>0, Answering
    <3>2. t \in RequestState
      BY <1>0, <3>1, FieldNames DEF RequestState
    <3>3. Becomes(r, t)
      BY <1>0, <2>2 DEF Becomes
    <3>4. ResolveEffect(req[r], t)
      BY <1>0, <1>2 DEF ResolveEffect, RequestState, MatchServer
    <3>5. QED
      BY <1>2, <3>2, <3>3, <3>4 DEF MatchServer
  <2>3. QED
    BY <1>2, <2>1, <2>2 DEF MatchServer
<1>3. CASE MatchNoPage(r)
  <2> DEFINE t == [req[r] EXCEPT !.matched = TRUE, !.at = "hook", !.err = "safe"]
  <2>1. t \in RequestState
    BY <1>0, FieldNames DEF RequestState
  <2>2. Becomes(r, t)
    BY <1>0, <1>3 DEF Becomes, MatchNoPage
  <2>3. ResolveEffect(req[r], t)
    BY <1>0, <1>3 DEF ResolveEffect, RequestState, MatchNoPage, UserErrors
  <2>4. QED
    BY <1>3, <2>1, <2>2, <2>3 DEF MatchNoPage
<1>4. QED
  BY <1>1, <1>2, <1>3

LEMMA ResolveShape ==
  ASSUME TypeOK, NEW r \in Requests, ResolveStep(r)
  PROVE  NoPool /\ \E t \in RequestState : Becomes(r, t) /\ ResolveEffect(req[r], t)
<1>0. req \in [Requests -> RequestState] /\ req[r] \in RequestState
  BY DEF TypeOK
<1>1. CASE NoMatch(r) \/ Action(r) \/ LoadFails(r) \/ DataReturns(r)
  <2>1. /\ req[r].at \in {"match", "csrf", "action", "load"}
        /\ Resolved(r, Own) \/ (\E e \in UserErrors : Failed(r, e)) \/ ToPage(r)
    BY <1>1 DEF NoMatch, Action, LoadFails, DataReturns, UserErrors
  <2>2. QED
    BY <2>1, ResolvedShape
<1>2. CASE Csrf(r)
  <2>1. CASE Resolved(r, Own) \/ ToPage(r)
    BY <1>2, <2>1, ResolvedShape DEF Csrf
  <2>2. CASE req' = [req EXCEPT ![r].at = "action"] /\ NoPool
    <3> DEFINE t == [req[r] EXCEPT !.at = "action"]
    <3>1. t \in RequestState
      BY <1>0, FieldNames DEF RequestState
    <3>2. Becomes(r, t)
      BY <1>0, <2>2 DEF Becomes
    <3>3. ResolveEffect(req[r], t)
      BY <1>0, <1>2 DEF ResolveEffect, RequestState, Csrf
    <3>4. QED
      BY <2>2, <3>1, <3>2, <3>3
  <2>3. QED
    BY <1>2, <2>1, <2>2 DEF Csrf
<1>3. CASE UserPanics(r)
  <2> DEFINE t == [req[r] EXCEPT !.at = "error", !.err = "safe", !.use = "none"]
  <2>1. t \in RequestState
    BY <1>0, FieldNames DEF RequestState
  <2>2. Becomes(r, t)
    BY <1>0, <1>3 DEF Becomes, UserPanics
  <2>3. ResolveEffect(req[r], t)
    BY <1>0, <1>3 DEF ResolveEffect, RequestState, UserPanics, UserErrors
  <2>4. QED
    BY <1>3, <2>1, <2>2, <2>3 DEF UserPanics
<1>4. QED
  BY <1>1, <1>2, <1>3, MatchShape DEF ResolveStep

(* The effect of a step that takes a buffer b, and of one that gives the    *)
(* scratch buffer back.                                                     *)
AcquireEffect(s, t, b) ==
  /\ t.buf = b /\ t.pageBuf = s.pageBuf /\ t.result = s.result /\ t.after = s.after
  /\ t.resolves = s.resolves /\ t.err = s.err
  /\ \/ s.at \in {"load", "headed"} /\ t.at \in {"head", "render"} /\ t.answers = s.answers
     \/ s.at \in {"load", "headed"} /\ t.at = "stream" /\ t.answers = Append(s.answers, "sent")
     \/ s.at = "error" /\ t.at = "boundary" /\ t.answers = s.answers

DropEffect(s, t) ==
  /\ t.buf = NoBuf /\ t.pageBuf = s.pageBuf /\ t.result = s.result
  /\ t.at # "release" => t.after = s.after
  /\ \/ s.at = "head" /\ t.at = "headed" /\ t.err = s.err /\ t.answers = s.answers
     \/ s.at \in {"head", "render"} /\ t.at \in {"hook", "error"} /\ t.err = "safe" /\ t.answers = s.answers
     \/ /\ s.at = "render" /\ t.at = "hook" /\ t.err = s.err /\ t.answers = s.answers
        /\ t.resps = Append(s.resps, Own)
     \/ s.at = "stream" /\ t.at = "hook" /\ t.err = "wrote" /\ t.answers = s.answers
     \/ /\ s.at = "stream" /\ t.at \in {"hook", "error"} /\ t.err = "safe"
        /\ t.answers = [s.answers EXCEPT ![Len(s.answers)] = "broken"]
     \/ s.at = "boundary" /\ t.at = "after" /\ t.err = "none" /\ t.answers = Append(s.answers, "sent")
     \/ /\ s.at \in {"error", "boundary", "after"} /\ t.at = "release" /\ t.err = "none"
        /\ t.after = "dropped" /\ t.answers = s.answers

LEMMA AnswerErrorShape ==
  ASSUME TypeOK, NEW r \in Requests, req' = AnswerError(r)
  PROVE  Becomes(r, [req[r] EXCEPT !.resps = <<>>, !.resolves = 0, !.err = "none", !.at = "after",
                                   !.buf = NoBuf, !.answers = Append(@, "sent")])
<1>0. req \in [Requests -> RequestState] /\ req[r] \in RequestState
  BY DEF TypeOK
<1> DEFINE h == [req[r] EXCEPT !.resps = <<>>, !.resolves = 0, !.err = "none"]
           H == [req EXCEPT ![r] = h]
<1>1. HookReturned(r) = H
  BY <1>0 DEF HookReturned
<1>2. h \in RequestState /\ h.answers = req[r].answers
  BY <1>0, FieldNames, FieldValues DEF RequestState
<1> HIDE DEF h
<1>3. H \in [Requests -> RequestState] /\ H[r] = h
  BY <1>0, <1>2
<1>4. [req EXCEPT ![r] = [h EXCEPT !.at = "after", !.buf = NoBuf, !.answers = Append(@, "sent")]]
        = [H EXCEPT ![r] = [h EXCEPT !.at = "after", !.buf = NoBuf, !.answers = Append(@, "sent")]]
  BY <1>0
<1> HIDE DEF H
<1>5. req' = [H EXCEPT ![r] = [h EXCEPT !.at = "after", !.buf = NoBuf, !.answers = Append(@, "sent")]]
  BY <1>1, <1>3 DEF AnswerError
<1>6. QED
  BY <1>4, <1>5 DEF Becomes, h

LEMMA AcquireShape ==
  ASSUME TypeOK, NEW r \in Requests,
         BeginHead(r) \/ BeginRender(r) \/ BeginStream(r) \/ BeginBoundary(r)
  PROVE  \E b \in Buffers : Acquire(r, b) /\ \E t \in RequestState : Becomes(r, t) /\ AcquireEffect(req[r], t, b)
<1>0. req \in [Requests -> RequestState] /\ req[r] \in RequestState
  BY DEF TypeOK
<1>1. CASE BeginHead(r)
  <2>1. PICK b \in Buffers : Acquire(r, b) /\ req' = [req EXCEPT ![r].at = "head", ![r].buf = b]
    BY <1>1 DEF BeginHead
  <2> DEFINE t == [req[r] EXCEPT !.at = "head", !.buf = b]
  <2>2. t \in RequestState
    BY <1>0, FieldNames DEF RequestState
  <2>3. Becomes(r, t)
    BY <1>0, <2>1 DEF Becomes
  <2>4. AcquireEffect(req[r], t, b)
    BY <1>0, <1>1 DEF AcquireEffect, RequestState, BeginHead
  <2>5. QED
    BY <2>1, <2>2, <2>3, <2>4
<1>2. CASE BeginRender(r)
  <2>1. PICK b \in Buffers : Acquire(r, b) /\ req' = [req EXCEPT ![r].at = "render", ![r].buf = b]
    BY <1>2 DEF BeginRender
  <2> DEFINE t == [req[r] EXCEPT !.at = "render", !.buf = b]
  <2>2. t \in RequestState
    BY <1>0, FieldNames DEF RequestState
  <2>3. Becomes(r, t)
    BY <1>0, <2>1 DEF Becomes
  <2>4. AcquireEffect(req[r], t, b)
    BY <1>0, <1>2 DEF AcquireEffect, RequestState, BeginRender
  <2>5. QED
    BY <2>1, <2>2, <2>3, <2>4
<1>3. CASE BeginStream(r)
  <2>1. PICK b \in Buffers :
          /\ Acquire(r, b)
          /\ req' = [req EXCEPT ![r].at = "stream", ![r].buf = b, ![r].answers = Append(@, "sent")]
    BY <1>3 DEF BeginStream
  <2> DEFINE t == [req[r] EXCEPT !.at = "stream", !.buf = b, !.answers = Append(@, "sent")]
  <2>2. Append(req[r].answers, "sent") \in Seq(Writers)
    BY <1>0, FieldNames DEF RequestState
  <2>3. t \in RequestState
    BY <1>0, <2>2, FieldNames DEF RequestState
  <2>4. Becomes(r, t)
    BY <1>0, <2>1 DEF Becomes
  <2>5. AcquireEffect(req[r], t, b)
    BY <1>0, <1>3 DEF AcquireEffect, RequestState, BeginStream
  <2>6. QED
    BY <2>1, <2>3, <2>4, <2>5
<1>4. CASE BeginBoundary(r)
  <2>1. PICK b \in Buffers : Acquire(r, b) /\ req' = [req EXCEPT ![r].at = "boundary", ![r].buf = b]
    BY <1>4 DEF BeginBoundary
  <2> DEFINE t == [req[r] EXCEPT !.at = "boundary", !.buf = b]
  <2>2. t \in RequestState
    BY <1>0, FieldNames DEF RequestState
  <2>3. Becomes(r, t)
    BY <1>0, <2>1 DEF Becomes
  <2>4. AcquireEffect(req[r], t, b)
    BY <1>0, <1>4 DEF AcquireEffect, RequestState, BeginBoundary
  <2>5. QED
    BY <2>1, <2>2, <2>3, <2>4
<1>5. QED
  BY <1>1, <1>2, <1>3, <1>4

LEMMA DropShape ==
  ASSUME TypeOK, NEW r \in Requests, AnswersSoFar(r),
         \/ FinishHead(r) \/ RenderFails(r) \/ FinishShell(r) \/ FinishStream(r)
         \/ FinishBoundary(r) \/ Abort(r)
  PROVE  Release({req[r].buf}) /\ \E t \in RequestState : Becomes(r, t) /\ DropEffect(req[r], t)
<1>0. req \in [Requests -> RequestState] /\ req[r] \in RequestState /\ req[r].answers \in Seq(Writers)
  BY DEF TypeOK, RequestState
<1>1. CASE FinishHead(r)
  <2> DEFINE t == [req[r] EXCEPT !.at = "headed", !.buf = NoBuf]
  <2>1. t \in RequestState
    BY <1>0, FieldNames DEF RequestState
  <2>2. Becomes(r, t)
    BY <1>0, <1>1 DEF Becomes, FinishHead
  <2>3. DropEffect(req[r], t)
    BY <1>0, <1>1 DEF DropEffect, RequestState, FinishHead
  <2>4. QED
    BY <1>1, <2>1, <2>2, <2>3 DEF FinishHead
<1>2. CASE RenderFails(r)
  <2>1. PICK to \in {"hook", "error"} :
          req' = [req EXCEPT ![r].at = to, ![r].err = "safe", ![r].buf = NoBuf, ![r].use = "none"]
    BY <1>2 DEF RenderFails
  <2> DEFINE t == [req[r] EXCEPT !.at = to, !.err = "safe", !.buf = NoBuf, !.use = "none"]
  <2>2. t \in RequestState
    BY <1>0, FieldNames DEF RequestState
  <2>3. Becomes(r, t)
    BY <1>0, <2>1 DEF Becomes
  <2>4. DropEffect(req[r], t)
    BY <1>0, <1>2 DEF DropEffect, RequestState, RenderFails
  <2>5. QED
    BY <1>2, <2>2, <2>3, <2>4 DEF RenderFails
<1>3. CASE FinishShell(r)
  <2> DEFINE t == [req[r] EXCEPT !.at = "hook", !.use = "none", !.buf = NoBuf, !.resps = Append(@, Own)]
  <2>1. Append(req[r].resps, Own) \in Seq(Bodies)
    BY <1>0, FieldValues DEF RequestState
  <2>2. t \in RequestState
    BY <1>0, <2>1, FieldNames DEF RequestState
  <2>3. Becomes(r, t)
    BY <1>0, <1>3 DEF Becomes, FinishShell
  <2>4. DropEffect(req[r], t)
    BY <1>0, <1>3 DEF DropEffect, RequestState, FinishShell
  <2>5. QED
    BY <1>3, <2>2, <2>3, <2>4 DEF FinishShell
<1>4. CASE FinishStream(r)
  <2>1. CASE req' = [req EXCEPT ![r].at = "hook", ![r].err = "wrote", ![r].buf = NoBuf, ![r].use = "none"]
    <3> DEFINE t == [req[r] EXCEPT !.at = "hook", !.err = "wrote", !.buf = NoBuf, !.use = "none"]
    <3>1. t \in RequestState
      BY <1>0, FieldNames DEF RequestState
    <3>2. Becomes(r, t)
      BY <1>0, <2>1 DEF Becomes
    <3>3. DropEffect(req[r], t)
      BY <1>0, <1>4 DEF DropEffect, RequestState, FinishStream
    <3>4. QED
      BY <1>4, <3>1, <3>2, <3>3 DEF FinishStream
  <2>2. ASSUME NEW to \in {"hook", "error"},
               req' = [req EXCEPT ![r].at = to, ![r].err = "safe", ![r].buf = NoBuf,
                                  ![r].use = "none",
                                  ![r].answers = [@ EXCEPT ![Len(@)] = "broken"]]
        PROVE  Release({req[r].buf}) /\ \E t \in RequestState : Becomes(r, t) /\ DropEffect(req[r], t)
    <3> DEFINE brk == [req[r].answers EXCEPT ![Len(req[r].answers)] = "broken"]
    <3> DEFINE t == [req[r] EXCEPT !.at = to, !.err = "safe", !.buf = NoBuf, !.use = "none",
                                   !.answers = brk]
    <3>1. req[r].answers # <<>>
      BY <1>4 DEF FinishStream, AnswersSoFar, AnswerOut
    <3>2. brk \in Seq(Writers)
      BY <1>0, <3>1, BrokenOff
    <3>3. req' = [req EXCEPT ![r].at = to, ![r].err = "safe", ![r].buf = NoBuf,
                             ![r].use = "none", ![r].answers = brk]
      BY <1>0, <2>2 DEF RequestState
    <3> HIDE DEF brk
    <3>4. t \in RequestState
      BY <1>0, <3>2, FieldNames DEF RequestState
    <3>5. Becomes(r, t)
      BY <1>0, <3>3 DEF Becomes
    <3>6. DropEffect(req[r], t)
      BY <1>0, <1>4 DEF DropEffect, RequestState, FinishStream, brk
    <3>7. QED
      BY <1>4, <3>4, <3>5, <3>6 DEF FinishStream
  <2>3. QED
    BY <1>4, <2>1, <2>2 DEF FinishStream
<1>5. CASE FinishBoundary(r)
  <2> DEFINE t == [req[r] EXCEPT !.resps = <<>>, !.resolves = 0, !.err = "none", !.at = "after",
                                 !.buf = NoBuf, !.answers = Append(@, "sent")]
  <2>1. Append(req[r].answers, "sent") \in Seq(Writers)
    BY <1>0, FieldNames DEF RequestState
  <2>2. t \in RequestState
    BY <1>0, <2>1, FieldNames, FieldValues DEF RequestState
  <2>3. Becomes(r, t)
    BY <1>5, AnswerErrorShape DEF FinishBoundary
  <2>4. DropEffect(req[r], t)
    BY <1>0, <1>5 DEF DropEffect, RequestState, FinishBoundary
  <2>5. QED
    BY <1>5, <2>2, <2>3, <2>4 DEF FinishBoundary
<1>6. CASE Abort(r)
  <2> DEFINE t == [req[r] EXCEPT !.resps = <<>>, !.resolves = 0, !.err = "none", !.at = "release",
                                 !.buf = NoBuf, !.after = "dropped"]
  <2>1. t \in RequestState
    BY <1>0, FieldNames, FieldValues DEF RequestState
  <2>2. Becomes(r, t)
    BY <1>0, <1>6 DEF Becomes, Abort, HookReturned
  <2>3. DropEffect(req[r], t)
    BY <1>0, <1>6 DEF DropEffect, RequestState, Abort
  <2>4. QED
    BY <1>6, <2>1, <2>2, <2>3 DEF Abort
<1>7. QED
  BY <1>1, <1>2, <1>3, <1>4, <1>5, <1>6

(* The steps at the end of a request that leave the pool alone. *)
EndEffect(s, t) ==
  /\ t.buf = s.buf /\ t.pageBuf = s.pageBuf /\ t.err # "wrote"
  /\ \/ /\ s.at \in {"error", "write"} /\ t.at = "after" /\ t.after = s.after
        /\ t.answers = Append(s.answers, "sent")
        /\ IF s.at = "write" THEN t.result = Own ELSE t.result = s.result
     \/ /\ s.at = "after" /\ t.at = "release" /\ t.answers = s.answers /\ t.result = s.result
        /\ t.after = IF s.after = "queued" THEN "ran" ELSE s.after

LEMMA EndShape ==
  ASSUME TypeOK, NEW r \in Requests, ScratchInUse(r), AnswersSoFar(r),
         RespondPlain(r) \/ WriteResponse(r) \/ DrainAfter(r)
  PROVE  NoPool /\ \E t \in RequestState : Becomes(r, t) /\ EndEffect(req[r], t)
<1>0. req \in [Requests -> RequestState] /\ req[r] \in RequestState /\ req[r].answers \in Seq(Writers)
  BY DEF TypeOK, RequestState
<1>1. CASE RespondPlain(r)
  <2> DEFINE t == [req[r] EXCEPT !.resps = <<>>, !.resolves = 0, !.err = "none", !.at = "after",
                                 !.buf = NoBuf, !.answers = Append(@, "sent")]
  <2>1. Append(req[r].answers, "sent") \in Seq(Writers)
    BY <1>0, FieldNames
  <2>2. t \in RequestState
    BY <1>0, <2>1, FieldNames, FieldValues DEF RequestState
  <2>3. Becomes(r, t)
    BY <1>1, AnswerErrorShape DEF RespondPlain
  <2>4. req[r].buf = NoBuf
    BY <1>1 DEF ScratchInUse, RespondPlain
  <2>5. EndEffect(req[r], t)
    BY <1>0, <1>1, <2>4 DEF EndEffect, RequestState, RespondPlain
  <2>6. QED
    BY <1>1, <2>2, <2>3, <2>5 DEF RespondPlain
<1>2. CASE WriteResponse(r)
  <2> DEFINE t == [req[r] EXCEPT !.at = "after", !.answers = Append(@, "sent"), !.result = Own]
  <2>1. Append(req[r].answers, "sent") \in Seq(Writers)
    BY <1>0, FieldNames
  <2>2. t \in RequestState
    BY <1>0, <2>1, FieldNames, FieldValues DEF RequestState
  <2>3. Becomes(r, t)
    BY <1>0, <1>2 DEF Becomes, WriteResponse
  <2>4. req[r].err # "wrote"
    BY <1>2 DEF AnswersSoFar, WriteResponse
  <2>5. EndEffect(req[r], t)
    BY <1>0, <1>2, <2>4 DEF EndEffect, RequestState, WriteResponse
  <2>6. QED
    BY <1>2, <2>2, <2>3, <2>5 DEF WriteResponse
<1>3. CASE DrainAfter(r)
  <2> DEFINE a == IF req[r].after = "queued" THEN "ran" ELSE req[r].after
             t == [req[r] EXCEPT !.at = "release", !.after = a]
  <2>1. a \in {"none", "queued", "ran", "dropped"}
    BY <1>0 DEF RequestState
  <2>2. req' = [req EXCEPT ![r].at = "release", ![r].after = a]
    BY <1>0, <1>3 DEF DrainAfter, RequestState
  <2>3. req[r].err # "wrote"
    BY <1>3 DEF AnswersSoFar, DrainAfter
  <2> HIDE DEF a
  <2>4. t \in RequestState
    BY <1>0, <2>1, FieldNames DEF RequestState
  <2>5. Becomes(r, t)
    BY <1>0, <2>2 DEF Becomes
  <2>6. EndEffect(req[r], t)
    BY <1>0, <1>3, <2>3 DEF EndEffect, RequestState, DrainAfter, a
  <2>7. QED
    BY <1>3, <2>4, <2>5, <2>6 DEF DrainAfter
<1>4. QED
  BY <1>1, <1>2, <1>3

(* renderPage keeps its buffer; the end of the request gives it back. *)
PageEffect(s, t) ==
  /\ s.at = "render" /\ t.at = "hook" /\ t.err = s.err /\ t.answers = s.answers /\ t.after = s.after
  /\ t.buf = NoBuf /\ t.pageBuf = s.buf /\ t.result = s.result
  /\ t.resps = Append(s.resps, [buf |-> s.buf, gen |-> s.resolves])

DoneEffect(s, t) ==
  /\ s.at = "release" /\ t.at = "done" /\ t.err = s.err /\ t.answers = s.answers
  /\ t.after = s.after /\ t.buf = s.buf /\ t.pageBuf = NoBuf /\ t.result = s.result

LEMMA PageShape ==
  ASSUME TypeOK, NEW r \in Requests, FinishPage(r)
  PROVE  Release({req[r].pageBuf}) /\ \E t \in RequestState : Becomes(r, t) /\ PageEffect(req[r], t)
<1>0. req \in [Requests -> RequestState] /\ req[r] \in RequestState
  BY DEF TypeOK
<1> DEFINE res == [buf |-> req[r].buf, gen |-> req[r].resolves]
           t == [req[r] EXCEPT !.at = "hook", !.use = "none", !.buf = NoBuf,
                               !.pageBuf = req[r].buf, !.resps = Append(@, res)]
<1>1. res \in Bodies
  BY <1>0 DEF Bodies, RequestState
<1>2. Append(req[r].resps, res) \in Seq(Bodies)
  BY <1>0, <1>1 DEF RequestState
<1>3. req' = [req EXCEPT ![r].at = "hook", ![r].use = "none", ![r].buf = NoBuf,
                         ![r].pageBuf = req[r].buf, ![r].resps = Append(@, res)]
  BY DEF FinishPage
<1> HIDE DEF res
<1>4. t \in RequestState
  BY <1>0, <1>2, FieldNames DEF RequestState
<1>5. Becomes(r, t)
  BY <1>0, <1>3 DEF Becomes
<1>6. PageEffect(req[r], t)
  BY <1>0 DEF PageEffect, RequestState, FinishPage, res
<1>7. QED
  BY <1>4, <1>5, <1>6 DEF FinishPage

LEMMA DoneShape ==
  ASSUME TypeOK, NEW r \in Requests, Finish(r)
  PROVE  Release({req[r].pageBuf}) /\ \E t \in RequestState : Becomes(r, t) /\ DoneEffect(req[r], t)
<1>0. req \in [Requests -> RequestState] /\ req[r] \in RequestState
  BY DEF TypeOK
<1> DEFINE t == [req[r] EXCEPT !.at = "done", !.pageBuf = NoBuf, !.matched = FALSE]
<1>1. t \in RequestState
  BY <1>0, FieldNames DEF RequestState
<1>2. Becomes(r, t)
  BY <1>0 DEF Becomes, Finish
<1>3. DoneEffect(req[r], t)
  BY <1>0 DEF DoneEffect, RequestState, Finish
<1>4. QED
  BY <1>1, <1>2, <1>3 DEF Finish

-----------------------------------------------------------------------------
(* The request's own part of the invariant.                                *)

LEMMA LocalStep ==
  ASSUME TypeOK, NEW r \in Requests, ScratchInUse(r), AnswersSoFar(r),
         NEW t \in RequestState, Becomes(r, t),
         \/ HookEffect(r, t) \/ ResolveEffect(req[r], t)
         \/ \E b \in Buffers : AcquireEffect(req[r], t, b)
         \/ DropEffect(req[r], t) \/ EndEffect(req[r], t)
         \/ PageEffect(req[r], t) \/ DoneEffect(req[r], t)
  PROVE  ScratchInUse(r)' /\ AnswersSoFar(r)'
<1>0. req'[r] = t /\ req[r].answers \in Seq(Writers) /\ NoBuf \notin Buffers
  BY Replaced, PipelineAssumption DEF TypeOK, RequestState
<1>1. CASE HookEffect(r, t)
  <2>1. ScratchInUse(r)'
    BY <1>0, <1>1 DEF ScratchInUse, HookEffect
  <2>2. AnswersSoFar(r)'
    BY <1>0, <1>1, Answering DEF AnswersSoFar, AnswerOut, HookEffect
  <2>3. QED
    BY <2>1, <2>2
<1>2. CASE ResolveEffect(req[r], t)
  <2>1. ScratchInUse(r)'
    BY <1>0, <1>2 DEF ScratchInUse, ResolveEffect
  <2>2. AnswersSoFar(r)'
    BY <1>0, <1>2, Answering DEF AnswersSoFar, AnswerOut, ResolveEffect, UserErrors
  <2>3. QED
    BY <2>1, <2>2
<1>3. ASSUME NEW b \in Buffers, AcquireEffect(req[r], t, b)
      PROVE  ScratchInUse(r)' /\ AnswersSoFar(r)'
  <2>1. ScratchInUse(r)'
    BY <1>0, <1>3 DEF ScratchInUse, AcquireEffect
  <2>2. AnswersSoFar(r)'
    BY <1>0, <1>3, Answering DEF AnswersSoFar, AnswerOut, AcquireEffect
  <2>3. QED
    BY <2>1, <2>2
<1>4. CASE DropEffect(req[r], t)
  <2>1. ScratchInUse(r)'
    BY <1>0, <1>4 DEF ScratchInUse, DropEffect
  <2>2. req[r].at = "stream" => req[r].answers # <<>>
    BY DEF AnswersSoFar, AnswerOut
  <2>3. AnswersSoFar(r)'
    BY <1>0, <1>4, <2>2, Answering, BrokenOff DEF AnswersSoFar, AnswerOut, DropEffect
  <2>4. QED
    BY <2>1, <2>3
<1>5. CASE EndEffect(req[r], t)
  <2>1. ScratchInUse(r)'
    BY <1>0, <1>5 DEF ScratchInUse, EndEffect
  <2>2. AnswersSoFar(r)'
    BY <1>0, <1>5, Answering DEF AnswersSoFar, AnswerOut, EndEffect
  <2>3. QED
    BY <2>1, <2>2
<1>6. CASE PageEffect(req[r], t) \/ DoneEffect(req[r], t)
  <2>1. ScratchInUse(r)'
    BY <1>0, <1>6 DEF ScratchInUse, PageEffect, DoneEffect
  <2>2. AnswersSoFar(r)'
    BY <1>0, <1>6, Answering DEF AnswersSoFar, AnswerOut, PageEffect, DoneEffect
  <2>3. QED
    BY <2>1, <2>2
<1>7. QED
  BY <1>1, <1>2, <1>3, <1>4, <1>5, <1>6

-----------------------------------------------------------------------------
(* The pool.                                                               *)

(* Held(q) of the requests that do not move, and what the buffers of the    *)
(* one that does are.                                                       *)
LEMMA OthersHeld ==
  ASSUME TypeOK, NEW r \in Requests, NEW t \in RequestState, Becomes(r, t)
  PROVE  /\ \A q \in Requests : q # r => Held(q)' = Held(q)
         /\ Held(r)' = {t.buf, t.pageBuf} \ {NoBuf}
         /\ \A q \in Requests : Held(q) \subseteq Buffers /\ Held(q)' \subseteq Buffers
<1>1. /\ \A q \in Requests : q # r => Held(q)' = Held(q)
      /\ Held(r)' = {t.buf, t.pageBuf} \ {NoBuf}
  BY Replaced DEF Held
<1>2. \A s \in RequestState : {s.buf, s.pageBuf} \ {NoBuf} \subseteq Buffers
  BY DEF RequestState
<1>3. \A q \in Requests : req[q] \in RequestState /\ req'[q] \in RequestState
  BY Replaced DEF TypeOK
<1>4. \A q \in Requests : Held(q) \subseteq Buffers /\ Held(q)' \subseteq Buffers
  BY <1>2, <1>3 DEF Held
<1>5. QED
  BY <1>1, <1>4

(* The pool stays balanced when the step takes from it what it adds to the  *)
(* buffers of its request, and the other way round.                         *)
LEMMA PoolStep ==
  ASSUME TypeOK, PoolConserved, NEW r \in Requests, NEW t \in RequestState, Becomes(r, t),
         pool' \subseteq Buffers,
         \A b \in Buffers : b \in pool' <=> IF b \in Held(r)' THEN FALSE ELSE b \in pool \/ b \in Held(r),
         Held(r)' \subseteq pool \cup Held(r),
         t.buf = t.pageBuf => t.buf = NoBuf,
         t.at = "done" => Held(r)' = {}
  PROVE  PoolConserved'
<1>1. \A q \in Requests : q # r => Held(q) \cap Held(r)' = {}
  BY OthersHeld DEF PoolConserved
<1>2. Buffers \ pool' = UNION {Held(q)' : q \in Requests}
  <2>1. ASSUME NEW b \in Buffers
        PROVE  b \notin pool' <=> \E q \in Requests : b \in Held(q)'
    <3>1. b \notin pool <=> \E q \in Requests : b \in Held(q)
      BY DEF PoolConserved
    <3>2. CASE b \in Held(r)'
      BY <3>2
    <3>3. CASE b \notin Held(r)'
      <4>1. b \in pool' <=> b \in pool \/ b \in Held(r)
        BY <3>3
      <4>2. b \in Held(r) => \A q \in Requests : q # r => b \notin Held(q)
        BY DEF PoolConserved
      <4>3. QED
        BY <3>1, <3>3, <4>1, <4>2, OthersHeld
    <3>4. QED
      BY <3>2, <3>3
  <2>2. \A q \in Requests : Held(q)' \subseteq Buffers
    BY OthersHeld
  <2>3. QED
    BY <2>1, <2>2
<1>3. \A p, q \in Requests : p # q => Held(p)' \cap Held(q)' = {}
  BY <1>1, OthersHeld DEF PoolConserved
<1>4. \A q \in Requests :
        /\ req'[q].buf = req'[q].pageBuf => req'[q].buf = NoBuf
        /\ req'[q].at = "done" => Held(q)' = {}
  BY OthersHeld, Replaced DEF PoolConserved
<1>5. QED
  BY <1>2, <1>3, <1>4 DEF PoolConserved

(* Every step is one of these, of one request: it leaves the buffers alone, *)
(* takes one to render into, gives that one back, keeps it as the page, or  *)
(* gives the page back.                                                     *)
Keeps(r, t) ==
  /\ NoPool
  /\ HookEffect(r, t) \/ ResolveEffect(req[r], t) \/ EndEffect(req[r], t)
Takes(r, t) == \E b \in Buffers : Acquire(r, b) /\ AcquireEffect(req[r], t, b)
Drops(r, t) == Release({req[r].buf}) /\ DropEffect(req[r], t)
KeepsPage(r, t) == Release({req[r].pageBuf}) /\ PageEffect(req[r], t)
DropsPage(r, t) == Release({req[r].pageBuf}) /\ DoneEffect(req[r], t)

LEMMA StepShape ==
  ASSUME TypeOK, NEW r \in Requests, ScratchInUse(r), AnswersSoFar(r),
         HookStep(r) \/ ResolveStep(r) \/ RenderStep(r) \/ EndStep(r)
  PROVE  \E t \in RequestState :
           /\ Becomes(r, t)
           /\ Keeps(r, t) \/ Takes(r, t) \/ Drops(r, t) \/ KeepsPage(r, t) \/ DropsPage(r, t)
<1>1. CASE HookStep(r)
  BY <1>1, HookShape DEF Keeps
<1>2. CASE ResolveStep(r)
  BY <1>2, ResolveShape DEF Keeps
<1>3. CASE RespondPlain(r) \/ WriteResponse(r) \/ DrainAfter(r)
  BY <1>3, EndShape DEF Keeps
<1>4. CASE BeginHead(r) \/ BeginRender(r) \/ BeginStream(r) \/ BeginBoundary(r)
  <2>1. PICK b \in Buffers :
          Acquire(r, b) /\ \E t \in RequestState : Becomes(r, t) /\ AcquireEffect(req[r], t, b)
    BY <1>4, AcquireShape
  <2>2. PICK t \in RequestState : Becomes(r, t) /\ AcquireEffect(req[r], t, b)
    BY <2>1
  <2>3. Takes(r, t)
    BY <2>1, <2>2 DEF Takes
  <2>4. QED
    BY <2>2, <2>3
<1>5. CASE \/ FinishHead(r) \/ RenderFails(r) \/ FinishShell(r) \/ FinishStream(r)
           \/ FinishBoundary(r) \/ Abort(r)
  BY <1>5, DropShape DEF Drops
<1>6. CASE FinishPage(r)
  BY <1>6, PageShape DEF KeepsPage
<1>7. CASE Finish(r)
  BY <1>7, DoneShape DEF DropsPage
<1>8. QED
  BY <1>1, <1>2, <1>3, <1>4, <1>5, <1>6, <1>7 DEF RenderStep, EndStep

LEMMA TypesKept ==
  ASSUME TypeOK, NEW r \in Requests, NEW t \in RequestState, Becomes(r, t),
         Keeps(r, t) \/ Takes(r, t) \/ Drops(r, t) \/ KeepsPage(r, t) \/ DropsPage(r, t)
  PROVE  TypeOK'
<1>1. req' \in [Requests -> RequestState]
  BY Replaced
<1>2. {req[r].buf} \ {NoBuf} \subseteq Buffers /\ {req[r].pageBuf} \ {NoBuf} \subseteq Buffers
  BY DEF TypeOK, RequestState
<1>3. pool' \subseteq Buffers
  BY <1>2 DEF TypeOK, Keeps, Takes, Drops, KeepsPage, DropsPage, Acquire, Release, NoPool
<1>4. content' \in [Buffers -> (Requests \X (0..MaxResolves)) \cup {NoBuf}]
  <2>1. <<r, req[r].resolves>> \in Requests \X (0..MaxResolves)
    BY DEF TypeOK, RequestState
  <2>2. QED
    BY <2>1 DEF TypeOK, Keeps, Takes, Drops, KeepsPage, DropsPage, Acquire, Release, NoPool
<1>5. QED
  BY <1>1, <1>3, <1>4 DEF TypeOK

LEMMA PoolKept ==
  ASSUME TypeOK, PipelineInv, NEW r \in Requests, NEW t \in RequestState, Becomes(r, t),
         Keeps(r, t) \/ Takes(r, t) \/ Drops(r, t) \/ KeepsPage(r, t) \/ DropsPage(r, t)
  PROVE  PoolConserved'
<1>0. /\ PoolConserved /\ ScratchInUse(r) /\ Held(r) = {req[r].buf, req[r].pageBuf} \ {NoBuf}
      /\ Held(r)' = {t.buf, t.pageBuf} \ {NoBuf} /\ NoBuf \notin Buffers
      /\ Held(r) \subseteq Buffers /\ \A b \in Held(r) : b \notin pool
      /\ req[r].buf = req[r].pageBuf => req[r].buf = NoBuf
  <2>1. Held(r)' = {t.buf, t.pageBuf} \ {NoBuf} /\ Held(r) \subseteq Buffers
    BY OthersHeld
  <2>2. \A b \in Held(r) : b \notin pool
    BY <2>1 DEF PipelineInv, PoolConserved
  <2>3. QED
    BY <2>1, <2>2, PipelineAssumption DEF PipelineInv, PoolConserved, Held
<1>1. pool' \subseteq Buffers
  BY TypesKept DEF TypeOK
<1>2. CASE Keeps(r, t)
  <2>1. t.buf = req[r].buf /\ t.pageBuf = req[r].pageBuf /\ pool' = pool /\ t.at # "done"
    BY <1>2 DEF Keeps, HookEffect, ResolveEffect, EndEffect, NoPool
  <2>2. QED
    BY <1>0, <1>1, <2>1, PoolStep
<1>3. CASE Takes(r, t)
  <2>1. PICK b \in Buffers : Acquire(r, b) /\ AcquireEffect(req[r], t, b)
    BY <1>3 DEF Takes
  <2>2. /\ t.buf = b /\ t.pageBuf = req[r].pageBuf /\ t.at # "done" /\ req[r].buf = NoBuf
        /\ pool' = pool \ {b} /\ b \in pool
    BY <1>0, <2>1 DEF AcquireEffect, Acquire, ScratchInUse
  <2>3. b # t.pageBuf
    BY <1>0, <2>2
  <2>4. QED
    BY <1>0, <1>1, <2>2, <2>3, PoolStep
<1>4. CASE Drops(r, t)
  <2>1. /\ t.buf = NoBuf /\ t.pageBuf = req[r].pageBuf /\ t.at # "done"
        /\ pool' = pool \cup ({req[r].buf} \ {NoBuf})
    BY <1>4 DEF Drops, DropEffect, Release
  <2>2. QED
    BY <1>0, <1>1, <2>1, PoolStep
<1>5. CASE KeepsPage(r, t)
  <2>1. /\ t.buf = NoBuf /\ t.pageBuf = req[r].buf /\ req[r].buf # NoBuf /\ t.at # "done"
        /\ pool' = pool \cup ({req[r].pageBuf} \ {NoBuf})
    BY <1>0, <1>5 DEF KeepsPage, PageEffect, Release, ScratchInUse
  <2>2. QED
    BY <1>0, <1>1, <2>1, PoolStep
<1>6. CASE DropsPage(r, t)
  <2>1. /\ t.buf = NoBuf /\ t.pageBuf = NoBuf /\ req[r].buf = NoBuf
        /\ pool' = pool \cup ({req[r].pageBuf} \ {NoBuf})
    BY <1>0, <1>6 DEF DropsPage, DoneEffect, Release, ScratchInUse
  <2>2. QED
    BY <1>0, <1>1, <2>1, PoolStep
<1>7. QED
  BY <1>2, <1>3, <1>4, <1>5, <1>6

LEMMA PipelineStep == TypeOK /\ PipelineInv /\ [Next]_vars => TypeOK' /\ PipelineInv'
<1>1. ASSUME TypeOK, PipelineInv, NEW r \in Requests,
             HookStep(r) \/ ResolveStep(r) \/ RenderStep(r) \/ EndStep(r)
      PROVE  TypeOK' /\ PipelineInv'
  <2>1. PICK t \in RequestState :
          /\ Becomes(r, t)
          /\ Keeps(r, t) \/ Takes(r, t) \/ Drops(r, t) \/ KeepsPage(r, t) \/ DropsPage(r, t)
    BY <1>1, StepShape DEF PipelineInv
  <2>2. TypeOK' /\ PoolConserved'
    BY <1>1, <2>1, TypesKept, PoolKept
  <2>3. ScratchInUse(r)' /\ AnswersSoFar(r)'
    <3>1. \/ HookEffect(r, t) \/ ResolveEffect(req[r], t)
          \/ \E b \in Buffers : AcquireEffect(req[r], t, b)
          \/ DropEffect(req[r], t) \/ EndEffect(req[r], t)
          \/ PageEffect(req[r], t) \/ DoneEffect(req[r], t)
      BY <2>1 DEF Keeps, Takes, Drops, KeepsPage, DropsPage
    <3>2. QED
      BY <1>1, <2>1, <3>1, LocalStep DEF PipelineInv
  <2>4. ASSUME NEW q \in Requests, q # r
        PROVE  ScratchInUse(q)' /\ AnswersSoFar(q)'
    <3>1. req'[q] = req[q]
      BY <1>1, <2>1, <2>4, Replaced
    <3>2. QED
      BY <1>1, <3>1 DEF PipelineInv, ScratchInUse, AnswersSoFar, AnswerOut
  <2>5. QED
    BY <2>2, <2>3, <2>4 DEF PipelineInv
<1>2. ASSUME TypeOK, PipelineInv, UNCHANGED vars
      PROVE  TypeOK' /\ PipelineInv'
  <2>1. req' = req /\ pool' = pool /\ content' = content
    BY <1>2 DEF vars
  <2>2. \A r \in Requests : Held(r)' = Held(r)
    BY <2>1 DEF Held
  <2>3. PoolConserved'
    BY <1>2, <2>1, <2>2 DEF PipelineInv, PoolConserved
  <2>4. \A r \in Requests : ScratchInUse(r)' /\ AnswersSoFar(r)'
    BY <1>2, <2>1 DEF PipelineInv, ScratchInUse, AnswersSoFar, AnswerOut
  <2>5. QED
    BY <1>2, <2>1, <2>3, <2>4 DEF PipelineInv, TypeOK
<1>3. QED
  BY <1>1, <1>2 DEF Next

LEMMA PipelineInit == Init => TypeOK /\ PipelineInv
<1> SUFFICES ASSUME Init
             PROVE  TypeOK /\ PipelineInv
  OBVIOUS
<1> DEFINE s0 == [at |-> "idle", resolves |-> 0, resps |-> <<>>, result |-> Own,
                  err |-> "none", use |-> "none", buf |-> NoBuf, pageBuf |-> NoBuf,
                  matched |-> FALSE, answers |-> <<>>, after |-> "none"]
<1>0. \A r \in Requests : req[r] = s0
  BY DEF Init
<1>a. s0 \in RequestState
  BY FieldNames, FieldValues DEF RequestState
<1>1. req \in [Requests -> RequestState]
  BY <1>a DEF Init
<1>2. TypeOK
  BY <1>1 DEF Init, TypeOK
<1>3. \A r \in Requests : Held(r) = {}
  BY <1>0 DEF Held
<1>4. PoolConserved
  BY <1>0, <1>3 DEF Init, PoolConserved
<1>5. \A r \in Requests : ScratchInUse(r) /\ AnswersSoFar(r)
  BY <1>0 DEF ScratchInUse, AnswersSoFar, AnswerOut, OneWhole, AllBroken
<1>6. QED
  BY <1>2, <1>4, <1>5 DEF PipelineInv

(* For any number of requests and buffers: Acquire and Release balance on   *)
(* every path, so that the pool neither loses a buffer nor hands one out    *)
(* twice.                                                                   *)
THEOREM PoolBalanced == Spec => []PoolConserved
<1>1. PipelineInv => PoolConserved
  BY DEF PipelineInv
<1>2. QED
  BY <1>1, PipelineInit, PipelineStep, PTL DEF Spec

(* For any number of requests: a request is answered once, and its After    *)
(* callbacks run behind the answer, whichever path the request takes.       *)
THEOREM AnsweredOnce == Spec => []AnsweredOnceThenAfter
<1>1. PipelineInv => AnsweredOnceThenAfter
  BY DEF PipelineInv, AnswersSoFar, OneWhole, AnsweredOnceThenAfter, OneAnswer, AfterRuns
<1>2. QED
  BY <1>1, PipelineInit, PipelineStep, PTL DEF Spec

-----------------------------------------------------------------------------
(* The body of a response.  The hook returns a Response of its last resolve *)
(* call only: with KeepsEarlier the property fails (the run KeptResponse).  *)

(* A buffer that a request holds keeps its content while another renders. *)
LEMMA HeldContent ==
  ASSUME TypeOK, PipelineInv, NEW r \in Requests, NEW t,
         Keeps(r, t) \/ Takes(r, t) \/ Drops(r, t) \/ KeepsPage(r, t) \/ DropsPage(r, t)
  PROVE  \A q \in Requests : \A b \in Held(q) : content'[b] = content[b]
<1>1. \A q \in Requests : \A b \in Held(q) : b \in Buffers /\ b \notin pool
  BY DEF PipelineInv, PoolConserved
<1>2. CASE Takes(r, t)
  <2>1. PICK b \in Buffers : Acquire(r, b)
    BY <1>2 DEF Takes
  <2>2. QED
    BY <1>1, <2>1 DEF Acquire, TypeOK
<1>3. CASE ~Takes(r, t)
  BY <1>3 DEF Keeps, Drops, KeepsPage, DropsPage, NoPool, Release
<1>4. QED
  BY <1>2, <1>3

LEMMA BodyOthers ==
  ASSUME NEW q \in Requests, BodyReady(q), ScratchInUse(q), req'[q] = req[q],
         \A b \in Held(q) : content'[b] = content[b]
  PROVE  BodyReady(q)'
<1>1. \A res : BodyHeld(q, res) => BodyHeld(q, res)'
  BY DEF BodyHeld, Held
<1>2. req[q].at = "render" => content'[req[q].buf] = content[req[q].buf]
  BY DEF ScratchInUse, Held
<1>3. QED
  BY <1>1, <1>2 DEF BodyReady

LEMMA BodyOwn ==
  ASSUME ~KeepsEarlier, TypeOK, PipelineInv, NEW r \in Requests, BodyReady(r),
         NEW t \in RequestState, Becomes(r, t),
         Keeps(r, t) \/ Takes(r, t) \/ Drops(r, t) \/ KeepsPage(r, t) \/ DropsPage(r, t)
  PROVE  BodyReady(r)'
<1>0. /\ req'[r] = t /\ Own.buf = NoBuf /\ req[r].resps \in Seq(Bodies) /\ Own \in Bodies
      /\ \A b \in Held(r) : content'[b] = content[b]
      /\ ScratchInUse(r)
  BY Replaced, HeldContent, FieldValues DEF Own, TypeOK, RequestState, PipelineInv
<1>1. CASE Keeps(r, t)
  <2>0. t.pageBuf = req[r].pageBuf
    BY <1>1 DEF Keeps, HookEffect, ResolveEffect, EndEffect
  <2>1. \A res : BodyHeld(r, res) => BodyHeld(r, res)'
    BY <1>0, <2>0 DEF BodyHeld, Held
  <2>2. CASE HookEffect(r, t)
    <3>1. CASE t.at = "write"
      <4>1. req[r].at = "hook" /\ t.result \in {req[r].result} \cup Returnable(r)
        BY <2>2, <3>1 DEF HookEffect
      <4>2. req[r].result = Own
        BY <4>1 DEF BodyReady
      <4>3. BodyHeld(r, req[r].result)
        BY <1>0, <4>2 DEF BodyHeld
      <4>4. \A res \in Returnable(r) : BodyHeld(r, res)
        BY <4>1 DEF Returnable, BodyReady
      <4>5. BodyHeld(r, t.result)'
        BY <2>1, <4>1, <4>3, <4>4
      <4>6. QED
        BY <1>0, <3>1, <4>5 DEF BodyReady
    <3>2. CASE t.at # "write"
      <4>1. t.at # "idle" /\ t.at # "render" /\ t.result = Own /\ (t.at = "hook" => t.resps = <<>>)
        BY <2>2, <3>2 DEF HookEffect, BodyReady
      <4>2. QED
        BY <1>0, <3>2, <4>1 DEF BodyReady
    <3>3. QED
      BY <3>1, <3>2
  <2>3. CASE ResolveEffect(req[r], t)
    <3>1. t.at \in {"csrf", "action", "load", "hook", "error"} /\ t.result = Own
      BY <2>3 DEF ResolveEffect, BodyReady
    <3>2. t.at = "hook" /\ t.err = "none" => t.resps = Append(req[r].resps, Own)
      BY <2>3 DEF ResolveEffect, UserErrors
    <3>3. LET a == Append(req[r].resps, Own) IN a[Len(a)] = Own
      BY <1>0
    <3>4. BodyHeld(r, Own)'
      BY <1>0 DEF BodyHeld
    <3>5. QED
      BY <1>0, <3>1, <3>2, <3>3, <3>4 DEF BodyReady
  <2>4. CASE EndEffect(req[r], t)
    <3>1. t.at \in {"after", "release"} /\ t.result = Own
      BY <2>4 DEF EndEffect, BodyReady
    <3>2. QED
      BY <1>0, <3>1 DEF BodyReady
  <2>5. QED
    BY <1>1, <2>2, <2>3, <2>4 DEF Keeps
<1>2. CASE Takes(r, t)
  <2>1. PICK b \in Buffers : Acquire(r, b) /\ AcquireEffect(req[r], t, b)
    BY <1>2 DEF Takes
  <2>2. content'[b] = <<r, req[r].resolves>>
    BY <2>1 DEF Acquire, TypeOK
  <2>3. /\ t.at \in {"head", "render", "stream", "boundary"} /\ t.result = Own
        /\ t.buf = b /\ t.resolves = req[r].resolves
    BY <2>1 DEF AcquireEffect, BodyReady
  <2>4. QED
    BY <1>0, <2>2, <2>3 DEF BodyReady
<1>3. CASE Drops(r, t)
  <2>1. t.at \in {"headed", "hook", "error", "after", "release"} /\ t.result = Own
    BY <1>3 DEF Drops, DropEffect, BodyReady
  <2>2. t.at = "hook" /\ t.err = "none" => t.resps = Append(req[r].resps, Own)
    BY <1>3 DEF Drops, DropEffect
  <2>3. LET a == Append(req[r].resps, Own) IN a[Len(a)] = Own
    BY <1>0
  <2>4. BodyHeld(r, Own)'
    BY <1>0 DEF BodyHeld
  <2>5. QED
    BY <1>0, <2>1, <2>2, <2>3, <2>4 DEF BodyReady
<1>4. CASE KeepsPage(r, t)
  <2>0. PICK res \in Bodies : res = [buf |-> req[r].buf, gen |-> req[r].resolves]
    BY DEF Bodies, TypeOK, RequestState
  <2>1. /\ req[r].at = "render" /\ t.at = "hook" /\ t.result = Own
        /\ t.resps = Append(req[r].resps, res) /\ t.pageBuf = req[r].buf
    BY <1>4, <2>0 DEF KeepsPage, PageEffect, BodyReady
  <2>2. content'[req[r].buf] = <<r, req[r].resolves>>
    BY <1>0, <2>1 DEF BodyReady, ScratchInUse, Held
  <2>3. BodyHeld(r, res)'
    BY <1>0, <2>0, <2>1, <2>2 DEF BodyHeld
  <2>4. LET a == Append(req[r].resps, res) IN a[Len(a)] = res
    BY <1>0
  <2>5. QED
    BY <1>0, <2>1, <2>3, <2>4 DEF BodyReady
<1>5. CASE DropsPage(r, t)
  <2>1. t.at = "done" /\ t.result = Own
    BY <1>5 DEF DropsPage, DoneEffect, BodyReady
  <2>2. QED
    BY <1>0, <2>1 DEF BodyReady
<1>6. QED
  BY <1>1, <1>2, <1>3, <1>4, <1>5

LEMMA BodyStep ==
  ~KeepsEarlier /\ TypeOK /\ PipelineInv /\ BodyInv /\ [Next]_vars => BodyInv'
<1>1. ASSUME ~KeepsEarlier, TypeOK, PipelineInv, BodyInv, NEW r \in Requests,
             HookStep(r) \/ ResolveStep(r) \/ RenderStep(r) \/ EndStep(r)
      PROVE  BodyInv'
  <2>1. PICK t \in RequestState :
          /\ Becomes(r, t)
          /\ Keeps(r, t) \/ Takes(r, t) \/ Drops(r, t) \/ KeepsPage(r, t) \/ DropsPage(r, t)
    BY <1>1, StepShape DEF PipelineInv
  <2>2. BodyReady(r)'
    BY <1>1, <2>1, BodyOwn DEF BodyInv
  <2>3. ASSUME NEW q \in Requests, q # r
        PROVE  BodyReady(q)'
    <3>1. req'[q] = req[q] /\ \A b \in Held(q) : content'[b] = content[b]
      BY <1>1, <2>1, <2>3, Replaced, HeldContent
    <3>2. QED
      BY <1>1, <3>1, BodyOthers DEF BodyInv, PipelineInv
  <2>4. QED
    BY <2>2, <2>3 DEF BodyInv
<1>2. BodyInv /\ UNCHANGED vars => BodyInv'
  BY DEF BodyInv, BodyReady, BodyHeld, vars
<1>3. QED
  BY <1>1, <1>2 DEF Next

(* For any number of requests and resolve calls: when the Handle hook       *)
(* returns a Response of its last resolve call, the buffer that the body    *)
(* aliases holds that very page for as long as the response is written.     *)
THEOREM BodyOutlivesWrite == ~KeepsEarlier => (Spec => []BodyIntact)
<1>1. ASSUME ~KeepsEarlier
      PROVE  Spec => []BodyIntact
  <2>1. Init => BodyInv
    BY DEF Init, BodyInv, BodyReady
  <2>2. BodyInv => BodyIntact
    BY DEF BodyInv, BodyReady, BodyHeld, BodyIntact
  <2>3. TypeOK /\ PipelineInv /\ BodyInv /\ [Next]_vars => BodyInv'
    BY <1>1, BodyStep
  <2>4. QED
    BY <2>1, <2>2, <2>3, PipelineInit, PipelineStep, PTL DEF Spec
<1>2. QED
  BY <1>1
=============================================================================
