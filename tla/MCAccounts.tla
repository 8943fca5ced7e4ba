---------------------------- MODULE MCAccounts -----------------------------
(* What tells a server whom it answers: the cookies of the session and of  *)
(* the form tokens that one browser carries, the tokens in the forms of    *)
(* its pages, and the users, sessions and accounts in the store.  None of  *)
(* the four reads another's state, so a behaviour of all is one of each,   *)
(* side by side: a run moves one of them.                                  *)
EXTENDS CookieSession, Csrf, FormTokens, AuthStore, TLC

VARIABLE part

(* Forms: the method in and out of quotes, dynamic or another; an action   *)
(* with a '>' in it or computed; the opt-out; an attachment, first or      *)
(* last; an input of the author's.                                         *)
Methods == {<<>>, <<Attr("method", "get", "quoted")>>}
           \cup {<<Attr("method", "post", h)>> : h \in {"quoted", "bare", "mustache"}}
Actions == {<<>>, <<Attr("action", "a>b", "quoted")>>, <<Attr("action", "x", "mustache")>>}
OptOuts == {<<>>, <<Attr("nocsrf", "", "bare")>>, <<Attr("nocsrf", "x", "mustache")>>}
Attach == <<Attr("", "", "attach")>>
Endings == {<<Close, EndForm>>, <<SelfClose>>, <<Close, Own("exact"), EndForm>>,
            <<Close, Own("other"), EndForm>>}

FormOf(m, a, o, e) == <<Form>> \o m \o a \o o \o e
PostForm == FormOf(<<Attr("method", "post", "quoted")>>, <<>>, <<>>, <<Close, EndForm>>)
OneForm ==
  {FormOf(m, a, o, e) : m \in Methods, a \in Actions, o \in OptOuts, e \in Endings}
  \cup {FormOf(o, a, m, e) : m \in Methods, a \in Actions, o \in OptOuts, e \in Endings}
Attached ==
  {FormOf(Attach, m, o, <<Close, EndForm>>) : m \in Methods, o \in OptOuts}
  \cup {FormOf(m, o, Attach, <<Close, EndForm>>) : m \in Methods, o \in OptOuts}
PagesToLand == {<<>>, PostForm, PostForm \o PostForm}
Pages ==
  OneForm \cup {f \o PostForm : f \in OneForm} \cup Attached \cup PagesToLand
  \cup {<<Script>> \o f \o <<EndScript>> \o PostForm : f \in {PostForm, <<>>}}
  \cup {PostForm \o <<Child>>, <<Child>>, <<Script>> \o PostForm}

FormsAsleep ==
  /\ route = [src |-> <<>>, mode |-> "shell", csrf |-> FALSE, actions |-> FALSE, chain |-> "none"]
  /\ stage = "failed" /\ html = <<>> /\ dom = <<>> /\ global = NoToken
  /\ came = "load" /\ before = NoToken /\ target = "body" /\ pending = "none"

AccountsInit ==
  /\ part \in {"session", "csrf", "forms", "store"} /\ Init /\ CsrfInit /\ AuthInit
  /\ part # "csrf" => router = "server" /\ ~trusted
  /\ IF part = "forms" THEN FormsInit ELSE FormsAsleep
  /\ part # "store" => backend = CHOOSE b \in Backends : TRUE

AccountsNext ==
  /\ UNCHANGED part
  /\ \/ part = "session" /\ Next /\ UNCHANGED <<csrfVars, formVars, authVars>>
     \/ part = "csrf" /\ CsrfNext /\ UNCHANGED <<vars, formVars, authVars>>
     \/ part = "forms" /\ FormsNext /\ UNCHANGED <<vars, csrfVars, authVars>>
     \/ part = "store" /\ AuthNext /\ UNCHANGED <<vars, csrfVars, formVars>>

AccountsSpec == AccountsInit /\ [][AccountsNext]_<<vars, csrfVars, formVars, authVars, part>>

(* No step of a store depends on its last answer, so states that differ    *)
(* only in it have the same future.                                        *)
Seen == <<vars, csrfVars, formVars, backend, users, byEmail, rows, tx, had, clashed, part>>

AnyRequest == Permutations(Requests)
=============================================================================
