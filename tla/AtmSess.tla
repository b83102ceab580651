------------------------------ MODULE AtmSess -------------------------------
(* The sessions of core/atm_sess.c and the commands of core/atm_cmd.c,     *)
(* from the bytes that clients send to the replies they get: what the      *)
(* network cuts in pieces, atm_buf_read_line puts together in lines, the   *)
(* session splits in arguments (AtmStr) and the commands apply to the      *)
(* cache they share.                                                       *)
(*                                                                         *)
(* A connection has one read task at a time (AtmConn), started by bytes    *)
(* that arrive; its session is processed until nothing asks to go on.  The *)
(* cache is the map that AtmDict implements (AtmStore): while the hash     *)
(* table moves to a new one, a read may give what was read before.  A      *)
(* value once stored is never freed, so a command works on it in one step. *)
(* A reply handed to the connection is written (AtmConn, AtmBuf).          *)
(*                                                                         *)
(* A byte is a string; a word without a separator or quote is one byte.    *)
EXTENDS Naturals, Sequences, FiniteSets, SequencesExt

CONSTANTS
    Sess,       \* the sessions, one for each connection
    Words,      \* what a client writes besides separators and quotes
    Scripts,    \* what a client may send: for each session, sequences of
                \* requests [text, eol]
    Polite,     \* sessions whose client waits for each reply
    NullStr

SP == " "
CR == "r"
LF == "n"
NL == {CR, LF}      \* nlcs
Quotes == {"dq", "sq"}

S == INSTANCE AtmStr

Byte == Words \cup Quotes \cup {SP} \cup NL \cup {"Success", "Invalid cmd", "Invalid argc"}

Request == [text : Seq(Byte), eol : {<<LF>>, <<CR, LF>>}]

ASSUME SessAssumption ==
    /\ NullStr \notin [cap : Nat, len : Nat, text : Seq(Byte)]
    /\ Polite \subseteq Sess
    /\ Scripts \in [Sess -> SUBSET Seq(Request)]
    /\ \A s \in Sess : \A script \in Scripts[s] : \A i \in DOMAIN script :
          /\ script[i].text # <<>> /\ Range(script[i].text) \cap NL = {}
          /\ s \in Polite => script[i].eol = <<LF>>

VARIABLES
    script,     \* what the client of each session sends
    sent,       \* how many requests it has sent
    wire,       \* bytes on their way
    rbuf,       \* r_buf
    on,         \* the read task runs
    se,         \* the session: [state, argv, cmd]
    cache,      \* atm_ctx->cache_dict: the last value written to each key
    seen,       \* what a read of the key gives
    replies,    \* strings handed to the connection
    taken,      \* of each session, the requests and the empty lines that
                \* became commands: [requests, empties, last] (history)
    order,      \* the commands in the order they were run (history)
    cuts,       \* times a CR arrived without its LF (history)
    down        \* the process was killed

vars == <<script, sent, wire, rbuf, on, se, cache, seen, replies, taken, order, cuts, down>>

(* The session as atm_sess_new and atm_sess_reset leave it.                *)
FreshSess == [state |-> "init", argv |-> <<>>, cmd |-> "none"]

Init ==
    /\ script \in {f \in [Sess -> UNION Range(Scripts)] : \A s \in Sess : f[s] \in Scripts[s]}
    /\ sent = [s \in Sess |-> 0]
    /\ wire = [s \in Sess |-> <<>>]
    /\ rbuf = [s \in Sess |-> <<>>]
    /\ on = [s \in Sess |-> FALSE]
    /\ se = [s \in Sess |-> FreshSess]
    /\ cache = <<>>
    /\ seen = <<>>
    /\ replies = [s \in Sess |-> <<>>]
    /\ taken = [s \in Sess |-> [requests |-> 0, empties |-> 0, last |-> 0]]
    /\ order = <<>>
    /\ cuts = [s \in Sess |-> 0]
    /\ down = FALSE

-----------------------------------------------------------------------------
(* Strings and messages.                                                   *)

(* A message of n bytes.                                                   *)
Bytes(text, n) == [i \in 1 .. n |-> text]
Success == Bytes("Success", 7)
InvalidCmd == Bytes("Invalid cmd", 11)
InvalidArgc == Bytes("Invalid argc", 12)

(* atm_sess_reply                                                          *)
Reply(m) == S!StrCats(S!StrNew(m), <<LF>>)

(* atm_cmd_para: argv ends with a NULL, and a NULL gives a NULL string.    *)
Para(argv, i) == IF i + 1 <= Len(argv) THEN S!StrNew(argv[i + 1]) ELSE NullStr

(* A value stored under a key.                                             *)
Put(map, k, v) == [x \in DOMAIN map \cup {k} |-> IF x = k THEN v ELSE map[x]]

(* What reads give once `map` is stored: of the keys in `late`, what they  *)
(* gave before; the others have caught up.                                 *)
Lag(map, before, late) ==
    [x \in DOMAIN map |-> IF x \in late \cap DOMAIN before THEN before[x] ELSE map[x]]

(* atm_dict_get of the cache, and atm_obj_str of what it returns.          *)
Cached(k) == IF k \in DOMAIN seen THEN seen[k] ELSE NullStr

(* The text of a key; the empty one stands for a NULL.                     *)
KeyText(k) == IF k = NullStr THEN <<>> ELSE k.text

(* atm_cmd_getcmd                                                          *)
GetCmd(name) ==
    IF S!StrEq(S!StrNew(name), S!StrNew(<<"get">>)) THEN "get"
    ELSE IF S!StrEq(S!StrNew(name), S!StrNew(<<"set">>)) THEN "set"
    ELSE "none"

-----------------------------------------------------------------------------
(* The client and the network.                                             *)

Send(s) ==
    /\ ~ down
    /\ sent[s] < Len(script[s])
    /\ s \in Polite => Len(replies[s]) = sent[s]
    /\ sent' = [sent EXCEPT ![s] = @ + 1]
    /\ LET r == script[s][sent[s] + 1]
       IN  wire' = [wire EXCEPT ![s] = @ \o r.text \o r.eol]
    /\ UNCHANGED <<script, rbuf, on, se, cache, seen, replies, taken, order, cuts, down>>

(* Some bytes have arrived and start a read task, which reads all of them  *)
(* into r_buf (atm_conn_task_read, atm_buf_read_sock).                     *)
TaskRead(s) ==
    /\ ~ down
    /\ ~ on[s]
    /\ on' = [on EXCEPT ![s] = TRUE]
    /\ \E n \in 1 .. Len(wire[s]) :
         /\ rbuf' = [rbuf EXCEPT ![s] = @ \o SubSeq(wire[s], 1, n)]
         /\ wire' = [wire EXCEPT ![s] = SubSeq(@, n + 1, Len(@))]
         /\ cuts' = [cuts EXCEPT ![s] = IF wire[s][n] = CR THEN @ + 1 ELSE @]
    /\ UNCHANGED <<script, sent, se, cache, seen, replies, taken, order, down>>

-----------------------------------------------------------------------------
(* atm_buf_read_line: a run of CR and LF ends a line.                      *)

(* Mutant: a line is not over before something follows it.                 *)
HasLine_Followed(b) ==
    \E i, j \in DOMAIN b : i < j /\ b[i] \in NL /\ b[j] \notin NL

HasLine(b) == \E i \in DOMAIN b : b[i] \in NL

(* The bytes before the end of the first line.                             *)
LineLen(b) == CHOOSE n \in 0 .. Len(b) - 1 :
                  b[n + 1] \in NL /\ \A i \in 1 .. n : b[i] \notin NL

(* Mutant: one byte ends a line.                                           *)
LineRead_One(b) == LineLen(b) + 1

(* The bytes read with it, the run included.                               *)
LineRead(b) == CHOOSE n \in LineLen(b) + 1 .. Len(b) :
                  /\ \A i \in LineLen(b) + 1 .. n : b[i] \in NL
                  /\ n = Len(b) \/ b[n + 1] \notin NL

-----------------------------------------------------------------------------
(* One turn of the loop of atm_sess_process each.                          *)

InState(s, st) == ~ down /\ on[s] /\ se[s].state = st

SessInit(s) ==
    /\ InState(s, "init")
    /\ se' = [se EXCEPT ![s].state = "parsing"]
    /\ UNCHANGED <<script, sent, wire, rbuf, on, cache, seen, replies, taken, order, cuts, down>>

(* atm_sess_parsing with no line in r_buf: the task ends, the state stays. *)
NoLine(s) ==
    /\ InState(s, "parsing")
    /\ ~ HasLine(rbuf[s])
    /\ on' = [on EXCEPT ![s] = FALSE]
    /\ UNCHANGED <<script, sent, wire, rbuf, se, cache, seen, replies, taken, order, cuts, down>>

(* atm_sess_parsing; an empty line has no arguments, and then neither they *)
(* nor the command are assigned.                                           *)
Parsing(s) ==
    /\ InState(s, "parsing")
    /\ HasLine(rbuf[s])
    /\ LET b == rbuf[s]
           n == LineLen(b)
           argv == S!Split(SubSeq(b, 1, n), SP)
           t == taken[s]
       IN  /\ rbuf' = [rbuf EXCEPT ![s] = SubSeq(@, LineRead(b) + 1, Len(@))]
           /\ se' = [se EXCEPT ![s] =
                       IF argv = <<>> THEN [@ EXCEPT !.state = "process_cmd"]
                       ELSE [state |-> "process_cmd", argv |-> argv, cmd |-> GetCmd(argv[1])]]
           /\ taken' = [taken EXCEPT ![s] =
                          IF n = 0 THEN [t EXCEPT !.empties = t.empties + 1, !.last = 0]
                          ELSE [t EXCEPT !.requests = t.requests + 1, !.last = t.requests + 1]]
    /\ UNCHANGED <<script, sent, wire, on, cache, seen, replies, order, cuts, down>>

(* The command hands its reply over and the session goes to its end; reads *)
(* of the keys in `late` do not catch up with it.                          *)
Replied(s, reply, late) ==
    /\ replies' = [replies EXCEPT ![s] = Append(@, reply)]
    /\ order' = Append(order, <<s, taken[s].last, {KeyText(k) : k \in late}>>)
    /\ se' = [se EXCEPT ![s].state = "finish"]
    /\ UNCHANGED <<script, sent, wire, rbuf, on, taken, cuts>>

(* atm_cmd_func_get                                                        *)
CmdGet(s) ==
    /\ InState(s, "process_cmd")
    /\ se[s].cmd = "get"
    /\ Replied(s, IF Len(se[s].argv) = 2
                  THEN S!StrCatsDup(Cached(Para(se[s].argv, 1)), <<LF>>)
                  ELSE Reply(InvalidArgc), {})
    /\ UNCHANGED <<cache, seen, down>>

(* atm_cmd_func_set: its arity is negative, so the number of arguments is  *)
(* never looked at.  Without any, argv[2] is past the end of the array:    *)
(* what is there is followed, or happens to be NULL.  atm_dict_set stores  *)
(* the value and moves entries of any keys to the new table.               *)
CmdSet(s) ==
    /\ InState(s, "process_cmd")
    /\ se[s].cmd = "set"
    /\ \/ /\ cache' = Put(cache, Para(se[s].argv, 1), Para(se[s].argv, 2))
          /\ \E late \in SUBSET {k \in DOMAIN seen : seen[k] # cache'[k]} :
               /\ seen' = Lag(cache', seen, late)
               /\ Replied(s, Reply(Success), late)
          /\ UNCHANGED down
       \/ /\ Len(se[s].argv) = 1
          /\ down' = TRUE
          /\ UNCHANGED <<script, sent, wire, rbuf, on, se, cache, seen, replies, taken, order, cuts>>

(* atm_sess_process_cmd without a command.                                 *)
NoCmd(s) ==
    /\ InState(s, "process_cmd")
    /\ se[s].cmd = "none"
    /\ Replied(s, Reply(InvalidCmd), {})
    /\ UNCHANGED <<cache, seen, down>>

(* Mutant: the command is kept.                                            *)
Reset_KeepCmd(s) == [FreshSess EXCEPT !.cmd = se[s].cmd]

Reset(s) == FreshSess

(* atm_sess_reset, and the task ends, whatever is left in r_buf.           *)
Finish(s) ==
    /\ InState(s, "finish")
    /\ se' = [se EXCEPT ![s] = Reset(s)]
    /\ on' = [on EXCEPT ![s] = FALSE]
    /\ UNCHANGED <<script, sent, wire, rbuf, cache, seen, replies, taken, order, cuts, down>>

ProcessSess(s) ==
    SessInit(s) \/ NoLine(s) \/ Parsing(s) \/ CmdGet(s) \/ CmdSet(s) \/ NoCmd(s) \/ Finish(s)

Next == \E s \in Sess : Send(s) \/ TaskRead(s) \/ ProcessSess(s)

Spec == Init /\ [][Next]_vars

(* The network delivers, an arrival is reported and its task is run        *)
(* (AtmConn, AtmTask).  Runs is WF_vars(ProcessSess(s)): a step of the     *)
(* session is enabled just when its task runs.                             *)
Runs(s) == []<>~ (on[s] /\ ~ down) \/ []<><<ProcessSess(s)>>_vars

FairSpec == Spec /\ \A s \in Sess : WF_vars(TaskRead(s)) /\ Runs(s)

-----------------------------------------------------------------------------
(* Properties                                                              *)

(* What the service answers to the text of a request, how it changes the  *)
(* values [kept -> texts] and what reads of them give, those of the keys   *)
(* in `late` not catching up.                                              *)
Answer(acc, text, late) ==
    LET argv == S!SplitRef(text, SP)
        arg(i) == IF i <= Len(argv) THEN argv[i] ELSE <<>>
        same(reply) == [kept |-> acc.kept, seen |-> acc.seen, reply |-> reply]
        kept == Put(acc.kept, arg(2), arg(3))
    IN  CASE arg(1) = <<"get">> ->
               same(IF Len(argv) # 2 THEN InvalidArgc
                    ELSE IF arg(2) \in DOMAIN acc.seen THEN acc.seen[arg(2)] ELSE <<>>)
          [] arg(1) = <<"set">> ->
               [kept |-> kept, seen |-> Lag(kept, acc.seen, late), reply |-> Success]
          [] OTHER -> same(InvalidCmd)

(* The replies when the commands are run one at a time in the given order, *)
(* each on the text that its client sent.                                  *)
Served(ord) ==
    LET run[n \in 0 .. Len(ord)] ==
          IF n = 0 THEN [kept |-> <<>>, seen |-> <<>>, out |-> [s \in Sess |-> <<>>]]
          ELSE LET acc == run[n - 1]
                   c == ord[n]
                   a == Answer(acc, IF c[2] = 0 THEN <<>> ELSE script[c[1]][c[2]].text, c[3])
               IN  [kept |-> a.kept, seen |-> a.seen,
                    out |-> [acc.out EXCEPT ![c[1]] = Append(@, a.reply)]]
    IN  run[Len(ord)]

(* Every reply is the answer to the request the client sent, in the order  *)
(* it sent them, as if the commands of all the sessions were run one after *)
(* the other on a store whose reads may lag behind, but only ever move to  *)
(* the last value written; however the bytes arrive and whatever a command *)
(* leaves in the session (atm_sess.c:58, atm_cmd.c, atm_dict.c:694).       *)
RepliesExplained ==
    LET out == Served(order).out
    IN  \A s \in Sess : [i \in DOMAIN replies[s] |-> replies[s][i].text]
                          = [i \in DOMAIN out[s] |-> Append(out[s][i], LF)]

(* A client gets one reply more than it sent requests only where a CR had  *)
(* arrived without its LF (atm_buf.c:178).                                 *)
OneReplyEach ==
    \A s \in Sess : taken[s].requests <= sent[s] /\ taken[s].empties <= cuts[s]

(* What the commands keep and reply is whole: a string whose header tells  *)
(* its length, inside of its memory (atm_str.c:333).                       *)
StringsWhole ==
    /\ \A s \in Sess : \A i \in DOMAIN replies[s] : S!Whole(replies[s][i])
    /\ \A k \in DOMAIN cache : \A x \in {k, cache[k], seen[k]} \ {NullStr} : S!Whole(x)

(* The split of a line is the one that a stack of open quotes gives, for   *)
(* every text of up to five bytes (atm_str.c:399).                         *)
SplitByStack ==
    order = <<>> /\ sent = [s \in Sess |-> 0] =>
       \A n \in 0 .. 5 : \A text \in [1 .. n -> {"w", SP} \cup Quotes] :
          S!Split(text, SP) = S!SplitRef(text, SP)

(* A client that waits for each reply gets it.                             *)
PoliteAnswered ==
    \A s \in Polite : (Len(replies[s]) < sent[s]) ~> (Len(replies[s]) = sent[s] \/ down)
=============================================================================
