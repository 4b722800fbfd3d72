------------------------------ MODULE TeleopProofs -----------------------------
(***************************************************************************)
(* Teleop's types, its host-side safety invariants and its two action      *)
(* properties, for every set of kinds and cameras, every setting of        *)
(* disable_torque_on_disconnect and every bound on loops and reads.        *)
(*                                                                         *)
(* Order: the scripts of the calls as linked chains of steps; what an      *)
(* update of one loop leaves alone; one lemma per action of HostArms; the  *)
(* leader's side; the theorems.                                            *)
(***************************************************************************)
EXTENDS Teleop, SequenceTheorems, FiniteSetTheorems, TLAPS

(* A call's script never lives on as a whole: an invariant can only speak of
   what is left of it.  So the left-over is described by its links: After
   gives the step that follows a step, and End stands past the last one.     *)
AllKinds == {"single", "pair", "teleop"}
End == Do("end", "nobody")
After(k, c, step) ==
    LET s == step.arm
    IN CASE step.op = "guard" -> Do("new", s)
         [] step.op = "new"   -> Do("start", s)
         [] step.op = "start" -> Do("up", s)
         [] step.op = "up"    -> IF k # "single" /\ s = "left" THEN Do("guard", "right")
                                 ELSE Do("cameras", "left")
         [] step.op = "check" -> Do("stop", s)
         [] step.op = "stop"  -> Do("drop", s)
         [] step.op = "drop"  -> Do("clear", s)
         [] step.op = "clear" -> IF k # "single" /\ s = "left" THEN Do("check", "right")
                                 ELSE IF c = "disconnect" THEN Do("cameras off", "left")
                                 ELSE End
         [] step.op \in {"take", "send"} /\ k # "single" /\ s = "left" -> Do(step.op, "right")
         [] OTHER -> End

(* The steps a call is made of; cleanup is what connect() does in its except. *)
OpsOf(c) ==
    CASE c = "connect" -> {"guard", "new", "start", "up", "cameras"}
      [] c = "cleanup" -> {"check", "stop", "drop", "clear"}
      [] c = "disconnect" -> {"check", "stop", "drop", "clear", "cameras off"}
      [] c \in {"toggle", "rollback"} -> {"take"}
      [] c = "send" -> {"send"}
      [] OTHER -> {}

(* t is made of c's steps, each followed by its successor, the last by next.  *)
Chain(t, k, c, next) ==
    /\ t \in Seq(Steps)
    /\ \A i \in 1..Len(t) :
        /\ t[i].op \in OpsOf(c)
        /\ k = "single" => t[i].arm = "left"
        /\ IF i = Len(t) THEN After(k, c, t[i]) = next ELSE t[i + 1] = After(k, c, t[i])
Linked(t, k, c) == Chain(t, k, c, End) /\ Len(t) <= 9

Doing == IF call = "connect" /\ raised THEN "cleanup" ELSE call
ScriptFollowed == Linked(todo, kind, Doing)

(* The types, in three parts.  rt is typed by 0..Len(loops), which is
   {None} \cup DOMAIN loops as the arithmetic of New needs it.               *)
SessionTyped ==
    /\ kind \in Kinds /\ old_build \in BOOLEAN
    /\ call \in {"none", "connect", "disconnect", "toggle", "rollback", "send"}
    /\ raised \in BOOLEAN /\ asked \in BOOLEAN /\ took \subseteq Arms
    /\ scratch \in BOOLEAN /\ promise \in [Arms -> BOOLEAN]

ArmsTyped ==
    /\ loops \in Seq(Loop)
    /\ rt \in [Arms -> 0..Len(loops)] /\ bus_connected \in [Arms -> BOOLEAN]
    /\ \A s \in Arms : rt[s] # None => loops[rt[s]].arm = s
    /\ \A s \in Arms : bus_connected[s] => rt[s] # None
    /\ power \in [Arms -> {"limp", "stiff"}]

OutsideTyped ==
    /\ wedged \in [Arms -> BOOLEAN] /\ cams_on \subseteq Cameras
    /\ pub \in [at : {"idle", "checked", "picked"}, arm : Arms, holds : 0..Len(loops)]
    /\ shown \in {"none", "state", "zeros", "error"}

(* Which call can be under way where the script is.                         *)
CallsInPlace ==
    /\ call = "rollback" => kind # "single" /\ asked = Release
    /\ kind # "teleop" => script = "leader"
    /\ script \in Looping => call \in {"none", "send"}
    /\ kind = "teleop" /\ script \in {"leader", "follower"} => call = "none"

(* The bound on loops: those a connect() under way will still make fit in, and
   the teleop script has made none before its only connect().               *)
Op == Head(todo).op
Connecting == todo # <<>> /\ Op \in {"guard", "new", "start", "up"}
Leaving == todo # <<>> /\ Op \in {"check", "stop", "drop", "clear"}

LoopsToCome ==
    IF ~Connecting THEN 0
    ELSE IF kind # "single" /\ Here = "left" THEN IF Op \in {"guard", "new"} THEN 2 ELSE 1
    ELSE IF Op \in {"guard", "new"} THEN 1 ELSE 0
Room ==
    /\ Len(loops) + LoopsToCome <= MaxLoops
    /\ kind = "teleop" /\ script \in {"leader", "follower"} => Len(loops) = 0

(* A loop disconnect() is done with: no thread, or one kept for good.       *)
GivenUp(l) == ~Live(l) \/ loops[l].kept

(* What the step at hand may count on because of the steps before it: a pair's
   guard has seen _rt_robot at None before DK1RobotRT is assigned to it, stop()
   has been called before the wrapper lets go of the loop, the left arm is up
   before the right one's connect() and down before its disconnect(), and both
   are down when the cameras go.                                            *)
Stage ==
    /\ At("new") /\ kind # "single" => rt[Here] = None
    /\ At("start") \/ At("up") => rt[Here] # None
    /\ Connecting /\ Here = "right" => rt["left"] # None
    /\ (At("drop") \/ At("clear")) /\ rt[Here] # None => GivenUp(rt[Here])
    /\ kind = "single" => rt["right"] = None
    /\ Leaving /\ kind # "single" /\ Here = "right" => rt["left"] = None
    /\ kind # "single" /\ (At("cameras off") \/ (call = "disconnect" /\ todo = <<>>)) =>
           \A s \in Arms : rt[s] = None

(* The wrapper in _rt_robot holds its loop, but between _loop = None and
   _rt_robot = None of one disconnect().                                    *)
Wrapped == \A s \in Arms : rt[s] # None => loops[rt[s]].wrapped \/ (At("clear") /\ Here = s)

(* An exception in the left arm's disconnect() skips the right one.  It leaves
   nothing running there because the right arm is never up without the left. *)
RightNeedsLeft ==
    kind # "single" /\ rt["right"] # None => rt["left"] # None \/ (Leaving /\ Here = "right")

(* What the publisher holds on to is still a loop of its arm, and one whose
   wrapper let go of it only after stop().                                  *)
Picked ==
    pub.at = "picked" =>
        /\ pub.holds # None /\ loops[pub.holds].arm = pub.arm
        /\ loops[pub.holds].wrapped \/ GivenUp(pub.holds)

(* The release flags.  Outside a toggle every wrapped loop carries the promise;
   inside one, the arms that are past their step carry the new value and have
   said so; an old build takes nothing.                                     *)
Toggling == call \in {"toggle", "rollback"}
ToTake(s) == todo # <<>> /\ (Here = s \/ s = "right")
Settings ==
    /\ old_build => took = {} /\ \A s \in Arms : promise[s] = Release
    /\ kind = "single" => took \subseteq {"left"}
    /\ \A s \in Arms : rt[s] # None =>
        /\ old_build => loops[rt[s]].release = Release
        /\ ~Toggling => loops[rt[s]].release = promise[s]
        /\ Toggling /\ ~old_build /\ ~ToTake(s) => loops[rt[s]].release = asked /\ s \in took

(* The host's half of the inductive invariant.                              *)
HostInv ==
    /\ SessionTyped /\ ArmsTyped /\ OutsideTyped /\ ScriptFollowed /\ CallsInPlace /\ Room
    /\ Stage /\ Wrapped /\ ThreadsAreOwned /\ RightNeedsLeft /\ Picked /\ Settings

(* Reads of the leader: outside a get_action() that raised, a read in the pool
   belongs to the last call, and to an arm this call still waits for.       *)
Jobbed ==
    \A j \in Jobs :
        /\ j[2] > reads => jobs[j] = "none"
        /\ missed \/ jobs[j] \notin {"queued", "running"} \/
              /\ j[2] = reads
              /\ script \notin {"leader", "follower", "connecting", "loop", "send", "sending"}
              /\ script = "await right" => j[1] # "left"
Awaiting == script \in {"await left", "await right"} => reads > 0
-----------------------------------------------------------------------------
(* Operators on scripts: values of OpsOf and After, a script's tail, and the
   scripts of the calls put together from their parts.                      *)
LEMMA OpsOfCalls ==
    /\ OpsOf("connect") = {"guard", "new", "start", "up", "cameras"}
    /\ OpsOf("cleanup") = {"check", "stop", "drop", "clear"}
    /\ OpsOf("disconnect") = {"check", "stop", "drop", "clear", "cameras off"}
    /\ OpsOf("toggle") = {"take"} /\ OpsOf("rollback") = {"take"}
    /\ OpsOf("send") = {"send"} /\ OpsOf("none") = {}
BY DEF OpsOf

LEMMA AfterSteps ==
    ASSUME NEW k, NEW c, NEW s \in Arms
    PROVE  /\ After(k, c, Do("guard", s)) = Do("new", s)
           /\ After(k, c, Do("new", s)) = Do("start", s)
           /\ After(k, c, Do("start", s)) = Do("up", s)
           /\ After(k, c, Do("up", s)) = IF k # "single" /\ s = "left" THEN Do("guard", "right")
                                         ELSE Do("cameras", "left")
           /\ After(k, c, Do("cameras", s)) = End
           /\ After(k, c, Do("check", s)) = Do("stop", s)
           /\ After(k, c, Do("stop", s)) = Do("drop", s)
           /\ After(k, c, Do("drop", s)) = Do("clear", s)
           /\ After(k, c, Do("clear", s)) = IF k # "single" /\ s = "left" THEN Do("check", "right")
                                            ELSE IF c = "disconnect" THEN Do("cameras off", "left")
                                            ELSE End
           /\ After(k, c, Do("cameras off", s)) = End
           /\ \A op \in {"take", "send"} :
                 After(k, c, Do(op, s)) = IF k # "single" /\ s = "left" THEN Do(op, "right") ELSE End
BY DEF After, Do, End

LEMMA TailLinked ==
    ASSUME NEW k, NEW c, NEW t, t # <<>>, Linked(t, k, c)
    PROVE  /\ Linked(Tail(t), k, c) /\ Len(Tail(t)) = Len(t) - 1
           /\ Head(t) \in Steps /\ Head(t).op \in OpsOf(c)
           /\ k = "single" => Head(t).arm = "left"
           /\ IF Tail(t) = <<>> THEN After(k, c, Head(t)) = End
              ELSE Head(Tail(t)) = After(k, c, Head(t))
<1>1. /\ t \in Seq(Steps) /\ Len(t) \in Nat /\ Len(t) > 0 /\ Head(t) = t[1] /\ Len(t) <= 9
      /\ \A i \in 1..Len(t) :
            /\ t[i].op \in OpsOf(c)
            /\ k = "single" => t[i].arm = "left"
            /\ IF i = Len(t) THEN After(k, c, t[i]) = End ELSE t[i + 1] = After(k, c, t[i])
  BY DEF Linked, Chain
<1> DEFINE u == Tail(t)
<1>2. /\ Head(t) \in Steps /\ u \in Seq(Steps) /\ Len(u) = Len(t) - 1
      /\ \A i \in 1..Len(u) : u[i] = t[i + 1]
  BY <1>1, HeadTailProperties
<1> HIDE DEF u
<1>3. \A i \in 1..Len(u) :
            /\ u[i].op \in OpsOf(c)
            /\ k = "single" => u[i].arm = "left"
            /\ IF i = Len(u) THEN After(k, c, u[i]) = End ELSE u[i + 1] = After(k, c, u[i])
  <2> SUFFICES ASSUME NEW i \in 1..Len(u)
               PROVE  /\ u[i].op \in OpsOf(c)
                      /\ k = "single" => u[i].arm = "left"
                      /\ IF i = Len(u) THEN After(k, c, u[i]) = End
                         ELSE u[i + 1] = After(k, c, u[i])
    OBVIOUS
  <2>1. i + 1 \in 1..Len(t) /\ u[i] = t[i + 1] /\ (i = Len(u) <=> i + 1 = Len(t))
    BY <1>1, <1>2
  <2>2. ASSUME i # Len(u) PROVE u[i + 1] = t[(i + 1) + 1]
    BY <1>1, <1>2, <2>2
  <2> QED
    BY <1>1, <2>1, <2>2
<1>4. Linked(u, k, c)
  BY <1>1, <1>2, <1>3 DEF Linked, Chain
<1>5. ASSUME u # <<>> PROVE Head(u) = After(k, c, Head(t))
  <2>1. Head(u) = t[1 + 1] /\ Len(t) # 1 /\ 1 \in 1..Len(t)
    BY <1>1, <1>2, <1>5
  <2>2. t[1 + 1] = After(k, c, t[1])
    BY <1>1, <2>1
  <2> QED BY <1>1, <2>1, <2>2
<1>6. ASSUME u = <<>> PROVE After(k, c, Head(t)) = End
  <2>1. Len(t) = 1
    BY <1>1, <1>2, <1>6
  <2> QED BY <1>1, <2>1
<1>7. IF u = <<>> THEN After(k, c, Head(t)) = End ELSE Head(u) = After(k, c, Head(t))
  BY <1>5, <1>6
<1>8. Head(t).op \in OpsOf(c) /\ (k = "single" => Head(t).arm = "left")
  BY <1>1
<1> QED
  BY <1>2, <1>4, <1>7, <1>8 DEF u

LEMMA Chained ==
    ASSUME NEW k, NEW c, NEW z, NEW p, NEW q, p # <<>>, q # <<>>,
           Chain(p, k, c, Head(q)), Chain(q, k, c, z)
    PROVE  /\ Chain(p \o q, k, c, z)
           /\ p \o q # <<>> /\ Len(p \o q) = Len(p) + Len(q) /\ Head(p \o q) = Head(p)
<1>1. /\ p \in Seq(Steps) /\ q \in Seq(Steps) /\ Len(p) \in Nat \ {0} /\ Len(q) \in Nat \ {0}
      /\ Head(p) = p[1] /\ Head(q) = q[1]
  BY DEF Chain
<1> DEFINE t == p \o q
<1>2. /\ t \in Seq(Steps) /\ Len(t) = Len(p) + Len(q)
      /\ \A i \in 1..Len(t) : t[i] = IF i <= Len(p) THEN p[i] ELSE q[i - Len(p)]
  BY <1>1, ConcatProperties
<1> HIDE DEF t
<1>3. ASSUME NEW i \in 1..Len(t)
      PROVE  /\ t[i].op \in OpsOf(c)
             /\ k = "single" => t[i].arm = "left"
             /\ IF i = Len(t) THEN After(k, c, t[i]) = z ELSE t[i + 1] = After(k, c, t[i])
  <2>1. CASE i < Len(p)
    <3>1. i \in 1..Len(p) /\ i # Len(p) /\ i # Len(t) /\ t[i] = p[i] /\ t[i + 1] = p[i + 1]
      BY <1>1, <1>2, <2>1
    <3> QED BY <3>1 DEF Chain
  <2>2. CASE i = Len(p)
    <3>1. i \in 1..Len(p) /\ i # Len(t) /\ t[i] = p[i] /\ t[i + 1] = Head(q)
      BY <1>1, <1>2, <2>2
    <3> QED BY <2>2, <3>1 DEF Chain
  <2>3. CASE i > Len(p)
    <3> DEFINE j == i - Len(p)
    <3>1. j \in 1..Len(q) /\ t[i] = q[j] /\ (i = Len(t) <=> j = Len(q))
      BY <1>1, <1>2, <2>3
    <3>2. ASSUME i # Len(t) PROVE t[i + 1] = q[j + 1]
      <4>1. i \in Int /\ Len(p) \in Int /\ Len(t) \in Int /\ i <= Len(t) /\ i >= 1
        BY <1>1, <1>2
      <4>2. (i + 1) - Len(p) = j + 1 /\ i + 1 \in 1..Len(t) /\ ~(i + 1 <= Len(p))
        BY <2>3, <3>2, <4>1
      <4> QED BY <1>2, <4>2
    <3> HIDE DEF j
    <3> QED BY <3>1, <3>2 DEF Chain
  <2> QED BY <1>1, <1>2, <2>1, <2>2, <2>3
<1>4. Chain(t, k, c, z)
  BY <1>2, <1>3 DEF Chain
<1>5. t # <<>> /\ Head(t) = Head(p)
  BY <1>1, <1>2
<1> QED BY <1>2, <1>4, <1>5 DEF t

LEMMA ThreeChained ==
    ASSUME NEW k, NEW c, NEW z, NEW p, NEW q, NEW t, p # <<>>, q # <<>>, t # <<>>,
           Chain(p, k, c, Head(q)), Chain(q, k, c, Head(t)), Chain(t, k, c, z)
    PROVE  /\ Chain((p \o q) \o t, k, c, z) /\ (p \o q) \o t # <<>>
           /\ Len((p \o q) \o t) = Len(p) + Len(q) + Len(t)
           /\ Head((p \o q) \o t) = Head(p)
<1> DEFINE u == p \o q
<1>1. /\ Chain(u, k, c, Head(t)) /\ u # <<>> /\ Len(u) = Len(p) + Len(q) /\ Head(u) = Head(p)
  BY Chained
<1> HIDE DEF u
<1>2. /\ Chain(u \o t, k, c, z) /\ u \o t # <<>> /\ Len(u \o t) = Len(u) + Len(t)
      /\ Head(u \o t) = Head(u)
  BY <1>1, Chained
<1>3. Len(u \o t) = Len(p) + Len(q) + Len(t) /\ Head(u \o t) = Head(p)
  BY <1>1, <1>2
<1> QED BY <1>2, <1>3 DEF u

LEMMA ConnectLinked ==
    ASSUME kind \in AllKinds
    PROVE  /\ Linked(Connect, kind, "connect") /\ Connect # <<>>
           /\ Head(Connect) = Do("guard", "left")
<1> DEFINE L == ArmConnect("left")
           R == ArmConnect("right")
           C == <<Do("cameras", "left")>>
<1>1. /\ L # <<>> /\ Len(L) = 4 /\ Head(L) = Do("guard", "left")
      /\ Chain(L, kind, "connect",
               IF kind = "single" THEN Do("cameras", "left") ELSE Do("guard", "right"))
  BY DEF Chain, ArmConnect, OpsOf, After, Steps, Ops, Do, End, Arms
<1>2. /\ R # <<>> /\ Len(R) = 4 /\ Head(R) = Do("guard", "right")
      /\ kind # "single" => Chain(R, kind, "connect", Do("cameras", "left"))
  BY DEF Chain, ArmConnect, OpsOf, After, Steps, Ops, Do, End, Arms
<1>3. /\ C # <<>> /\ Len(C) = 1 /\ Head(C) = Do("cameras", "left")
      /\ Chain(C, kind, "connect", End)
  BY DEF Chain, OpsOf, After, Steps, Ops, Do, End, Arms
<1>4. Connect = IF kind = "single" THEN L \o C ELSE (L \o R) \o C
  BY DEF Connect, Both, Arms
<1> HIDE DEF L, R, C
<1>5. ASSUME kind = "single"
      PROVE  Linked(L \o C, kind, "connect") /\ L \o C # <<>> /\ Head(L \o C) = Head(L)
  <2>1. Chain(L, kind, "connect", Head(C)) /\ L # <<>> /\ C # <<>> /\ Chain(C, kind, "connect", End)
    BY <1>1, <1>3, <1>5
  <2>2. Chain(L \o C, kind, "connect", End) /\ L \o C # <<>>
        /\ Len(L \o C) = Len(L) + Len(C) /\ Head(L \o C) = Head(L)
    BY <2>1, Chained
  <2>3. Len(L \o C) = 5
    BY <1>1, <1>3, <2>2
  <2> QED BY <2>2, <2>3 DEF Linked
<1>6. ASSUME kind # "single"
      PROVE  /\ Linked((L \o R) \o C, kind, "connect")
             /\ (L \o R) \o C # <<>> /\ Head((L \o R) \o C) = Head(L)
  <2>1. /\ Chain(L, kind, "connect", Head(R)) /\ Chain(R, kind, "connect", Head(C))
        /\ Chain(C, kind, "connect", End) /\ L # <<>> /\ R # <<>> /\ C # <<>>
    BY <1>1, <1>2, <1>3, <1>6
  <2>2. /\ Chain((L \o R) \o C, kind, "connect", End) /\ (L \o R) \o C # <<>>
        /\ Len((L \o R) \o C) = Len(L) + Len(R) + Len(C)
        /\ Head((L \o R) \o C) = Head(L)
    BY <2>1, ThreeChained
  <2>3. Len((L \o R) \o C) = 9
    BY <1>1, <1>2, <1>3, <2>2
  <2> QED BY <2>2, <2>3 DEF Linked
<1> QED BY <1>1, <1>4, <1>5, <1>6

LEMMA BusChained ==
    ASSUME NEW k, NEW c \in {"cleanup", "disconnect"}, NEW s \in Arms, k = "single" => s = "left"
    PROVE  /\ Chain(DisconnectBus(s), k, c, After(k, c, Do("clear", s)))
           /\ DisconnectBus(s) # <<>> /\ Len(DisconnectBus(s)) = 3
           /\ Head(DisconnectBus(s)) = Do("stop", s)
<1>1. \A op \in {"check", "stop", "drop", "clear"} : op \in OpsOf(c)
  BY OpsOfCalls
<1>2. DisconnectBus(s) = <<Do("stop", s), Do("drop", s), Do("clear", s)>>
  BY DEF DisconnectBus
<1>3. /\ DisconnectBus(s) \in Seq(Steps) /\ Len(DisconnectBus(s)) = 3
      /\ DisconnectBus(s) # <<>> /\ Head(DisconnectBus(s)) = Do("stop", s)
  BY <1>2 DEF Steps, Ops, Do
<1> DEFINE t == DisconnectBus(s)
<1>4. /\ t[1] = Do("stop", s) /\ t[1 + 1] = Do("drop", s)
      /\ t[2] = Do("drop", s) /\ t[2 + 1] = Do("clear", s) /\ t[3] = Do("clear", s)
  BY <1>2
<1>5. \A op \in {"stop", "drop", "clear"} : Do(op, s).op \in OpsOf(c) /\ Do(op, s).arm = s
  BY <1>1 DEF Do
<1>6. /\ After(k, c, Do("stop", s)) = Do("drop", s) /\ After(k, c, Do("drop", s)) = Do("clear", s)
  BY AfterSteps DEF Arms
<1> HIDE DEF t
<1>7. ASSUME NEW i \in 1..3
      PROVE  /\ t[i].op \in OpsOf(c) /\ t[i].arm = s
             /\ IF i = 3 THEN After(k, c, t[i]) = After(k, c, Do("clear", s))
                ELSE t[i + 1] = After(k, c, t[i])
  <2>1. CASE i = 1 BY <1>4, <1>5, <1>6, <2>1
  <2>2. CASE i = 2 BY <1>4, <1>5, <1>6, <2>2
  <2>3. CASE i = 3 BY <1>4, <1>5, <1>6, <2>3
  <2> QED BY <2>1, <2>2, <2>3
<1> QED BY <1>3, <1>7 DEF Chain, t

LEMMA OneChained ==
    ASSUME NEW k, NEW c, NEW step \in Steps, step.op \in OpsOf(c),
           k = "single" => step.arm = "left"
    PROVE  /\ Chain(<<step>>, k, c, After(k, c, step))
           /\ <<step>> # <<>> /\ Len(<<step>>) = 1 /\ Head(<<step>>) = step
BY DEF Chain

LEMMA LeavingChained ==
    ASSUME NEW k, NEW c \in {"cleanup", "disconnect"}, NEW s \in Arms, k = "single" => s = "left"
    PROVE  /\ Chain(ArmDisconnect(s), k, c, After(k, c, Do("clear", s)))
           /\ ArmDisconnect(s) # <<>> /\ Len(ArmDisconnect(s)) = 4
           /\ Head(ArmDisconnect(s)) = Do("check", s)
<1> DEFINE C == <<Do("check", s)>>
           B == DisconnectBus(s)
           z == After(k, c, Do("clear", s))
<1>1. Chain(C, k, c, Do("stop", s)) /\ C # <<>> /\ Len(C) = 1 /\ Head(C) = Do("check", s)
  <2>1. Do("check", s) \in Steps /\ Do("check", s).op = "check" /\ Do("check", s).arm = s
    BY DEF Steps, Ops, Do
  <2>2. "check" \in OpsOf(c)
    BY OpsOfCalls
  <2>3. After(k, c, Do("check", s)) = Do("stop", s)
    BY AfterSteps DEF Arms
  <2> QED BY <2>1, <2>2, <2>3, OneChained
<1>2. Chain(B, k, c, z) /\ B # <<>> /\ Len(B) = 3 /\ Head(B) = Do("stop", s)
  BY BusChained
<1>3. ArmDisconnect(s) = C \o B
  BY DEF ArmDisconnect
<1> HIDE DEF C, B, z
<1>4. Chain(C, k, c, Head(B))
  BY <1>1, <1>2
<1>5. /\ Chain(C \o B, k, c, z) /\ C \o B # <<>> /\ Len(C \o B) = Len(C) + Len(B)
      /\ Head(C \o B) = Head(C)
  <2>1. C # <<>> /\ B # <<>> /\ Chain(B, k, c, z)
    BY <1>1, <1>2
  <2> QED BY <1>4, <2>1, Chained
<1> QED BY <1>1, <1>2, <1>3, <1>5 DEF z

LEMMA DisconnectLinked ==
    ASSUME kind \in AllKinds
    PROVE  /\ Linked(Disconnect, kind, "disconnect") /\ Disconnect # <<>>
           /\ Head(Disconnect) = Do("check", "left")
<1> DEFINE L == ArmDisconnect("left")
           R == ArmDisconnect("right")
           C == <<Do("cameras off", "left")>>
<1>1. /\ L # <<>> /\ Len(L) = 4 /\ Head(L) = Do("check", "left")
      /\ Chain(L, kind, "disconnect",
               IF kind = "single" THEN Do("cameras off", "left") ELSE Do("check", "right"))
  <2>1. After(kind, "disconnect", Do("clear", "left"))
        = IF kind = "single" THEN Do("cameras off", "left") ELSE Do("check", "right")
    BY DEF After, Do
  <2> QED BY <2>1, LeavingChained DEF Arms
<1>2. /\ kind # "single" => R # <<>> /\ Len(R) = 4 /\ Head(R) = Do("check", "right")
      /\ kind # "single" => Chain(R, kind, "disconnect", Do("cameras off", "left"))
  <2>1. After(kind, "disconnect", Do("clear", "right")) = Do("cameras off", "left")
    BY DEF After, Do
  <2> QED BY <2>1, LeavingChained DEF Arms
<1>3. /\ C # <<>> /\ Len(C) = 1 /\ Head(C) = Do("cameras off", "left")
      /\ Chain(C, kind, "disconnect", End)
  <2> DEFINE off == Do("cameras off", "left")
  <2>1. off \in Steps /\ off.op = "cameras off" /\ off.arm = "left"
    BY DEF Steps, Ops, Do, Arms
  <2>2. "cameras off" \in OpsOf("disconnect")
    BY OpsOfCalls
  <2>3. After(kind, "disconnect", off) = End
    BY AfterSteps DEF Arms
  <2> QED BY <2>1, <2>2, <2>3, OneChained
<1>4. Disconnect = IF kind = "single" THEN L \o C ELSE (L \o R) \o C
  BY DEF Disconnect, Both, Arms
<1> HIDE DEF L, R, C
<1>5. ASSUME kind = "single"
      PROVE  Linked(L \o C, kind, "disconnect") /\ L \o C # <<>> /\ Head(L \o C) = Head(L)
  <2>1. /\ Chain(L, kind, "disconnect", Head(C)) /\ L # <<>> /\ C # <<>>
        /\ Chain(C, kind, "disconnect", End)
    BY <1>1, <1>3, <1>5
  <2>2. Chain(L \o C, kind, "disconnect", End) /\ L \o C # <<>>
        /\ Len(L \o C) = Len(L) + Len(C) /\ Head(L \o C) = Head(L)
    BY <2>1, Chained
  <2>3. Len(L \o C) = 5
    <3>1. Len(L) = 4 /\ Len(C) = 1 BY <1>1, <1>3
    <3>2. Len(L \o C) = Len(L) + Len(C) BY <2>2
    <3> QED BY <3>1, <3>2
  <2> QED BY <2>2, <2>3 DEF Linked
<1>6. ASSUME kind # "single"
      PROVE  /\ Linked((L \o R) \o C, kind, "disconnect")
             /\ (L \o R) \o C # <<>> /\ Head((L \o R) \o C) = Head(L)
  <2>1. /\ Chain(L, kind, "disconnect", Head(R)) /\ Chain(R, kind, "disconnect", Head(C))
        /\ Chain(C, kind, "disconnect", End) /\ L # <<>> /\ R # <<>> /\ C # <<>>
    BY <1>1, <1>2, <1>3, <1>6
  <2>2. /\ Chain((L \o R) \o C, kind, "disconnect", End) /\ (L \o R) \o C # <<>>
        /\ Len((L \o R) \o C) = Len(L) + Len(R) + Len(C)
        /\ Head((L \o R) \o C) = Head(L)
    BY <2>1, ThreeChained
  <2>3. Len((L \o R) \o C) = 9
    <3>1. Len(L) = 4 /\ Len(R) = 4 /\ Len(C) = 1 BY <1>1, <1>2, <1>3, <1>6
    <3>2. Len((L \o R) \o C) = Len(L) + Len(R) + Len(C) BY <2>2
    <3> QED BY <3>1, <3>2
  <2> QED BY <2>2, <2>3 DEF Linked
<1> QED BY <1>1, <1>4, <1>5, <1>6

LEMMA CleanupLinked ==
    ASSUME kind \in AllKinds
    PROVE  /\ Linked(Cleanup, kind, "cleanup") /\ Cleanup # <<>>
           /\ Head(Cleanup) \in {Do("check", "left"), Do("stop", "left")}
<1>1. CASE kind = "single"
  <2> DEFINE B == DisconnectBus("left")
  <2>1. Cleanup = B /\ After(kind, "cleanup", Do("clear", "left")) = End
    BY <1>1 DEF Cleanup, After, Do
  <2>2. /\ Chain(B, kind, "cleanup", After(kind, "cleanup", Do("clear", "left")))
        /\ B # <<>> /\ Len(B) = 3 /\ Head(B) = Do("stop", "left")
    BY BusChained DEF Arms
  <2> HIDE DEF B
  <2> QED BY <2>1, <2>2 DEF Linked
<1>2. CASE kind # "single"
  <2> DEFINE L == ArmDisconnect("left")
             R == ArmDisconnect("right")
  <2>1. /\ After(kind, "cleanup", Do("clear", "left")) = Do("check", "right")
        /\ After(kind, "cleanup", Do("clear", "right")) = End
    BY <1>2 DEF After, Do
  <2>2. /\ Chain(L, kind, "cleanup", Do("check", "right"))
        /\ L # <<>> /\ Len(L) = 4 /\ Head(L) = Do("check", "left")
    BY <1>2, <2>1, LeavingChained DEF Arms
  <2>3. /\ Chain(R, kind, "cleanup", End)
        /\ R # <<>> /\ Len(R) = 4 /\ Head(R) = Do("check", "right")
    BY <1>2, <2>1, LeavingChained DEF Arms
  <2>4. Cleanup = L \o R
    BY <1>2 DEF Cleanup, Both, Arms
  <2> HIDE DEF L, R
  <2>5. Chain(L, kind, "cleanup", Head(R))
    BY <2>2, <2>3
  <2>6. /\ Chain(L \o R, kind, "cleanup", End) /\ L \o R # <<>>
        /\ Len(L \o R) = Len(L) + Len(R) /\ Head(L \o R) = Head(L)
    <3>1. L # <<>> /\ R # <<>> /\ Chain(R, kind, "cleanup", End)
      BY <2>2, <2>3
    <3> QED BY <2>5, <3>1, Chained
  <2>7. Len(L \o R) = 8
    BY <2>2, <2>3, <2>6
  <2> QED BY <2>2, <2>4, <2>6, <2>7 DEF Linked
<1> QED BY <1>1, <1>2

LEMMA EachArmLinked ==
    ASSUME kind \in AllKinds, NEW op \in {"take", "send"}, NEW c, OpsOf(c) = {op}
    PROVE  LET script2 == Both([s \in Arms |-> <<Do(op, s)>>])
           IN Linked(script2, kind, c) /\ script2 # <<>> /\ Head(script2) = Do(op, "left")
<1> DEFINE L == <<Do(op, "left")>>
           R == <<Do(op, "right")>>
<1>0. ASSUME NEW s \in Arms
      PROVE  Do(op, s) \in Steps /\ Do(op, s).op \in OpsOf(c) /\ Do(op, s).arm = s
  BY DEF Do, Steps, Ops
<1>1. /\ L # <<>> /\ Len(L) = 1 /\ Head(L) = Do(op, "left")
      /\ Chain(L, kind, c, IF kind = "single" THEN End ELSE Do(op, "right"))
  <2>1. After(kind, c, Do(op, "left")) = IF kind = "single" THEN End ELSE Do(op, "right")
    BY AfterSteps DEF Arms
  <2>2. "left" \in Arms
    BY DEF Arms
  <2> QED BY <1>0, <2>1, <2>2, OneChained
<1>2. /\ R # <<>> /\ Len(R) = 1 /\ Head(R) = Do(op, "right")
      /\ kind # "single" => Chain(R, kind, c, End)
  <2>1. After(kind, c, Do(op, "right")) = End
    BY AfterSteps DEF Arms
  <2>2. "right" \in Arms
    BY DEF Arms
  <2> QED BY <1>0, <2>1, <2>2, OneChained
<1>3. Both([s \in Arms |-> <<Do(op, s)>>]) = IF kind = "single" THEN L ELSE L \o R
  BY DEF Both, Arms
<1> HIDE DEF L, R
<1>4. ASSUME kind # "single"
      PROVE  Linked(L \o R, kind, c) /\ L \o R # <<>> /\ Head(L \o R) = Head(L)
  <2>1. /\ Chain(L, kind, c, Head(R)) /\ Chain(R, kind, c, End) /\ L # <<>> /\ R # <<>>
    BY <1>1, <1>2, <1>4
  <2>2. Chain(L \o R, kind, c, End) /\ L \o R # <<>>
        /\ Len(L \o R) = Len(L) + Len(R) /\ Head(L \o R) = Head(L)
    BY <2>1, Chained
  <2>3. Len(L \o R) = 2
    BY <1>1, <1>2, <2>2
  <2> QED BY <2>2, <2>3 DEF Linked
<1>5. ASSUME kind = "single" PROVE Linked(L, kind, c)
  BY <1>1, <1>5 DEF Linked
<1> QED BY <1>1, <1>3, <1>4, <1>5
-----------------------------------------------------------------------------
(* What the step at hand and its successor are, from ScriptFollowed.         *)
LEMMA KindsKnown == SessionTyped => kind \in AllKinds
BY HostAssumption DEF SessionTyped, AllKinds

LEMMA Continues ==
    ASSUME SessionTyped, ScriptFollowed, todo # <<>>, todo' = Tail(todo), raised' = raised,
           call' = call, kind' = kind
    PROVE  /\ ScriptFollowed' /\ Doing' = Doing
           /\ IF todo' = <<>> THEN After(kind, Doing, Head(todo)) = End
              ELSE Head(todo') = After(kind, Doing, Head(todo))
<1>1. Linked(todo, kind, Doing)
  BY DEF ScriptFollowed
<1>2. /\ Linked(Tail(todo), kind, Doing)
      /\ IF Tail(todo) = <<>> THEN After(kind, Doing, Head(todo)) = End
         ELSE Head(Tail(todo)) = After(kind, Doing, Head(todo))
  BY <1>1, TailLinked
<1>3. Doing' = Doing
  BY DEF Doing
<1> QED BY <1>2, <1>3 DEF ScriptFollowed

LEMMA EmptyFollowed == todo' = <<>> => ScriptFollowed'
BY DEF ScriptFollowed, Linked, Chain

LEMMA StepKnown ==
    ASSUME SessionTyped, ScriptFollowed, todo # <<>>
    PROVE  /\ Here \in Arms /\ (kind = "single" => Here = "left")
           /\ Head(todo) = Do(Op, Here)
           /\ Op \in {"guard", "new", "start", "up", "cameras"} => call = "connect" /\ raised = FALSE
           /\ Op \in {"check", "stop", "drop", "clear"} =>
                 (call = "disconnect" \/ (call = "connect" /\ raised = TRUE))
           /\ Op = "cameras off" => call = "disconnect"
           /\ Op = "take" => call \in {"toggle", "rollback"}
           /\ Op = "send" => call = "send"
           /\ Op \in Ops
<1>1. /\ Head(todo) \in Steps /\ Op \in OpsOf(Doing) /\ (kind = "single" => Here = "left")
  BY TailLinked DEF ScriptFollowed, Op, Here
<1>2. Here \in Arms /\ Op \in Ops /\ Head(todo) = Do(Op, Here)
  BY <1>1 DEF Steps, Do, Op, Here
<1>3. Doing \in {"none", "connect", "cleanup", "disconnect", "toggle", "rollback", "send"}
  BY DEF Doing, SessionTyped
<1>4. /\ Op \in {"guard", "new", "start", "up", "cameras"} => Doing = "connect"
      /\ Op \in {"check", "stop", "drop", "clear"} => Doing \in {"disconnect", "cleanup"}
      /\ Op = "cameras off" => Doing = "disconnect"
      /\ Op = "take" => Doing \in {"toggle", "rollback"}
      /\ Op = "send" => Doing = "send"
  BY <1>1, <1>3, OpsOfCalls
<1> QED BY <1>1, <1>2, <1>4 DEF Doing, SessionTyped
LEMMA NextStep ==
    ASSUME SessionTyped, ScriptFollowed, todo # <<>>, todo' = Tail(todo), raised' = raised,
           call' = call, kind' = kind
    PROVE  /\ ScriptFollowed'
           /\ Op = "guard" => todo' # <<>> /\ Op' = "new" /\ Here' = Here
           /\ Op = "new"   => todo' # <<>> /\ Op' = "start" /\ Here' = Here
           /\ Op = "start" => todo' # <<>> /\ Op' = "up" /\ Here' = Here
           /\ Op = "up"    => /\ todo' # <<>>
                              /\ \/ kind # "single" /\ Here = "left" /\ Op' = "guard" /\ Here' = "right"
                                 \/ (kind = "single" \/ Here = "right") /\ Op' = "cameras"
           /\ Op = "cameras" => todo' = <<>>
           /\ Op = "check" => todo' # <<>> /\ Op' = "stop" /\ Here' = Here
           /\ Op = "stop"  => todo' # <<>> /\ Op' = "drop" /\ Here' = Here
           /\ Op = "drop"  => todo' # <<>> /\ Op' = "clear" /\ Here' = Here
           /\ Op = "clear" =>
                 \/ /\ kind # "single" /\ Here = "left"
                    /\ todo' # <<>> /\ Op' = "check" /\ Here' = "right"
                 \/ /\ kind = "single" \/ Here = "right"
                    /\ todo' # <<>> /\ Op' = "cameras off"
                 \/ (kind = "single" \/ Here = "right") /\ todo' = <<>> /\ call # "disconnect"
           /\ Op = "cameras off" => todo' = <<>>
           /\ Op \in {"take", "send"} =>
                 \/ kind # "single" /\ Here = "left" /\ todo' # <<>> /\ Op' = Op /\ Here' = "right"
                 \/ (kind = "single" \/ Here = "right") /\ todo' = <<>>
<1> DEFINE h == Head(todo)
           s == Here
           n == Head(todo')
<1>1. /\ ScriptFollowed'
      /\ IF todo' = <<>> THEN After(kind, Doing, h) = End ELSE n = After(kind, Doing, h)
  BY Continues
<1>2. s \in Arms /\ h = Do(Op, s) /\ (kind = "single" => s = "left") /\ Op \in Ops
  BY StepKnown
<1>3. Op' = n.op /\ Here' = n.arm
  BY DEF Op, Here
<1>4. (Doing = "disconnect") <=> (call = "disconnect")
  BY DEF Doing, SessionTyped
<1> DEFINE a == After(kind, Doing, h)
<1>5. /\ Op = "guard" => a = Do("new", s)
      /\ Op = "new"   => a = Do("start", s)
      /\ Op = "start" => a = Do("up", s)
      /\ Op = "up"    => a = IF kind # "single" /\ s = "left" THEN Do("guard", "right")
                             ELSE Do("cameras", "left")
      /\ Op = "cameras" => a = End
      /\ Op = "check" => a = Do("stop", s)
      /\ Op = "stop"  => a = Do("drop", s)
      /\ Op = "drop"  => a = Do("clear", s)
      /\ Op = "clear" => a = IF kind # "single" /\ s = "left" THEN Do("check", "right")
                             ELSE IF Doing = "disconnect" THEN Do("cameras off", "left") ELSE End
      /\ Op = "cameras off" => a = End
      /\ Op \in {"take", "send"} =>
            a = IF kind # "single" /\ s = "left" THEN Do(Op, "right") ELSE End
  <2> DEFINE A(op) == After(kind, Doing, Do(op, s))
  <2>1. a = A(Op)
    BY <1>2
  <2>2. /\ A("guard") = Do("new", s) /\ A("new") = Do("start", s) /\ A("start") = Do("up", s)
        /\ A("up") = IF kind # "single" /\ s = "left" THEN Do("guard", "right")
                     ELSE Do("cameras", "left")
        /\ A("cameras") = End
        /\ A("check") = Do("stop", s) /\ A("stop") = Do("drop", s) /\ A("drop") = Do("clear", s)
        /\ A("clear") = IF kind # "single" /\ s = "left" THEN Do("check", "right")
                        ELSE IF Doing = "disconnect" THEN Do("cameras off", "left") ELSE End
        /\ A("cameras off") = End
    BY <1>2, AfterSteps DEF Arms
  <2>3. \A op \in {"take", "send"} :
            A(op) = IF kind # "single" /\ s = "left" THEN Do(op, "right") ELSE End
    BY <1>2, AfterSteps DEF Arms
  <2> HIDE DEF A, s, a
  <2> QED BY <2>1, <2>2, <2>3
<1>6. \A op \in Ops, arm \in Arms :
         Do(op, arm) # End /\ Do(op, arm).op = op /\ Do(op, arm).arm = arm
  BY DEF Do, End, Ops
<1>7. {"guard", "new", "start", "up", "cameras", "check", "stop", "drop", "clear",
       "cameras off", "take", "send"} = Ops /\ {"left", "right"} = Arms
  BY DEF Ops, Arms
<1> HIDE DEF h, s, n, a
<1>8. ASSUME NEW op \in Ops, NEW arm \in Arms, a = Do(op, arm)
      PROVE  todo' # <<>> /\ Op' = op /\ Here' = arm
  <2>1. a # End /\ Do(op, arm).op = op /\ Do(op, arm).arm = arm
    BY <1>6, <1>8
  <2>2. todo' # <<>> /\ n = a
    BY <1>1, <2>1 DEF a
  <2> QED BY <1>3, <1>8, <2>1, <2>2
<1>9. ASSUME a = End PROVE todo' = <<>>
  <2>1. ASSUME todo' # <<>> PROVE n \in Steps
    BY <1>1, <2>1, TailLinked DEF ScriptFollowed, n
  <2>2. End \notin Steps
    BY DEF End, Do, Steps, Ops
  <2> QED BY <1>1, <1>9, <2>1, <2>2 DEF a
<1> QED
  BY <1>1, <1>2, <1>4, <1>5, <1>7, <1>8, <1>9 DEF s
-----------------------------------------------------------------------------
(* One field of one loop is set: everything else stays.  The updates with a
   Boolean are named, so that the provers need not look into them.          *)
LEMMA LoopPut ==
    ASSUME NEW q \in Seq(Loop), NEW l \in 1..Len(q), NEW x \in Loop, NEW p,
           p = [q EXCEPT ![l] = x]
    PROVE  /\ p \in Seq(Loop) /\ Len(p) = Len(q) /\ p[l] = x
           /\ \A j \in 1..Len(q) : j # l => p[j] = q[j]
BY ExceptSeq

LEMMA SetThread ==
    ASSUME NEW q \in Seq(Loop), NEW l \in 1..Len(q), NEW v \in {"none", "live", "gone"}, NEW p,
           p = [q EXCEPT ![l].thread = v]
    PROVE  /\ p \in Seq(Loop) /\ Len(p) = Len(q)
           /\ \A j \in 1..Len(q) : j # l => p[j] = q[j]
           /\ p[l].arm = q[l].arm /\ p[l].thread = v /\ p[l].release = q[l].release
           /\ p[l].wrapped = q[l].wrapped /\ p[l].kept = q[l].kept
<1> DEFINE x == [q[l] EXCEPT !.thread = v]
<1>1. q[l] \in Loop
  OBVIOUS
<1>2. x \in Loop /\ x.arm = q[l].arm /\ x.thread = v /\ x.release = q[l].release
           /\ x.wrapped = q[l].wrapped /\ x.kept = q[l].kept
  BY <1>1 DEF Loop
<1>3. p = [q EXCEPT ![l] = x]
  OBVIOUS
<1> HIDE DEF x
<1>4. /\ p \in Seq(Loop) /\ Len(p) = Len(q) /\ p[l] = x
      /\ \A j \in 1..Len(q) : j # l => p[j] = q[j]
  <2>1. x \in Loop
    BY <1>2
  <2> QED BY <1>3, <2>1, LoopPut
<1> QED BY <1>2, <1>4

ReleaseIn(p, q, l, v) == p = [q EXCEPT ![l].release = v]

LEMMA SetRelease ==
    ASSUME NEW q \in Seq(Loop), NEW l \in 1..Len(q), NEW v \in BOOLEAN, NEW p,
           ReleaseIn(p, q, l, v)
    PROVE  /\ p \in Seq(Loop) /\ Len(p) = Len(q)
           /\ \A j \in 1..Len(q) : j # l => p[j] = q[j]
           /\ p[l].arm = q[l].arm /\ p[l].thread = q[l].thread /\ p[l].release = v
           /\ p[l].wrapped = q[l].wrapped /\ p[l].kept = q[l].kept
<1> DEFINE x == [q[l] EXCEPT !.release = v]
<1>1. q[l] \in Loop
  OBVIOUS
<1>2. /\ x \in Loop /\ x.arm = q[l].arm /\ x.thread = q[l].thread /\ x.release = v
      /\ x.wrapped = q[l].wrapped /\ x.kept = q[l].kept
  BY <1>1 DEF Loop
<1>3. p = [q EXCEPT ![l] = x]
  BY DEF ReleaseIn
<1> HIDE DEF x
<1>4. /\ p \in Seq(Loop) /\ Len(p) = Len(q) /\ p[l] = x
      /\ \A j \in 1..Len(q) : j # l => p[j] = q[j]
  <2>1. x \in Loop
    BY <1>2
  <2> QED BY <1>3, <2>1, LoopPut
<1> QED BY <1>2, <1>4

UnwrappedIn(p, q, l) == p = [q EXCEPT ![l].wrapped = FALSE]

LEMMA SetWrapped ==
    ASSUME NEW q \in Seq(Loop), NEW l \in 1..Len(q), NEW p, UnwrappedIn(p, q, l)
    PROVE  /\ p \in Seq(Loop) /\ Len(p) = Len(q)
           /\ \A j \in 1..Len(q) : j # l => p[j] = q[j]
           /\ p[l].arm = q[l].arm /\ p[l].thread = q[l].thread /\ p[l].release = q[l].release
           /\ ~p[l].wrapped /\ p[l].kept = q[l].kept
<1> DEFINE x == [q[l] EXCEPT !.wrapped = FALSE]
<1>1. q[l] \in Loop
  OBVIOUS
<1>2. /\ x \in Loop /\ x.arm = q[l].arm /\ x.thread = q[l].thread /\ x.release = q[l].release
      /\ ~x.wrapped /\ x.kept = q[l].kept
  BY <1>1 DEF Loop
<1>3. [q EXCEPT ![l] = x] \in Seq(Loop) /\ Len([q EXCEPT ![l] = x]) = Len(q)
  <2>1. x \in Loop
    BY <1>2
  <2> HIDE DEF x
  <2> QED BY <2>1, ExceptSeq
<1>4. p \in Seq(Loop) /\ Len(p) = Len(q) /\ p[l] = x
  BY <1>3 DEF UnwrappedIn
<1>5. \A j \in 1..Len(q) : j # l => p[j] = q[j]
  BY DEF UnwrappedIn
<1> HIDE DEF x
<1> QED BY <1>2, <1>4, <1>5

KeptIn(p, q, l) == p = [q EXCEPT ![l].kept = TRUE]

LEMMA SetKept ==
    ASSUME NEW q \in Seq(Loop), NEW l \in 1..Len(q), NEW p, KeptIn(p, q, l)
    PROVE  /\ p \in Seq(Loop) /\ Len(p) = Len(q)
           /\ \A j \in 1..Len(q) : j # l => p[j] = q[j]
           /\ p[l].arm = q[l].arm /\ p[l].thread = q[l].thread /\ p[l].release = q[l].release
           /\ p[l].wrapped = q[l].wrapped /\ p[l].kept
<1> DEFINE x == [q[l] EXCEPT !.kept = TRUE]
<1>1. q[l] \in Loop
  OBVIOUS
<1>2. /\ x \in Loop /\ x.arm = q[l].arm /\ x.thread = q[l].thread /\ x.release = q[l].release
      /\ x.wrapped = q[l].wrapped /\ x.kept
  BY <1>1 DEF Loop
<1>3. [q EXCEPT ![l] = x] \in Seq(Loop) /\ Len([q EXCEPT ![l] = x]) = Len(q)
  <2>1. x \in Loop
    BY <1>2
  <2> HIDE DEF x
  <2> QED BY <2>1, ExceptSeq
<1>4. p \in Seq(Loop) /\ Len(p) = Len(q) /\ p[l] = x
  BY <1>3 DEF KeptIn
<1>5. \A j \in 1..Len(q) : j # l => p[j] = q[j]
  BY DEF KeptIn
<1> HIDE DEF x
<1> QED BY <1>2, <1>4, <1>5

LEMMA DestroyedLoop ==
    ASSUME loops \in Seq(Loop), NEW l \in 1..Len(loops), NEW d \in Destroyed(l)
    PROVE  /\ d \in Loop /\ d.arm = loops[l].arm /\ d.release = loops[l].release
           /\ d.kept = loops[l].kept /\ d.thread \in {loops[l].thread, "gone"}
<1>1. loops[l] \in Loop
  OBVIOUS
<1>2. PICK t \in {loops[l].thread, "gone"} : d = [loops[l] EXCEPT !.wrapped = FALSE, !.thread = t]
  BY DEF Destroyed
<1>3. t \in {"none", "live", "gone"}
  BY <1>1 DEF Loop
<1> QED BY <1>1, <1>2, <1>3 DEF Loop

LEMMA JoinedLoop ==
    ASSUME loops \in Seq(Loop), NEW l \in 1..Len(loops)
    PROVE  /\ Joined(l) \in Loop /\ Joined(l).arm = loops[l].arm
           /\ Joined(l).release = loops[l].release /\ Joined(l).wrapped = loops[l].wrapped
           /\ Joined(l).thread = "gone"
<1>1. loops[l] \in Loop
  OBVIOUS
<1> QED BY <1>1 DEF Joined, Loop

LEMMA PowersKnown ==
    ASSUME NEW l, NEW after PROVE Powers(l, after) \subseteq {power, [power EXCEPT ![loops[l].arm] = "limp"]}
BY DEF Powers
-----------------------------------------------------------------------------
(* The steps that leave the loops alone, then those that change one of them,
   then New, each preserves HostInv.                                        *)
ControlOnly ==
    /\ UNCHANGED <<kind, old_build, loops, rt, power, wedged, call, asked, took, scratch,
                   promise, pub, shown, script>>
    /\ raised' \in BOOLEAN /\ cams_on' \subseteq Cameras

LEMMA ControlKeeps ==
    ASSUME HostInv, ControlOnly, todo # <<>>, Op # "clear"
    PROVE  /\ SessionTyped' /\ OutsideTyped' /\ CallsInPlace' /\ ThreadsAreOwned' /\ Picked'
           /\ Wrapped' /\ (bus_connected' = bus_connected => ArmsTyped')
           /\ (~Toggling => Settings')
<1> USE DEF HostInv, ControlOnly
<1>1. SessionTyped' /\ CallsInPlace'
  BY DEF SessionTyped, CallsInPlace
<1>2. OutsideTyped'
  BY DEF OutsideTyped
<1>3. bus_connected' = bus_connected => ArmsTyped'
  BY DEF ArmsTyped
<1>4. ThreadsAreOwned' /\ Picked'
  BY DEF ThreadsAreOwned, Picked, Live, GivenUp
<1>5. Wrapped'
  BY DEF Wrapped, At, Op
<1>6. ~Toggling => Settings'
  BY DEF Settings, Toggling
<1> QED BY <1>1, <1>2, <1>3, <1>4, <1>5, <1>6

LEMMA RoomKeeps ==
    ASSUME Room, ArmsTyped, Len(loops') = Len(loops), script' = script, kind' = kind,
           LoopsToCome' \in {0, LoopsToCome}
    PROVE  Room'
<1>1. Len(loops) \in Nat /\ LoopsToCome \in {0, 1, 2} /\ MaxLoops \in Nat
  BY HostAssumption DEF ArmsTyped, LoopsToCome
<1> QED BY <1>1 DEF Room

LEMMA GuardKeeps ==
    ASSUME HostInv, Guard, script' = script PROVE HostInv'
<1> USE DEF HostInv
<1>1. ControlOnly /\ todo # <<>> /\ Op = "guard" /\ bus_connected' = bus_connected
  BY DEF Guard, ControlOnly, At, Op, arms, outside, Quiet, fixed, readers, Continue, Throw,
         SessionTyped, OutsideTyped
<1>2. Here \in Arms /\ (kind = "single" => Here = "left") /\ call = "connect" /\ raised = FALSE
  BY <1>1, StepKnown
<1>3. \/ /\ todo' # <<>> /\ Op' = "new" /\ Here' = Here
         /\ kind # "single" => rt[Here] = None
         /\ ScriptFollowed'
      \/ todo' = <<>>
  <2>1. CASE ArmUp(Here) /\ (kind = "single" => cams_on = Cameras)
    BY <2>1 DEF Guard, Throw
  <2>2. CASE ~(ArmUp(Here) /\ (kind = "single" => cams_on = Cameras))
    <3>1. todo' = Tail(todo) /\ raised' = raised
      BY <2>2 DEF Guard, Continue
    <3> QED BY <1>1, <2>2, <3>1, NextStep DEF ArmUp, ControlOnly
  <2> QED BY <2>1, <2>2
<1>4. ScriptFollowed'
  BY <1>3, EmptyFollowed
<1>5. Room'
  <2>1. LoopsToCome' \in {0, LoopsToCome}
    BY <1>1, <1>3 DEF LoopsToCome, Connecting, ControlOnly
  <2> QED BY <1>1, <2>1, RoomKeeps DEF ControlOnly
<1>6. Stage'
  BY <1>1, <1>2, <1>3 DEF Stage, At, Op, Connecting, Leaving, Here, GivenUp, Live, ControlOnly
<1>7. RightNeedsLeft'
  BY <1>1, <1>3 DEF RightNeedsLeft, Leaving, ControlOnly
<1> QED BY <1>1, <1>2, <1>4, <1>5, <1>6, <1>7, ControlKeeps DEF Toggling

LEMMA UpKeeps ==
    ASSUME HostInv, Up, script' = script PROVE HostInv'
<1> USE DEF HostInv
<1>1. /\ ControlOnly /\ todo # <<>> /\ Op = "up" /\ todo' = Tail(todo) /\ raised' = raised
      /\ bus_connected' = [bus_connected EXCEPT ![Here] = TRUE]
  BY DEF Up, ControlOnly, At, Op, outside, Quiet, fixed, readers, Continue, SessionTyped,
         OutsideTyped
<1>2. Here \in Arms /\ (kind = "single" => Here = "left") /\ call = "connect" /\ raised = FALSE
  BY <1>1, StepKnown
<1>3. /\ ScriptFollowed' /\ todo' # <<>>
      /\ \/ kind # "single" /\ Here = "left" /\ Op' = "guard" /\ Here' = "right"
         \/ (kind = "single" \/ Here = "right") /\ Op' = "cameras"
  BY <1>1, NextStep DEF ControlOnly
<1>4. rt[Here] # None
  BY <1>1 DEF Stage, At, Op
<1>5. Room'
  <2>1. LoopsToCome' \in {0, LoopsToCome}
    BY <1>1, <1>2, <1>3 DEF LoopsToCome, Connecting, ControlOnly
  <2> QED BY <1>1, <2>1, RoomKeeps DEF ControlOnly
<1>6. Stage'
  BY <1>1, <1>2, <1>3, <1>4 DEF Stage, At, Op, Connecting, Leaving, Here, GivenUp, Live, ControlOnly
<1>7. RightNeedsLeft'
  BY <1>1, <1>3 DEF RightNeedsLeft, Leaving, ControlOnly
<1>8. ArmsTyped'
  BY <1>1, <1>2, <1>4 DEF ArmsTyped, ControlOnly
<1> QED BY <1>1, <1>2, <1>3, <1>5, <1>6, <1>7, <1>8, ControlKeeps DEF Toggling

LEMMA CamerasUpKeeps ==
    ASSUME HostInv, CamerasUp, script' = script PROVE HostInv'
<1> USE DEF HostInv
<1>1. /\ ControlOnly /\ todo # <<>> /\ Op = "cameras" /\ bus_connected' = bus_connected
      /\ \/ todo' = Tail(todo) /\ raised' = raised
         \/ todo' = Cleanup /\ raised' = TRUE
  <2>1. cams_on' \subseteq Cameras /\ raised' \in BOOLEAN
    BY DEF CamerasUp, Continue, SessionTyped, OutsideTyped
  <2> QED
    BY <2>1 DEF CamerasUp, ControlOnly, At, Op, arms, Quiet, fixed, readers, Continue
<1>2. Here \in Arms /\ (kind = "single" => Here = "left") /\ call = "connect" /\ raised = FALSE
  BY <1>1, StepKnown
<1>3. /\ ScriptFollowed'
      /\ \/ todo' = <<>>
         \/ todo' # <<>> /\ Op' \in {"check", "stop"} /\ Here' = "left"
  <2>1. CASE todo' = Tail(todo) /\ raised' = raised
    BY <1>1, <2>1, NextStep DEF ControlOnly
  <2>2. CASE todo' = Cleanup /\ raised' = TRUE
    <3>1. Doing' = "cleanup" /\ kind' = kind
      BY <1>1, <1>2, <2>2 DEF Doing, ControlOnly
    <3>2. /\ Linked(Cleanup, kind, "cleanup") /\ Cleanup # <<>>
          /\ Head(Cleanup) \in {Do("check", "left"), Do("stop", "left")}
      BY CleanupLinked, KindsKnown
    <3>3. todo' # <<>> /\ Op' \in {"check", "stop"} /\ Here' = "left"
      BY <2>2, <3>2 DEF Op, Here, Do
    <3> QED BY <2>2, <3>1, <3>2, <3>3 DEF ScriptFollowed
  <2> QED BY <1>1, <2>1, <2>2
<1>5. Room'
  <2>1. LoopsToCome' \in {0, LoopsToCome}
    BY <1>1, <1>3 DEF LoopsToCome, Connecting, ControlOnly
  <2> QED BY <1>1, <2>1, RoomKeeps DEF ControlOnly
<1>6. Stage'
  BY <1>1, <1>2, <1>3 DEF Stage, At, Op, Connecting, Leaving, Here, GivenUp, Live, ControlOnly
<1>7. RightNeedsLeft'
  BY <1>1, <1>3 DEF RightNeedsLeft, Leaving, ControlOnly
<1> QED BY <1>1, <1>2, <1>3, <1>5, <1>6, <1>7, ControlKeeps DEF Toggling

LEMMA CheckKeeps ==
    ASSUME HostInv, Check, script' = script PROVE HostInv'
<1> USE DEF HostInv
<1>1. ControlOnly /\ todo # <<>> /\ Op = "check" /\ bus_connected' = bus_connected
  BY DEF Check, ControlOnly, At, Op, arms, outside, Quiet, fixed, readers, Continue, Throw,
         SessionTyped, OutsideTyped
<1>2. Here \in Arms /\ (kind = "single" => Here = "left") /\ call \in {"connect", "disconnect"}
  BY <1>1, StepKnown
<1>3. \/ todo' # <<>> /\ Op' = "stop" /\ Here' = Here /\ ScriptFollowed'
      \/ todo' = <<>> /\ (kind # "single" => rt[Here] = None)
  <2>1. CASE ArmUp(Here) \/ (kind = "single" /\ cams_on # {})
    <3>1. todo' = Tail(todo) /\ raised' = raised
      BY <2>1 DEF Check, Continue
    <3> QED BY <1>1, <3>1, NextStep DEF ControlOnly
  <2>2. CASE ~(ArmUp(Here) \/ (kind = "single" /\ cams_on # {}))
    BY <2>2 DEF Check, Throw, ArmUp
  <2> QED BY <2>1, <2>2
<1>4. ScriptFollowed'
  BY <1>3, EmptyFollowed
<1>5. Room'
  <2>1. LoopsToCome' = 0
    BY <1>1, <1>3 DEF LoopsToCome, Connecting
  <2> QED BY <1>1, <2>1, RoomKeeps DEF ControlOnly
<1>6. ASSUME kind # "single", todo' = <<>>
      PROVE  rt["left"] = None /\ rt["right"] = None
  <2>1. CASE Here = "left"
    BY <1>1, <1>3, <1>6, <2>1 DEF RightNeedsLeft
  <2>2. CASE Here = "right"
    BY <1>1, <1>3, <1>6, <2>2 DEF Stage, Leaving
  <2> QED BY <1>2, <2>1, <2>2 DEF Arms
<1>7. Stage'
  BY <1>1, <1>2, <1>3, <1>6
     DEF Stage, At, Op, Connecting, Leaving, Here, GivenUp, Live, ControlOnly, Arms
<1>8. RightNeedsLeft'
  BY <1>1, <1>3, <1>6 DEF RightNeedsLeft, Leaving, ControlOnly
<1> QED BY <1>1, <1>2, <1>4, <1>5, <1>7, <1>8, ControlKeeps DEF Toggling

LEMMA StopNobodyThereKeeps ==
    ASSUME HostInv, StopNobodyThere, script' = script PROVE HostInv'
<1> USE DEF HostInv
<1>1. /\ ControlOnly /\ todo # <<>> /\ Op = "stop" /\ bus_connected' = bus_connected
      /\ todo' = Tail(todo) /\ raised' = raised /\ ~Running(Here)
  BY DEF StopNobodyThere, ControlOnly, At, Op, arms, outside, Quiet, fixed, readers, Continue,
         SessionTyped, OutsideTyped
<1>2. Here \in Arms /\ (kind = "single" => Here = "left") /\ call \in {"connect", "disconnect"}
  BY <1>1, StepKnown
<1>3. todo' # <<>> /\ Op' = "drop" /\ Here' = Here /\ ScriptFollowed'
  BY <1>1, NextStep DEF ControlOnly
<1>5. Room'
  <2>1. LoopsToCome' = 0
    BY <1>1, <1>3 DEF LoopsToCome, Connecting
  <2> QED BY <1>1, <2>1, RoomKeeps DEF ControlOnly
<1>7. Stage'
  BY <1>1, <1>2, <1>3
     DEF Stage, At, Op, Connecting, Leaving, Here, GivenUp, Live, Running, ControlOnly
<1>8. RightNeedsLeft'
  BY <1>1, <1>3 DEF RightNeedsLeft, Leaving, ControlOnly
<1> QED BY <1>1, <1>2, <1>3, <1>5, <1>7, <1>8, ControlKeeps DEF Toggling

LEMMA CamerasOffKeeps ==
    ASSUME HostInv, CamerasOff, script' = script PROVE HostInv'
<1> USE DEF HostInv
<1>1. /\ ControlOnly /\ todo # <<>> /\ Op = "cameras off" /\ bus_connected' = bus_connected
  <2>1. cams_on' \subseteq Cameras /\ raised' \in BOOLEAN
    BY DEF CamerasOff, Continue, Throw, SessionTyped, OutsideTyped
  <2> QED
    BY <2>1 DEF CamerasOff, ControlOnly, At, Op, arms, Quiet, fixed, readers
<1>2. call = "disconnect"
  BY <1>1, StepKnown
<1>3. todo' = <<>>
  <2>1. CASE Throw
    BY <2>1 DEF Throw
  <2>2. CASE Continue
    BY <1>1, <2>2, NextStep DEF Continue, ControlOnly
  <2> QED BY <2>1, <2>2 DEF CamerasOff
<1>5. Room'
  <2>1. LoopsToCome' = 0
    BY <1>3 DEF LoopsToCome, Connecting
  <2> QED BY <1>1, <2>1, RoomKeeps DEF ControlOnly
<1>7. Stage' /\ RightNeedsLeft'
  BY <1>1, <1>2, <1>3
     DEF Stage, At, Op, Connecting, Leaving, Here, GivenUp, Live, ControlOnly, RightNeedsLeft, Arms
<1> QED BY <1>1, <1>2, <1>3, <1>5, <1>7, ControlKeeps, EmptyFollowed DEF Toggling

LEMMA SendKeeps ==
    ASSUME HostInv, Send, script' = script PROVE HostInv'
<1> USE DEF HostInv
<1>1. ControlOnly /\ todo # <<>> /\ Op = "send" /\ bus_connected' = bus_connected
  BY DEF Send, ControlOnly, At, Op, arms, outside, Quiet, fixed, readers, Continue, Throw,
         SessionTyped, OutsideTyped
<1>2. call = "send"
  BY <1>1, StepKnown
<1>3. (todo' # <<>> /\ Op' = "send" /\ ScriptFollowed') \/ todo' = <<>>
  <2>1. CASE Throw
    BY <2>1 DEF Throw
  <2>2. CASE Continue
    BY <1>1, <2>2, NextStep DEF Continue, ControlOnly
  <2> QED BY <2>1, <2>2 DEF Send
<1>4. ScriptFollowed'
  BY <1>3, EmptyFollowed
<1>5. Room'
  <2>1. LoopsToCome' = 0
    BY <1>3 DEF LoopsToCome, Connecting
  <2> QED BY <1>1, <2>1, RoomKeeps DEF ControlOnly
<1>7. Stage' /\ RightNeedsLeft'
  BY <1>1, <1>2, <1>3
     DEF Stage, At, Op, Connecting, Leaving, Here, GivenUp, Live, ControlOnly, RightNeedsLeft
<1> QED BY <1>1, <1>2, <1>4, <1>5, <1>7, ControlKeeps DEF Toggling
-----------------------------------------------------------------------------
(* Loop l may change, but not its arm.                                      *)
OneLoopChanges(l) ==
    /\ l \in 1..Len(loops) /\ loops' \in Seq(Loop) /\ Len(loops') = Len(loops)
    /\ \A j \in 1..Len(loops) : j # l => loops'[j] = loops[j]
    /\ loops'[l].arm = loops[l].arm

LEMMA OneLoopOwned ==
    ASSUME ArmsTyped, ThreadsAreOwned, NEW l, OneLoopChanges(l), kind' = kind, rt' = rt,
           loops'[l].thread = "live" =>
              loops'[l].kept \/ (loops'[l].wrapped /\ rt[loops[l].arm] = l)
    PROVE  ThreadsAreOwned'
<1>1. DOMAIN loops' = 1..Len(loops) /\ DOMAIN loops = 1..Len(loops)
  BY DEF ArmsTyped, OneLoopChanges
<1> SUFFICES ASSUME kind # "single", NEW j \in 1..Len(loops), loops'[j].thread = "live"
             PROVE  loops'[j].kept \/ (loops'[j].wrapped /\ rt[loops'[j].arm] = j)
  BY <1>1 DEF ThreadsAreOwned, Live
<1>2. CASE j = l
  BY <1>2 DEF OneLoopChanges
<1>3. CASE j # l
  BY <1>1, <1>3 DEF ThreadsAreOwned, Live, OneLoopChanges
<1> QED BY <1>2, <1>3

LEMMA OneLoopPicked ==
    ASSUME OutsideTyped, ArmsTyped, Picked, NEW l, OneLoopChanges(l), pub' = pub,
           loops'[l].thread = "live" => loops'[l].kept \/ loops'[l].wrapped
    PROVE  Picked'
<1> SUFFICES ASSUME pub.at = "picked"
             PROVE  /\ pub.holds # None /\ loops'[pub.holds].arm = pub.arm
                    /\ \/ loops'[pub.holds].wrapped \/ loops'[pub.holds].thread # "live"
                       \/ loops'[pub.holds].kept
  BY DEF Picked, GivenUp, Live
<1>1. pub.holds \in 1..Len(loops)
  <2>1. pub.holds \in 0..Len(loops) /\ pub.holds # 0 /\ Len(loops) \in Nat
    BY DEF OutsideTyped, Picked, None, ArmsTyped
  <2> QED BY <2>1
<1>2. CASE pub.holds = l
  BY <1>1, <1>2 DEF Picked, OneLoopChanges
<1>3. CASE pub.holds # l
  BY <1>1, <1>3 DEF Picked, GivenUp, Live, OneLoopChanges
<1> QED BY <1>2, <1>3

LEMMA OneLoopTyped ==
    ASSUME ArmsTyped, NEW l, OneLoopChanges(l), rt' = rt, bus_connected' = bus_connected,
           power' \in [Arms -> {"limp", "stiff"}]
    PROVE  ArmsTyped'
<1>1. ASSUME NEW s \in Arms, rt[s] # None PROVE loops'[rt[s]].arm = s
  <2>1. rt[s] \in 1..Len(loops) /\ loops[rt[s]].arm = s
    <3>1. rt[s] \in 0..Len(loops) /\ rt[s] # 0 /\ Len(loops) \in Nat
      BY <1>1 DEF ArmsTyped, None
    <3> QED BY <1>1, <3>1 DEF ArmsTyped
  <2> QED BY <2>1 DEF OneLoopChanges
<1> QED BY <1>1 DEF ArmsTyped, OneLoopChanges

LEMMA WrapperHere ==
    ASSUME ArmsTyped, NEW s \in Arms, rt[s] # None
    PROVE  /\ rt[s] \in 1..Len(loops) /\ Len(loops) \in Nat /\ loops[rt[s]].arm = s
           /\ loops \in Seq(Loop) /\ loops[rt[s]] \in Loop
           /\ \A r \in Arms : r # s => rt[r] # rt[s]
<1>1. rt[s] \in 0..Len(loops) /\ Len(loops) \in Nat /\ rt[s] # 0
  BY DEF ArmsTyped, None
<1>2. rt[s] \in 1..Len(loops)
  BY <1>1
<1> QED BY <1>2 DEF ArmsTyped, None

LEMMA StartKeeps ==
    ASSUME HostInv, Start, script' = script PROVE HostInv'
<1> USE DEF HostInv
<1> DEFINE l == rt[Here]
<1>1. /\ todo # <<>> /\ Op = "start"
      /\ kind' = kind /\ old_build' = old_build /\ rt' = rt /\ bus_connected' = bus_connected
      /\ wedged' = wedged /\ cams_on' = cams_on /\ call' = call /\ asked' = asked /\ took' = took
      /\ scratch' = scratch /\ promise' = promise /\ pub' = pub /\ shown' = shown
  BY DEF Start, At, Op, outside, Quiet, fixed, readers
<1>2. Here \in Arms /\ (kind = "single" => Here = "left") /\ call = "connect" /\ raised = FALSE
  BY <1>1, StepKnown
<1>3. rt[Here] # None
  BY <1>1 DEF Stage, At, Op
<1>4. /\ power' \in [Arms -> {"limp", "stiff"}]
      /\ \/ loops' = loops
         \/ loops' = [loops EXCEPT ![rt[Here]].thread = "live"]
      /\ \/ todo' = Tail(todo) /\ raised' = raised
         \/ todo' = <<>> /\ raised' = TRUE
  BY <1>2 DEF Start, Continue, Throw, ArmsTyped
<1>5. /\ OneLoopChanges(l) /\ loops'[l].release = loops[l].release
      /\ loops'[l].wrapped = loops[l].wrapped /\ loops'[l].kept = loops[l].kept
  <2>1. loops \in Seq(Loop) /\ l \in 1..Len(loops)
    BY <1>2, <1>3, WrapperHere
  <2>2. CASE loops' = loops BY <2>1, <2>2 DEF OneLoopChanges
  <2>3. CASE loops' = [loops EXCEPT ![rt[Here]].thread = "live"]
    <3> HIDE DEF l
    <3>1. loops' = [loops EXCEPT ![l].thread = "live"]
      BY <2>3 DEF l
    <3> QED BY <2>1, <3>1, SetThread DEF OneLoopChanges
  <2> QED BY <1>4, <2>2, <2>3
<1>6. ScriptFollowed' /\ (todo' = <<>> \/ (todo' # <<>> /\ Op' = "up" /\ Here' = Here))
  BY <1>1, <1>4, NextStep, EmptyFollowed
<1>7. loops'[l].wrapped /\ rt[loops[l].arm] = l
  BY <1>1, <1>2, <1>3, <1>5, WrapperHere DEF Wrapped, At, Op
<1>8. SessionTyped' /\ CallsInPlace' /\ OutsideTyped'
  BY <1>1, <1>4, <1>5 DEF SessionTyped, CallsInPlace, OutsideTyped, OneLoopChanges
<1>9. ArmsTyped' /\ ThreadsAreOwned' /\ Picked'
  <2> HIDE DEF l
  <2> QED BY <1>1, <1>4, <1>5, <1>7, OneLoopTyped, OneLoopOwned, OneLoopPicked
<1>10. Room'
  <2>1. LoopsToCome' \in {0, LoopsToCome}
    BY <1>1, <1>6 DEF LoopsToCome, Connecting
  <2> QED BY <1>1, <1>5, <2>1, RoomKeeps DEF OneLoopChanges
<1>11. Stage'
  BY <1>1, <1>2, <1>3, <1>6 DEF Stage, At, Op, Connecting, Leaving, Here
<1>12. ASSUME NEW s \in Arms, rt[s] # None
       PROVE  loops'[rt[s]].wrapped = loops[rt[s]].wrapped
              /\ loops'[rt[s]].release = loops[rt[s]].release
  <2>1. rt[s] \in 1..Len(loops)
    BY <1>12, WrapperHere
  <2> QED BY <1>5, <2>1 DEF OneLoopChanges
<1>13. Wrapped' /\ RightNeedsLeft'
  BY <1>1, <1>6, <1>12 DEF Wrapped, At, Op, RightNeedsLeft, Leaving
<1>14. Settings'
  BY <1>1, <1>2, <1>12 DEF Settings, Toggling
<1> QED BY <1>6, <1>8, <1>9, <1>10, <1>11, <1>13, <1>14

LEMMA StopJoinsKeeps ==
    ASSUME HostInv, StopJoins, script' = script PROVE HostInv'
<1> USE DEF HostInv
<1> DEFINE l == rt[Here]
<1>1. /\ todo # <<>> /\ Op = "stop" /\ Running(Here)
      /\ kind' = kind /\ old_build' = old_build /\ rt' = rt /\ bus_connected' = bus_connected
      /\ wedged' = wedged /\ cams_on' = cams_on /\ call' = call /\ asked' = asked /\ took' = took
      /\ scratch' = scratch /\ promise' = promise /\ pub' = pub /\ shown' = shown
      /\ todo' = Tail(todo) /\ raised' = raised
      /\ loops' = [loops EXCEPT ![rt[Here]] = Joined(rt[Here])]
      /\ power' \in Powers(rt[Here], Joined(rt[Here]))
  BY DEF StopJoins, At, Op, outside, Quiet, fixed, readers, Continue
<1>2. Here \in Arms /\ (kind = "single" => Here = "left") /\ call \in {"connect", "disconnect"}
  BY <1>1, StepKnown
<1>3. rt[Here] # None /\ power' \in [Arms -> {"limp", "stiff"}]
  <2>1. power' \in {power, [power EXCEPT ![loops[rt[Here]].arm] = "limp"]}
    BY <1>1, PowersKnown
  <2> QED BY <1>1, <2>1 DEF Running, ArmsTyped
<1>4. /\ OneLoopChanges(l) /\ loops'[l].release = loops[l].release
      /\ loops'[l].wrapped = loops[l].wrapped /\ loops'[l].thread = "gone"
  <2>1. loops \in Seq(Loop) /\ l \in 1..Len(loops)
    BY <1>2, <1>3, WrapperHere
  <2>2. /\ Joined(l) \in Loop /\ Joined(l).arm = loops[l].arm
        /\ Joined(l).release = loops[l].release /\ Joined(l).wrapped = loops[l].wrapped
        /\ Joined(l).thread = "gone"
    BY <2>1, JoinedLoop
  <2>3. loops' = [loops EXCEPT ![l] = Joined(l)]
    BY <1>1
  <2> HIDE DEF l
  <2>4. /\ loops' \in Seq(Loop) /\ Len(loops') = Len(loops) /\ loops'[l] = Joined(l)
        /\ \A j \in 1..Len(loops) : j # l => loops'[j] = loops[j]
    BY <2>1, <2>2, <2>3, LoopPut
  <2> QED BY <2>1, <2>2, <2>4 DEF OneLoopChanges
<1>5. ScriptFollowed' /\ todo' # <<>> /\ Op' = "drop" /\ Here' = Here
  BY <1>1, NextStep
<1>6. SessionTyped' /\ CallsInPlace' /\ OutsideTyped'
  BY <1>1, <1>4 DEF SessionTyped, CallsInPlace, OutsideTyped, OneLoopChanges
<1>7. ArmsTyped' /\ ThreadsAreOwned' /\ Picked'
  <2> HIDE DEF l
  <2> QED BY <1>1, <1>3, <1>4, OneLoopTyped, OneLoopOwned, OneLoopPicked
<1>8. Room'
  <2>1. LoopsToCome' = 0
    BY <1>5 DEF LoopsToCome, Connecting
  <2> QED BY <1>1, <1>4, <2>1, RoomKeeps DEF OneLoopChanges
<1>9. Stage'
  BY <1>1, <1>2, <1>4, <1>5 DEF Stage, At, Op, Connecting, Leaving, Here, GivenUp, Live
<1>10. ASSUME NEW s \in Arms, rt[s] # None
       PROVE  loops'[rt[s]].wrapped = loops[rt[s]].wrapped
              /\ loops'[rt[s]].release = loops[rt[s]].release
  <2>1. rt[s] \in 1..Len(loops)
    BY <1>10, WrapperHere
  <2> QED BY <1>4, <2>1 DEF OneLoopChanges
<1>11. Wrapped' /\ RightNeedsLeft'
  BY <1>1, <1>5, <1>10 DEF Wrapped, At, Op, RightNeedsLeft, Leaving
<1>12. Settings'
  BY <1>1, <1>2, <1>10 DEF Settings, Toggling
<1> QED BY <1>5, <1>6, <1>7, <1>8, <1>9, <1>11, <1>12

LEMMA StopAbandonsKeeps ==
    ASSUME HostInv, StopAbandons, script' = script PROVE HostInv'
<1> USE DEF HostInv
<1> DEFINE l == rt[Here]
<1>1. /\ todo # <<>> /\ Op = "stop" /\ Running(Here)
      /\ kind' = kind /\ old_build' = old_build /\ rt' = rt /\ bus_connected' = bus_connected
      /\ wedged' = wedged /\ cams_on' = cams_on /\ call' = call /\ asked' = asked /\ took' = took
      /\ scratch' = scratch /\ promise' = promise /\ pub' = pub /\ shown' = shown
      /\ todo' = Tail(todo) /\ raised' = raised
      /\ loops' = [loops EXCEPT ![rt[Here]].kept = TRUE]
  BY DEF StopAbandons, At, Op, outside, Quiet, fixed, readers, Continue
<1>2. Here \in Arms /\ (kind = "single" => Here = "left") /\ call \in {"connect", "disconnect"}
  BY <1>1, StepKnown
<1>3. rt[Here] # None /\ power' \in [Arms -> {"limp", "stiff"}]
  BY <1>1, <1>2 DEF Running, ArmsTyped, StopAbandons
<1>4. /\ OneLoopChanges(l) /\ loops'[l].release = loops[l].release
      /\ loops'[l].wrapped = loops[l].wrapped /\ loops'[l].kept
  <2>1. loops \in Seq(Loop) /\ l \in 1..Len(loops)
    BY <1>2, <1>3, WrapperHere
  <2>2. KeptIn(loops', loops, l)
    BY <1>1 DEF KeptIn
  <2> HIDE DEF l
  <2>3. /\ loops' \in Seq(Loop) /\ Len(loops') = Len(loops)
        /\ \A j \in 1..Len(loops) : j # l => loops'[j] = loops[j]
        /\ loops'[l].arm = loops[l].arm /\ loops'[l].release = loops[l].release
        /\ loops'[l].wrapped = loops[l].wrapped /\ loops'[l].kept
    BY <2>1, <2>2, SetKept
  <2> QED BY <2>1, <2>3 DEF OneLoopChanges
<1>5. ScriptFollowed' /\ todo' # <<>> /\ Op' = "drop" /\ Here' = Here
  BY <1>1, NextStep
<1>6. SessionTyped' /\ CallsInPlace' /\ OutsideTyped'
  BY <1>1, <1>4 DEF SessionTyped, CallsInPlace, OutsideTyped, OneLoopChanges
<1>7. ArmsTyped' /\ ThreadsAreOwned' /\ Picked'
  <2> HIDE DEF l
  <2> QED BY <1>1, <1>3, <1>4, OneLoopTyped, OneLoopOwned, OneLoopPicked
<1>8. Room'
  <2>1. LoopsToCome' = 0
    BY <1>5 DEF LoopsToCome, Connecting
  <2> QED BY <1>1, <1>4, <2>1, RoomKeeps DEF OneLoopChanges
<1>9. Stage'
  BY <1>1, <1>2, <1>4, <1>5 DEF Stage, At, Op, Connecting, Leaving, Here, GivenUp, Live
<1>10. ASSUME NEW s \in Arms, rt[s] # None
       PROVE  loops'[rt[s]].wrapped = loops[rt[s]].wrapped
              /\ loops'[rt[s]].release = loops[rt[s]].release
  <2>1. rt[s] \in 1..Len(loops)
    BY <1>10, WrapperHere
  <2> QED BY <1>4, <2>1 DEF OneLoopChanges
<1>11. Wrapped' /\ RightNeedsLeft'
  BY <1>1, <1>5, <1>10 DEF Wrapped, At, Op, RightNeedsLeft, Leaving
<1>12. Settings'
  BY <1>1, <1>2, <1>10 DEF Settings, Toggling
<1> QED BY <1>5, <1>6, <1>7, <1>8, <1>9, <1>11, <1>12

LEMMA DropKeeps ==
    ASSUME HostInv, Drop, script' = script PROVE HostInv'
<1> USE DEF HostInv
<1> DEFINE l == rt[Here]
<1>1. /\ todo # <<>> /\ Op = "drop"
      /\ kind' = kind /\ old_build' = old_build /\ rt' = rt /\ bus_connected' = bus_connected
      /\ power' = power
      /\ wedged' = wedged /\ cams_on' = cams_on /\ call' = call /\ asked' = asked /\ took' = took
      /\ scratch' = scratch /\ promise' = promise /\ pub' = pub /\ shown' = shown
      /\ todo' = Tail(todo) /\ raised' = raised
      /\ loops' = IF rt[Here] = None THEN loops ELSE [loops EXCEPT ![rt[Here]].wrapped = FALSE]
  BY DEF Drop, At, Op, outside, Quiet, fixed, readers, Continue
<1>2. Here \in Arms /\ (kind = "single" => Here = "left") /\ call \in {"connect", "disconnect"}
  BY <1>1, StepKnown
<1>3. ScriptFollowed' /\ todo' # <<>> /\ Op' = "clear" /\ Here' = Here
  BY <1>1, NextStep
<1>4. ASSUME l # None
      PROVE  /\ OneLoopChanges(l) /\ loops'[l].release = loops[l].release
             /\ loops'[l].thread # "live" \/ loops'[l].kept
  <2>1. loops \in Seq(Loop) /\ l \in 1..Len(loops)
    BY <1>2, <1>4, WrapperHere
  <2>2. loops[l].thread # "live" \/ loops[l].kept
    BY <1>1, <1>4 DEF Stage, At, Op, GivenUp, Live
  <2>3. UnwrappedIn(loops', loops, l)
    BY <1>1, <1>4 DEF UnwrappedIn
  <2> HIDE DEF l
  <2>4. /\ loops' \in Seq(Loop) /\ Len(loops') = Len(loops)
        /\ \A j \in 1..Len(loops) : j # l => loops'[j] = loops[j]
        /\ loops'[l].arm = loops[l].arm /\ loops'[l].release = loops[l].release
        /\ loops'[l].thread = loops[l].thread /\ loops'[l].kept = loops[l].kept
    BY <2>1, <2>3, SetWrapped
  <2> QED BY <2>1, <2>2, <2>4 DEF OneLoopChanges
<1>5. Len(loops') = Len(loops)
  BY <1>1, <1>4 DEF OneLoopChanges
<1>6. SessionTyped' /\ CallsInPlace' /\ OutsideTyped'
  BY <1>1, <1>5 DEF SessionTyped, CallsInPlace, OutsideTyped
<1>7. ArmsTyped' /\ ThreadsAreOwned' /\ Picked'
  <2>1. CASE l # None
    <3>1. power' \in [Arms -> {"limp", "stiff"}]
      BY <1>1 DEF ArmsTyped
    <3>2. OneLoopChanges(l) /\ (loops'[l].thread # "live" \/ loops'[l].kept)
      BY <1>4, <2>1
    <3> HIDE DEF l
    <3> QED BY <1>1, <3>1, <3>2, OneLoopTyped, OneLoopOwned, OneLoopPicked
  <2>2. CASE l = None
    BY <1>1, <2>2 DEF ArmsTyped, ThreadsAreOwned, Picked, Live, GivenUp
  <2> QED BY <2>1, <2>2
<1>8. Room'
  <2>1. LoopsToCome' = 0
    BY <1>3 DEF LoopsToCome, Connecting
  <2> QED BY <1>1, <1>5, <2>1, RoomKeeps
<1>9. Stage'
  BY <1>1, <1>2, <1>3, <1>4 DEF Stage, At, Op, Connecting, Leaving, Here, GivenUp, Live
<1>10. ASSUME NEW s \in Arms, rt[s] # None
       PROVE  /\ loops'[rt[s]].release = loops[rt[s]].release
              /\ s # Here => loops'[rt[s]].wrapped = loops[rt[s]].wrapped
  <2>1. rt[s] \in 1..Len(loops) /\ (s # Here => rt[s] # rt[Here])
    BY <1>2, <1>10, WrapperHere
  <2>2. CASE l = None
    BY <1>1, <2>2
  <2>3. CASE l # None
    BY <1>4, <2>1, <2>3 DEF OneLoopChanges
  <2> QED BY <2>2, <2>3
<1>11. Wrapped' /\ RightNeedsLeft'
  BY <1>1, <1>3, <1>10 DEF Wrapped, At, Op, Here, RightNeedsLeft, Leaving
<1>12. Settings'
  BY <1>1, <1>2, <1>10 DEF Settings, Toggling
<1> QED BY <1>3, <1>6, <1>7, <1>8, <1>9, <1>11, <1>12

LEMMA ClearKeeps ==
    ASSUME HostInv, Clear, script' = script PROVE HostInv'
<1> USE DEF HostInv
<1>1. /\ todo # <<>> /\ Op = "clear"
      /\ kind' = kind /\ old_build' = old_build /\ loops' = loops /\ power' = power
      /\ wedged' = wedged /\ cams_on' = cams_on /\ call' = call /\ asked' = asked /\ took' = took
      /\ scratch' = scratch /\ promise' = promise /\ pub' = pub /\ shown' = shown
      /\ todo' = Tail(todo) /\ raised' = raised
      /\ rt' = [rt EXCEPT ![Here] = None]
      /\ bus_connected' = [bus_connected EXCEPT ![Here] = FALSE]
  BY DEF Clear, At, Op, outside, Quiet, fixed, readers, Continue
<1>2. Here \in Arms /\ (kind = "single" => Here = "left") /\ call \in {"connect", "disconnect"}
  BY <1>1, StepKnown
<1>3. /\ ScriptFollowed'
      /\ \/ /\ kind # "single" /\ Here = "left"
            /\ todo' # <<>> /\ Op' = "check" /\ Here' = "right"
         \/ /\ kind = "single" \/ Here = "right"
            /\ todo' # <<>> /\ Op' = "cameras off"
         \/ (kind = "single" \/ Here = "right") /\ todo' = <<>> /\ call # "disconnect"
  BY <1>1, NextStep
<1>4. rt'[Here] = None /\ \A s \in Arms : s # Here => rt'[s] = rt[s]
  BY <1>1, <1>2 DEF ArmsTyped
<1>5. SessionTyped' /\ CallsInPlace' /\ OutsideTyped' /\ Picked'
  BY <1>1 DEF SessionTyped, CallsInPlace, OutsideTyped, Picked, GivenUp, Live
<1>6. ArmsTyped'
  <2>1. Len(loops) \in Nat
    BY DEF ArmsTyped
  <2>2. rt' \in [Arms -> 0..Len(loops)] /\ bus_connected' \in [Arms -> BOOLEAN]
    BY <1>1, <1>2, <2>1 DEF ArmsTyped, None
  <2>3. \A s \in Arms : bus_connected'[s] => bus_connected[s] /\ s # Here
    BY <1>1, <1>2 DEF ArmsTyped
  <2> QED BY <1>1, <1>4, <2>2, <2>3 DEF ArmsTyped
<1>7. ThreadsAreOwned'
  <2> SUFFICES ASSUME kind # "single", NEW l \in DOMAIN loops, Live(l)
               PROVE  loops[l].kept \/ (loops[l].wrapped /\ rt'[loops[l].arm] = l)
    BY <1>1 DEF ThreadsAreOwned, Live
  <2>1. loops[l].arm \in Arms
    <3>1. loops[l] \in Loop
      BY DEF ArmsTyped
    <3> QED BY <3>1 DEF Loop
  <2>2. loops[l].kept \/ (loops[l].wrapped /\ rt[loops[l].arm] = l)
    BY DEF ThreadsAreOwned
  <2>3. ASSUME rt[Here] = l PROVE loops[l].kept
    <3>1. l # None
      BY DEF ArmsTyped, None
    <3> QED BY <1>1, <2>3, <3>1 DEF Stage, At, Op, GivenUp
  <2> QED BY <1>4, <2>1, <2>2, <2>3
<1>8. Room'
  <2>1. LoopsToCome' = 0
    BY <1>3 DEF LoopsToCome, Connecting
  <2> QED BY <1>1, <2>1, RoomKeeps
<1>9. ASSUME kind # "single", Here = "right" PROVE \A s \in Arms : rt'[s] = None
  BY <1>1, <1>4, <1>9 DEF Stage, Leaving, Arms
<1>10. rt'["right"] # None => rt["right"] # None
  BY <1>2, <1>4 DEF Arms
<1>11. Stage'
  BY <1>1, <1>2, <1>3, <1>4, <1>9, <1>10 DEF Stage, At, Op, Connecting, Leaving, Here, Arms
<1>12. Wrapped'
  BY <1>1, <1>4 DEF Wrapped, At, Op
<1>13. RightNeedsLeft'
  BY <1>1, <1>2, <1>3, <1>4, <1>9 DEF RightNeedsLeft, Leaving, Arms
<1>14. Settings'
  BY <1>1, <1>2, <1>4 DEF Settings, Toggling
<1> QED BY <1>3, <1>5, <1>6, <1>7, <1>8, <1>11, <1>12, <1>13, <1>14

LEMMA TakeKeeps ==
    ASSUME HostInv, Take, script' = script PROVE HostInv'
<1> USE DEF HostInv
<1> DEFINE l == rt[Here]
<1>1. /\ todo # <<>> /\ Op = "take"
      /\ kind' = kind /\ old_build' = old_build /\ rt' = rt /\ bus_connected' = bus_connected
      /\ power' = power
      /\ wedged' = wedged /\ cams_on' = cams_on /\ call' = call /\ asked' = asked
      /\ scratch' = scratch /\ promise' = promise /\ pub' = pub /\ shown' = shown
      /\ todo' = Tail(todo) /\ raised' = raised
  BY DEF Take, At, Op, outside, Quiet, fixed, readers, Continue
<1>2. Here \in Arms /\ (kind = "single" => Here = "left") /\ Toggling
  BY <1>1, StepKnown DEF Toggling
<1>3. /\ ScriptFollowed'
      /\ \/ kind # "single" /\ Here = "left" /\ todo' # <<>> /\ Op' = "take" /\ Here' = "right"
         \/ (kind = "single" \/ Here = "right") /\ todo' = <<>>
  BY <1>1, NextStep
<1>4. Takes(Here) <=> rt[Here] # None /\ ~old_build
  BY <1>1, <1>2 DEF Takes, Wrapped, At, Op
<1>5. ASSUME Takes(Here)
      PROVE  /\ OneLoopChanges(l) /\ loops'[l].release = asked /\ took' = took \cup {Here}
             /\ loops'[l].wrapped = loops[l].wrapped /\ loops'[l].kept = loops[l].kept
             /\ loops'[l].thread = loops[l].thread
  <2>1. loops \in Seq(Loop) /\ l \in 1..Len(loops)
    BY <1>2, <1>4, <1>5, WrapperHere
  <2>2. asked \in BOOLEAN
    BY DEF SessionTyped
  <2>3. ReleaseIn(loops', loops, l, asked) /\ took' = took \cup {Here}
    BY <1>1, <1>5 DEF Take, ReleaseIn
  <2> HIDE DEF l
  <2>4. /\ loops' \in Seq(Loop) /\ Len(loops') = Len(loops)
        /\ \A j \in 1..Len(loops) : j # l => loops'[j] = loops[j]
        /\ loops'[l].arm = loops[l].arm /\ loops'[l].release = asked
        /\ loops'[l].wrapped = loops[l].wrapped
        /\ loops'[l].thread = loops[l].thread /\ loops'[l].kept = loops[l].kept
    BY <2>1, <2>2, <2>3, SetRelease
  <2> QED BY <2>1, <2>3, <2>4 DEF OneLoopChanges
<1>6. ASSUME ~Takes(Here)
      PROVE  took' = took /\ loops' = loops /\ (rt[Here] = None \/ old_build)
  BY <1>4, <1>6 DEF Take
<1>7. Len(loops') = Len(loops) /\ took' \subseteq Arms
  BY <1>2, <1>5, <1>6 DEF OneLoopChanges, SessionTyped
<1>8. SessionTyped' /\ CallsInPlace' /\ OutsideTyped'
  BY <1>1, <1>7 DEF SessionTyped, CallsInPlace, OutsideTyped
<1>9. ArmsTyped' /\ ThreadsAreOwned' /\ Picked'
  <2>1. CASE Takes(Here)
    <3>1. power' \in [Arms -> {"limp", "stiff"}] /\ l \in DOMAIN loops
      BY <1>1, <1>5, <2>1 DEF ArmsTyped, OneLoopChanges
    <3>2. /\ OneLoopChanges(l)
          /\ loops'[l].thread = "live" =>
                loops'[l].kept \/ (loops'[l].wrapped /\ rt[loops[l].arm] = l)
      <4>1. /\ OneLoopChanges(l) /\ loops'[l].thread = loops[l].thread
            /\ loops'[l].wrapped = loops[l].wrapped
        BY <1>5, <2>1
      <4>2. loops'[l].wrapped /\ rt[loops[l].arm] = l
        BY <1>1, <1>2, <1>4, <2>1, <4>1, WrapperHere DEF Wrapped, At, Op
      <4> QED BY <4>1, <4>2
    <3> HIDE DEF l
    <3> QED BY <1>1, <3>1, <3>2, OneLoopTyped, OneLoopOwned, OneLoopPicked
  <2>2. CASE ~Takes(Here)
    BY <1>1, <1>6, <2>2 DEF ArmsTyped, ThreadsAreOwned, Picked, Live, GivenUp
  <2> QED BY <2>1, <2>2
<1>10. Room'
  <2>1. LoopsToCome' = 0
    BY <1>3 DEF LoopsToCome, Connecting
  <2> QED BY <1>1, <1>7, <2>1, RoomKeeps
<1>11. Stage'
  BY <1>1, <1>2, <1>3 DEF Stage, At, Op, Connecting, Leaving, Here, Toggling
<1>12. ASSUME NEW s \in Arms, rt[s] # None
       PROVE  /\ loops'[rt[s]].wrapped = loops[rt[s]].wrapped
              /\ s # Here => loops'[rt[s]].release = loops[rt[s]].release
              /\ s = Here /\ ~old_build => loops'[rt[s]].release = asked /\ s \in took'
              /\ s \in took => s \in took'
              /\ old_build => loops'[rt[s]].release = loops[rt[s]].release /\ took' = took
  <2>1. rt[s] \in 1..Len(loops) /\ (s # Here => rt[s] # rt[Here])
    BY <1>2, <1>12, WrapperHere
  <2>2. CASE ~Takes(Here)
    BY <1>6, <1>12, <2>2
  <2>3. CASE Takes(Here)
    <3>1. ~old_build
      BY <1>4, <2>3
    <3>2. CASE s = Here
      BY <1>5, <2>3, <3>1, <3>2
    <3>3. CASE s # Here
      BY <1>5, <2>1, <2>3, <3>1, <3>3 DEF OneLoopChanges
    <3> QED BY <3>2, <3>3
  <2> QED BY <2>2, <2>3
<1>13. Wrapped' /\ RightNeedsLeft'
  BY <1>1, <1>3, <1>12 DEF Wrapped, At, Op, RightNeedsLeft, Leaving
<1>14. Settings'
  <2>1. old_build => took' = {} /\ \A s \in Arms : promise[s] = Release
    <3>1. old_build => took' = took
      BY <1>4, <1>6
    <3> QED BY <3>1 DEF Settings
  <2>2. Toggling'
    BY <1>1, <1>2 DEF Toggling
  <2>5. kind = "single" => took' \subseteq {"left"}
    BY <1>2, <1>5, <1>6 DEF Settings
  <2> SUFFICES ASSUME NEW s \in Arms, rt[s] # None
               PROVE  /\ old_build => loops'[rt[s]].release = Release
                      /\ ~old_build /\ ~ToTake(s)' => loops'[rt[s]].release = asked /\ s \in took'
    BY <1>1, <2>1, <2>2, <2>5 DEF Settings
  <2>0. rt[s] # None
    OBVIOUS
  <2>3. old_build => loops'[rt[s]].release = Release
    BY <1>12 DEF Settings
  <2>4. ASSUME ~old_build, ~ToTake(s)' PROVE loops'[rt[s]].release = asked /\ s \in took'
    <3>1. s = Here \/ ~ToTake(s)
      <4>1. kind = "single" => s # "right"
        BY <2>0 DEF Stage
      <4>2. CASE Here = "right"
        BY <4>2 DEF ToTake, Arms
      <4>3. CASE Here = "left"
        BY <1>3, <2>4, <4>1, <4>3 DEF ToTake, Arms
      <4> QED BY <1>2, <4>2, <4>3 DEF Arms
    <3>2. CASE s = Here
      BY <1>12, <2>4, <3>2
    <3>3. CASE s # Here
      <4>1. loops[rt[s]].release = asked /\ s \in took
        BY <1>2, <2>4, <3>1, <3>3 DEF Settings
      <4> QED BY <1>12, <3>3, <4>1
    <3> QED BY <3>2, <3>3
  <2> QED BY <2>3, <2>4
<1> QED BY <1>3, <1>8, <1>9, <1>10, <1>11, <1>13, <1>14

LEMMA NewKeeps ==
    ASSUME HostInv, New, script' = script PROVE HostInv'
<1> USE DEF HostInv
<1> DEFINE old == rt[Here]
           goes == old # None /\ pub.holds # old
           fresh == [arm |-> Here, thread |-> "none", release |-> Release,
                     wrapped |-> TRUE, kept |-> FALSE]
           n == Len(loops) + 1
<1>1. /\ todo # <<>> /\ Op = "new"
      /\ kind' = kind /\ old_build' = old_build /\ bus_connected' = bus_connected
      /\ wedged' = wedged /\ cams_on' = cams_on /\ call' = call /\ asked' = asked
      /\ took' = took /\ scratch' = scratch /\ pub' = pub /\ shown' = shown
      /\ todo' = Tail(todo) /\ raised' = raised
      /\ rt' = [rt EXCEPT ![Here] = n]
      /\ promise' = [promise EXCEPT ![Here] = Release]
  BY DEF New, At, Op, outside, fixed, readers, Continue
<1>2. Here \in Arms /\ (kind = "single" => Here = "left") /\ call = "connect" /\ raised = FALSE
  BY <1>1, StepKnown
<1>0. PICK base, arm :
         /\ IF goes THEN \E d \in Destroyed(old) : base = [loops EXCEPT ![old] = d] ELSE base = loops
         /\ loops' = Append(base, fresh)
         /\ power' \in {power, [power EXCEPT ![arm] = "limp"]}
  <2>1. CASE goes
    <3>1. PICK d \in Destroyed(old) : /\ loops' = Append([loops EXCEPT ![old] = d], fresh)
                                     /\ power' \in Powers(old, d)
      BY <2>1 DEF New
    <3>2. power' \in {power, [power EXCEPT ![loops[old].arm] = "limp"]}
      BY <3>1, PowersKnown
    <3> QED BY <2>1, <3>1, <3>2
  <2>2. CASE ~goes
    BY <2>2 DEF New
  <2> QED BY <2>1, <2>2
<1>3. ScriptFollowed' /\ todo' # <<>> /\ Op' = "start" /\ Here' = Here
  BY <1>1, NextStep
<1>4. kind # "single" => old = None
  BY <1>1 DEF Stage, At, Op
<1>5. Len(loops) \in Nat /\ loops \in Seq(Loop) /\ DOMAIN loops = 1..Len(loops)
  BY DEF ArmsTyped
<1>6. /\ base \in Seq(Loop) /\ Len(base) = Len(loops)
      /\ \A j \in 1..Len(loops) : j # old => base[j] = loops[j]
      /\ kind # "single" \/ pub.holds = old => base = loops
  <2>1. CASE goes
    <3>1. old \in 1..Len(loops)
      BY <1>2, <2>1, WrapperHere
    <3>2. PICK d \in Destroyed(old) : base = [loops EXCEPT ![old] = d]
      BY <1>0, <2>1
    <3>3. d \in Loop
      BY <1>5, <3>1, DestroyedLoop
    <3>4. ~(kind # "single" \/ pub.holds = old)
      BY <1>4, <2>1
    <3> HIDE DEF old
    <3> QED BY <1>5, <3>1, <3>2, <3>3, <3>4, LoopPut
  <2>2. CASE ~goes
    BY <1>0, <1>5, <2>2
  <2> QED BY <2>1, <2>2
<1>7. fresh \in Loop
  BY <1>2, HostAssumption DEF Loop
<1>8. /\ fresh.arm = Here /\ fresh.thread = "none" /\ fresh.release = Release /\ fresh.wrapped
  OBVIOUS
<1> HIDE DEF fresh
<1>9. /\ loops' \in Seq(Loop) /\ Len(loops') = n /\ loops'[n] = fresh
      /\ \A j \in 1..Len(loops) : loops'[j] = base[j]
  BY <1>0, <1>5, <1>6, <1>7, AppendProperties
<1>10. /\ \A j \in 1..Len(loops) : j # old => loops'[j] = loops[j]
       /\ kind # "single" \/ pub.holds = old => \A j \in 1..Len(loops) : loops'[j] = loops[j]
       /\ DOMAIN loops' = 1..n /\ n \in Nat \ {0}
       /\ \A j \in 1..n : j = n \/ j \in 1..Len(loops)
  BY <1>5, <1>6, <1>9
<1>11. rt'[Here] = n /\ \A s \in Arms : s # Here => rt'[s] = rt[s]
  BY <1>1, <1>2 DEF ArmsTyped
<1>12. ASSUME NEW s \in Arms, s # Here, rt[s] # None
       PROVE  rt[s] \in 1..Len(loops) /\ loops'[rt[s]] = loops[rt[s]] /\ loops[rt[s]].arm = s
  <2>1. rt[s] \in 1..Len(loops) /\ rt[s] # old /\ loops[rt[s]].arm = s
    BY <1>2, <1>12, WrapperHere
  <2> QED BY <1>10, <2>1
<1> HIDE DEF old, n
<1>13. SessionTyped' /\ CallsInPlace'
  BY <1>1, <1>2, HostAssumption DEF SessionTyped, CallsInPlace
<1>14. OutsideTyped'
  <2>1. 0..Len(loops) \subseteq 0..n
    BY <1>5 DEF n
  <2> QED BY <1>1, <1>9, <2>1 DEF OutsideTyped
<1>15. ArmsTyped'
  <2>1. \A s \in Arms : rt[s] \in 0..n
    BY <1>5 DEF ArmsTyped, n
  <2>2. rt' \in [Arms -> 0..n]
    <3>1. n \in 0..n
      BY <1>10
    <3>2. rt \in [Arms -> 0..n]
      BY <2>1 DEF ArmsTyped
    <3> QED BY <1>1, <3>1, <3>2
  <2>3. \A s \in Arms : rt'[s] # None => loops'[rt'[s]].arm = s
    BY <1>8, <1>9, <1>11, <1>12
  <2>4. \A s \in Arms : bus_connected'[s] => rt'[s] # None
    BY <1>1, <1>10, <1>11 DEF ArmsTyped, None
  <2>5. power' \in [Arms -> {"limp", "stiff"}]
    BY <1>0 DEF ArmsTyped
  <2> QED BY <1>1, <1>9, <2>2, <2>3, <2>4, <2>5 DEF ArmsTyped
<1>16. Room'
  <2>1. LoopsToCome \in {1, 2} /\ LoopsToCome' = LoopsToCome - 1
    BY <1>1, <1>2, <1>3 DEF LoopsToCome, Connecting, Arms
  <2>2. ~(kind = "teleop" /\ script \in {"leader", "follower"})
    BY <1>2 DEF CallsInPlace
  <2> QED BY <1>1, <1>5, <1>9, <2>1, <2>2, HostAssumption DEF Room, n
<1>17. Stage'
  BY <1>1, <1>2, <1>3, <1>10, <1>11 DEF Stage, At, Op, Connecting, Leaving, Here, None, Arms
<1>18. Wrapped'
  <2> SUFFICES ASSUME NEW s \in Arms, rt'[s] # None PROVE loops'[rt'[s]].wrapped
    BY DEF Wrapped
  <2>1. CASE s = Here BY <1>8, <1>9, <1>11, <2>1
  <2>2. CASE s # Here BY <1>1, <1>11, <1>12, <2>2 DEF Wrapped, At, Op
  <2> QED BY <2>1, <2>2
<1>19. ThreadsAreOwned'
  <2> SUFFICES ASSUME kind # "single", NEW j \in 1..n, loops'[j].thread = "live"
               PROVE  loops'[j].kept \/ (loops'[j].wrapped /\ rt'[loops'[j].arm] = j)
    BY <1>1, <1>10 DEF ThreadsAreOwned, Live
  <2>1. j \in 1..Len(loops) /\ loops'[j] = loops[j]
    BY <1>8, <1>9, <1>10
  <2>2. loops[j].kept \/ (loops[j].wrapped /\ rt[loops[j].arm] = j)
    BY <1>5, <2>1 DEF ThreadsAreOwned, Live
  <2>3. loops[j].arm \in Arms /\ j # None
    <3>1. loops[j] \in Loop
      BY <1>5, <2>1
    <3> QED BY <2>1, <3>1 DEF Loop, None
  <2> QED BY <1>4, <1>11, <2>1, <2>2, <2>3 DEF old
<1>20. RightNeedsLeft'
  BY <1>1, <1>2, <1>10, <1>11 DEF RightNeedsLeft, Leaving, Stage, Connecting, Arms, None
<1>21. Picked'
  <2> SUFFICES ASSUME pub.at = "picked"
               PROVE  /\ pub.holds # None /\ loops'[pub.holds].arm = pub.arm
                      /\ \/ loops'[pub.holds].wrapped \/ loops'[pub.holds].thread # "live"
                         \/ loops'[pub.holds].kept
    BY <1>1 DEF Picked, GivenUp, Live
  <2>1. pub.holds \in 1..Len(loops)
    <3>1. pub.holds \in 0..Len(loops) /\ pub.holds # 0
      BY DEF OutsideTyped, Picked, None
    <3> QED BY <1>5, <3>1
  <2>2. loops'[pub.holds] = loops[pub.holds]
    BY <1>10, <2>1
  <2> QED BY <2>1, <2>2 DEF Picked, GivenUp, Live
<1>22. Settings'
  <2>1. promise'[Here] = Release /\ \A s \in Arms : s # Here => promise'[s] = promise[s]
    BY <1>1, <1>2 DEF SessionTyped
  <2>2. old_build => took = {} /\ \A s \in Arms : promise'[s] = Release
    BY <2>1 DEF Settings
  <2>3. ASSUME NEW s \in Arms, rt'[s] # None
        PROVE  /\ old_build => loops'[rt'[s]].release = Release
               /\ loops'[rt'[s]].release = promise'[s]
    <3>1. CASE s = Here
      BY <1>8, <1>9, <1>11, <2>1, <3>1
    <3>2. CASE s # Here
      BY <1>2, <1>11, <1>12, <2>1, <2>3, <3>2 DEF Settings, Toggling
    <3> QED BY <3>1, <3>2
  <2> QED BY <1>1, <1>2, <2>2, <2>3 DEF Settings, Toggling
<1> QED BY <1>3, <1>13, <1>14, <1>15, <1>16, <1>17, <1>18, <1>19, <1>20, <1>21, <1>22
-----------------------------------------------------------------------------
(* A call begins, is rolled back, or returns.                               *)
LEMMA NoCallNoSteps == SessionTyped /\ ScriptFollowed /\ call = "none" => todo = <<>>
<1> SUFFICES ASSUME SessionTyped, ScriptFollowed, call = "none", todo # <<>> PROVE FALSE
  OBVIOUS
<1>1. Op \in Ops
  BY StepKnown
<1>2. \/ Op \in {"guard", "new", "start", "up", "cameras"} \/ Op \in {"check", "stop", "drop", "clear"}
      \/ Op = "cameras off" \/ Op = "take" \/ Op = "send"
  BY <1>1 DEF Ops
<1> QED BY <1>2, StepKnown

FirstOf(name) ==
    CASE name = "connect" -> "guard" [] name = "disconnect" -> "check"
      [] name = "toggle" -> "take" [] OTHER -> "send"

LEMMA BeginKeeps ==
    ASSUME HostInv, NEW name \in {"connect", "disconnect", "toggle", "send"}, NEW steps,
           Begin(name, steps), Linked(steps, kind, name), steps # <<>>,
           Head(steps) = Do(FirstOf(name), "left"),
           UNCHANGED <<fixed, arms, outside, readers>>, asked' \in BOOLEAN, CallsInPlace',
           kind = "teleop" => script' \notin {"leader", "follower"},
           name = "connect" => Len(loops) + (IF kind = "single" THEN 1 ELSE 2) <= MaxLoops
    PROVE  HostInv'
<1> USE DEF HostInv
<1>1. /\ kind' = kind /\ old_build' = old_build /\ loops' = loops /\ rt' = rt
      /\ bus_connected' = bus_connected /\ power' = power /\ wedged' = wedged /\ cams_on' = cams_on
      /\ pub' = pub /\ shown' = shown /\ promise' = promise
      /\ call = "none" /\ call' = name /\ todo' = steps /\ raised' = FALSE /\ took' = {}
      /\ scratch' \in BOOLEAN
  BY DEF Begin, fixed, arms, outside, readers
<1>2. todo = <<>>
  BY <1>1, NoCallNoSteps
<1>3. todo' # <<>> /\ Op' = FirstOf(name) /\ Here' = "left"
  BY <1>1 DEF Op, Here, Do
<1>4. ScriptFollowed'
  <2>1. Doing' = name
    BY <1>1 DEF Doing
  <2> QED BY <1>1, <2>1 DEF ScriptFollowed
<1>5. SessionTyped'
  BY <1>1 DEF SessionTyped
<1>6. ArmsTyped' /\ OutsideTyped'
  BY <1>1 DEF ArmsTyped, OutsideTyped
<1>7. Wrapped' /\ ThreadsAreOwned' /\ Picked'
  BY <1>1, <1>2 DEF Wrapped, ThreadsAreOwned, Picked, At, Live, GivenUp
<1>8. Room'
  <2>1. Len(loops) \in Nat /\ MaxLoops \in Nat /\ Len(loops) <= MaxLoops
    BY <1>2, HostAssumption DEF ArmsTyped, Room, LoopsToCome, Connecting
  <2>2. CASE name = "connect"
    <3>1. LoopsToCome' = IF kind = "single" THEN 1 ELSE 2
      BY <1>1, <1>3, <2>2 DEF LoopsToCome, Connecting, FirstOf
    <3> QED BY <1>1, <2>1, <2>2, <3>1 DEF Room
  <2>3. CASE name # "connect"
    <3>1. LoopsToCome' = 0
      BY <1>3, <2>3 DEF LoopsToCome, Connecting, FirstOf
    <3> QED BY <1>1, <2>1, <3>1 DEF Room
  <2> QED BY <2>2, <2>3
<1>9. Op' \in {"guard", "check", "take", "send"}
  BY <1>3 DEF FirstOf
<1>10. Stage'
  BY <1>1, <1>3, <1>9 DEF Stage, At, Op, Connecting, Leaving, Here
<1>11. RightNeedsLeft'
  BY <1>1, <1>2 DEF RightNeedsLeft, Leaving
<1>12. Settings'
  <2>1. ~Toggling
    BY <1>1 DEF Toggling
  <2>2. \A s \in Arms : ToTake(s)'
    BY <1>3 DEF ToTake, Arms
  <2> QED BY <1>1, <2>1, <2>2 DEF Settings
<1> QED BY <1>4, <1>5, <1>6, <1>7, <1>8, <1>10, <1>11, <1>12

LEMMA ArmsCounted == Cardinality(Mine) = IF kind = "single" THEN 1 ELSE 2
<1>1. Cardinality({"left"}) = 1
  BY FS_Singleton
<1>2. Cardinality(Arms) = 2
  <2>1. Arms = {"left"} \cup {"right"} /\ "right" \notin {"left"}
    BY DEF Arms
  <2>2. IsFiniteSet({"left"})
    BY FS_Singleton
  <2> QED BY <1>1, <2>1, <2>2, FS_AddElement
<1> QED BY <1>1, <1>2 DEF Mine

LEMMA SessionCallKeeps ==
    ASSUME HostInv, SessionCall, script' = script PROVE HostInv'
<1> USE DEF HostInv
<1>1. /\ kind # "teleop" /\ UNCHANGED <<fixed, arms, outside, readers>> /\ kind' = kind
      /\ kind \in AllKinds
  BY KindsKnown DEF SessionCall, fixed
<1>2. asked \in BOOLEAN /\ script = "leader"
  BY <1>1 DEF SessionTyped, CallsInPlace
<1>3. CASE /\ Len(loops) + Cardinality(Mine) <= MaxLoops
           /\ Begin("connect", Connect) /\ UNCHANGED asked
  <2>1. CallsInPlace'
    BY <1>1, <1>2, <1>3 DEF CallsInPlace, Begin, Looping
  <2>2. Head(Connect) = Do(FirstOf("connect"), "left")
    BY <1>1, ConnectLinked DEF FirstOf
  <2>3. Len(loops) + (IF kind = "single" THEN 1 ELSE 2) <= MaxLoops
    BY <1>3, ArmsCounted
  <2> QED BY <1>1, <1>2, <1>3, <2>1, <2>2, <2>3, ConnectLinked, BeginKeeps
<1>4. CASE Begin("disconnect", Disconnect) /\ UNCHANGED asked
  <2>1. CallsInPlace'
    BY <1>1, <1>2, <1>4 DEF CallsInPlace, Begin, Looping
  <2>2. Head(Disconnect) = Do(FirstOf("disconnect"), "left")
    BY <1>1, DisconnectLinked DEF FirstOf
  <2> QED BY <1>1, <1>2, <1>4, <2>1, <2>2, DisconnectLinked, BeginKeeps
<1>5. ASSUME NEW e \in BOOLEAN, Begin("toggle", Both([s \in Arms |-> ToggleArm(s)])), asked' = e
      PROVE  HostInv'
  <2> DEFINE steps == Both([s \in Arms |-> ToggleArm(s)])
  <2>1. CallsInPlace'
    BY <1>1, <1>2, <1>5 DEF CallsInPlace, Begin, Looping
  <2>2. steps = Both([s \in Arms |-> <<Do("take", s)>>])
    BY DEF ToggleArm
  <2>3. Linked(steps, kind, "toggle") /\ steps # <<>> /\ Head(steps) = Do(FirstOf("toggle"), "left")
    BY <1>1, <2>2, EachArmLinked, OpsOfCalls DEF FirstOf
  <2>4. Begin("toggle", steps)
    BY <1>5
  <2> HIDE DEF steps
  <2> QED BY <1>1, <1>5, <2>1, <2>3, <2>4, BeginKeeps
<1> QED BY <1>3, <1>4, <1>5 DEF SessionCall

LEMMA RollbackKeeps ==
    ASSUME HostInv, Rollback, script' = script PROVE HostInv'
<1> USE DEF HostInv
<1> DEFINE steps == Both([s \in Arms |-> ToggleArm(s)])
<1>1. /\ kind' = kind /\ old_build' = old_build /\ loops' = loops /\ rt' = rt
      /\ bus_connected' = bus_connected /\ power' = power /\ wedged' = wedged /\ cams_on' = cams_on
      /\ pub' = pub /\ shown' = shown /\ promise' = promise /\ raised' = raised /\ took' = took
      /\ scratch' = scratch /\ asked' = Release
      /\ call = "toggle" /\ call' = "rollback" /\ todo = <<>> /\ todo' = steps /\ kind # "single"
  BY DEF Rollback, fixed, arms, outside, readers
<1>2. Linked(steps, kind, "rollback") /\ steps # <<>> /\ Head(steps) = Do("take", "left")
  <2>1. steps = Both([s \in Arms |-> <<Do("take", s)>>])
    BY DEF ToggleArm
  <2> QED BY <2>1, KindsKnown, EachArmLinked, OpsOfCalls
<1> HIDE DEF steps
<1>3. todo' # <<>> /\ Op' = "take" /\ Here' = "left"
  BY <1>1, <1>2 DEF Op, Here, Do
<1>4. ScriptFollowed'
  <2>1. Doing' = "rollback"
    BY <1>1 DEF Doing
  <2> QED BY <1>1, <1>2, <2>1 DEF ScriptFollowed
<1>5. SessionTyped' /\ CallsInPlace'
  BY <1>1, HostAssumption DEF SessionTyped, CallsInPlace
<1>6. ArmsTyped' /\ OutsideTyped'
  BY <1>1 DEF ArmsTyped, OutsideTyped
<1>7. Wrapped' /\ ThreadsAreOwned' /\ Picked'
  BY <1>1 DEF Wrapped, ThreadsAreOwned, Picked, At, Live, GivenUp
<1>8. Room'
  <2>1. LoopsToCome' = 0
    BY <1>3 DEF LoopsToCome, Connecting
  <2> QED BY <1>1, <2>1, RoomKeeps
<1>9. Stage' /\ RightNeedsLeft'
  BY <1>1, <1>3 DEF Stage, At, Op, Connecting, Leaving, Here, RightNeedsLeft
<1>10. Settings'
  <2>1. \A s \in Arms : ToTake(s)'
    BY <1>3 DEF ToTake, Arms
  <2> QED BY <1>1, <2>1 DEF Settings, Toggling
<1> QED BY <1>4, <1>5, <1>6, <1>7, <1>8, <1>9, <1>10

LEMMA ReturnKeeps ==
    ASSUME HostInv, Return, CallsInPlace',
           kind = "teleop" /\ script' \in {"leader", "follower"} =>
              script \in {"leader", "follower"}
    PROVE  HostInv'
<1> USE DEF HostInv
<1>1. /\ kind' = kind /\ old_build' = old_build /\ loops' = loops /\ rt' = rt
      /\ bus_connected' = bus_connected /\ power' = power /\ wedged' = wedged /\ cams_on' = cams_on
      /\ pub' = pub /\ shown' = shown
      /\ call # "none" /\ todo = <<>> /\ call' = "none" /\ todo' = todo /\ raised' = FALSE
      /\ asked' = Release /\ took' = {} /\ scratch' = TRUE
      /\ promise' = [s \in Arms |-> Owed(s)]
      /\ call = "toggle" => took = Mine \/ kind = "single"
  BY DEF Return, fixed, arms, outside, readers
<1>2. ScriptFollowed'
  BY <1>1, EmptyFollowed
<1>3. \A s \in Arms : promise'[s] = Owed(s) /\ Owed(s) \in BOOLEAN
  BY <1>1, HostAssumption DEF Owed, SessionTyped
<1>4. SessionTyped'
  BY <1>1, <1>3, HostAssumption DEF SessionTyped
<1>5. ArmsTyped' /\ OutsideTyped'
  BY <1>1 DEF ArmsTyped, OutsideTyped
<1>6. Wrapped' /\ ThreadsAreOwned' /\ Picked'
  BY <1>1 DEF Wrapped, ThreadsAreOwned, Picked, At, Live, GivenUp
<1>7. Room'
  <2>1. LoopsToCome' = 0 /\ LoopsToCome = 0
    BY <1>1 DEF LoopsToCome, Connecting
  <2> QED BY <1>1, <2>1 DEF Room
<1>8. Stage' /\ RightNeedsLeft'
  BY <1>1 DEF Stage, At, Op, Connecting, Leaving, Here, RightNeedsLeft
<1>9. ASSUME old_build, NEW s \in Arms PROVE Owed(s) = Release
  <2>1. took # Mine
    BY <1>9 DEF Settings, Mine, Arms
  <2> QED BY <1>9, <2>1 DEF Settings, Owed
<1>10. ASSUME NEW s \in Arms, rt[s] # None PROVE loops[rt[s]].release = Owed(s)
  <2>1. CASE old_build
    BY <1>9, <1>10, <2>1 DEF Settings
  <2>2. CASE ~old_build /\ Toggling
    <3>1. loops[rt[s]].release = asked /\ s \in took
      BY <1>1, <1>10, <2>2 DEF Settings, ToTake
    <3>2. CASE call = "rollback"
      BY <3>1, <3>2 DEF CallsInPlace, Owed
    <3>3. CASE call = "toggle"
      <4>1. took = Mine
        <5>1. CASE kind # "single"
          BY <1>1, <3>3, <5>1
        <5>2. CASE kind = "single"
          <6>1. s = "left"
            BY <1>10, <5>2 DEF Stage, Arms
          <6>2. took \subseteq {"left"}
            BY <5>2 DEF Settings
          <6> QED BY <3>1, <5>2, <6>1, <6>2 DEF Mine
        <5> QED BY <5>1, <5>2
      <4> QED BY <3>1, <3>3, <4>1 DEF Owed
    <3> QED BY <2>2, <3>2, <3>3 DEF Toggling
  <2>3. CASE ~Toggling
    BY <1>10, <2>3 DEF Settings, Owed, Toggling
  <2> QED BY <2>1, <2>2, <2>3
<1>11. Settings'
  BY <1>1, <1>3, <1>9, <1>10 DEF Settings, Toggling
<1> QED BY <1>2, <1>4, <1>5, <1>6, <1>7, <1>8, <1>11
-----------------------------------------------------------------------------
(* The publisher, the outside, and steps of the leader's.                   *)
ArmsAndCallStay ==
    UNCHANGED <<kind, old_build, loops, rt, bus_connected, power, call, todo, raised, asked, took,
                scratch, promise>>

LEMMA StandsStill ==
    ASSUME HostInv, ArmsAndCallStay, OutsideTyped', Picked', CallsInPlace',
           kind = "teleop" /\ script' \in {"leader", "follower"} =>
              script \in {"leader", "follower"}
    PROVE  HostInv'
<1> USE DEF HostInv, ArmsAndCallStay
<1>1. SessionTyped' /\ ArmsTyped' /\ ScriptFollowed'
  BY DEF SessionTyped, ArmsTyped, ScriptFollowed, Doing
<1>2. Room'
  BY DEF Room, LoopsToCome, Connecting, Op, Here
<1>3. Stage' /\ RightNeedsLeft'
  BY DEF Stage, RightNeedsLeft, Connecting, Leaving, Op, Here, At, GivenUp, Live
<1>4. Wrapped' /\ ThreadsAreOwned'
  BY DEF Wrapped, At, Here, ThreadsAreOwned, Live
<1>5. Settings'
  BY DEF Settings, Toggling, ToTake, Here
<1> QED BY <1>1, <1>2, <1>3, <1>4, <1>5

LEMMA OutsideKeeps ==
    ASSUME HostInv, Wedge \/ CameraDies, script' = script PROVE HostInv'
<1>1. ArmsAndCallStay /\ pub' = pub /\ shown' = shown
  BY DEF Wedge, CameraDies, ArmsAndCallStay, fixed, arms, session, readers
<1>2. wedged' \in [Arms -> BOOLEAN] /\ cams_on' \subseteq Cameras
  BY DEF HostInv, OutsideTyped, Wedge, CameraDies
<1>3. OutsideTyped'
  BY <1>1, <1>2 DEF HostInv, OutsideTyped, ArmsAndCallStay
<1>4. Picked' /\ CallsInPlace'
  BY <1>1 DEF HostInv, Picked, CallsInPlace, GivenUp, Live, ArmsAndCallStay
<1> QED BY <1>1, <1>3, <1>4, StandsStill

LEMMA PubCheckKeeps ==
    ASSUME HostInv, PubCheck, script' = script PROVE HostInv'
<1>1. ArmsAndCallStay /\ wedged' = wedged /\ cams_on' = cams_on
  BY DEF PubCheck, ArmsAndCallStay, fixed, arms, session, outside
<1>2. Len(loops) \in Nat
  BY DEF HostInv, ArmsTyped
<1>3. PICK s \in Mine : pub' = [at |-> "checked", arm |-> s, holds |-> None] /\ shown' = "none"
  BY DEF PubCheck
<1>4. s \in Arms /\ None \in 0..Len(loops)
  BY <1>2 DEF Mine, Arms, None
<1>5. OutsideTyped' /\ Picked'
  BY <1>1, <1>3, <1>4 DEF HostInv, OutsideTyped, Picked, ArmsAndCallStay
<1>6. CallsInPlace'
  BY <1>1 DEF HostInv, CallsInPlace, ArmsAndCallStay
<1> QED BY <1>1, <1>5, <1>6, StandsStill

LEMMA PubPickKeeps ==
    ASSUME HostInv, PubPick, script' = script PROVE HostInv'
<1>1. ArmsAndCallStay /\ wedged' = wedged /\ cams_on' = cams_on
  BY DEF PubPick, ArmsAndCallStay, fixed, arms, session, outside
<1>2. Len(loops) \in Nat /\ pub.arm \in Arms
  BY DEF HostInv, ArmsTyped, OutsideTyped
<1>3. ASSUME pub' = Idle /\ shown' = "error" PROVE OutsideTyped' /\ Picked'
  <2>1. pub' \in [at : {"idle", "checked", "picked"}, arm : Arms, holds : 0..Len(loops)]
        /\ pub'.at = "idle"
    BY <1>2, <1>3 DEF Idle, Arms, None
  <2> QED BY <1>1, <1>3, <2>1 DEF HostInv, OutsideTyped, Picked, ArmsAndCallStay
<1>4. ASSUME rt[pub.arm] # None PROVE OutsideTyped' /\ Picked'
  <2> DEFINE l == rt[pub.arm]
  <2>1. l \in 1..Len(loops) /\ loops[l].arm = pub.arm /\ l # None
    BY <1>2, <1>4, WrapperHere DEF HostInv
  <2>2. loops[l].wrapped \/ GivenUp(l)
    BY <1>2, <1>4 DEF HostInv, Wrapped, Stage
  <2>3. pub' = [pub EXCEPT !.at = "picked", !.holds = l] /\ shown' = shown
    BY <1>4 DEF PubPick
  <2> HIDE DEF l
  <2>4. /\ pub' \in [at : {"idle", "checked", "picked"}, arm : Arms, holds : 0..Len(loops)]
        /\ pub'.holds = l /\ pub'.arm = pub.arm
    <3>1. pub \in [at : {"idle", "checked", "picked"}, arm : Arms, holds : 0..Len(loops)]
      BY DEF HostInv, OutsideTyped
    <3>2. l \in 0..Len(loops)
      BY <1>2, <2>1
    <3> QED BY <2>3, <3>1, <3>2
  <2>5. OutsideTyped'
    BY <1>1, <2>3, <2>4 DEF HostInv, OutsideTyped, ArmsAndCallStay
  <2>6. Picked'
    BY <1>1, <2>1, <2>2, <2>4 DEF Picked, GivenUp, Live, ArmsAndCallStay
  <2> QED BY <2>5, <2>6
<1>5. OutsideTyped' /\ Picked'
  BY <1>3, <1>4 DEF PubPick
<1>6. CallsInPlace'
  BY <1>1 DEF HostInv, CallsInPlace, ArmsAndCallStay
<1> QED BY <1>1, <1>5, <1>6, StandsStill

LEMMA PubReadKeeps ==
    ASSUME HostInv, PubRead, script' = script PROVE HostInv'
<1> USE DEF HostInv
<1> DEFINE l == pub.holds
           goes == loops[l].wrapped /\ rt[pub.arm] # l
<1>1. /\ pub.at = "picked" /\ pub' = Idle
      /\ kind' = kind /\ old_build' = old_build /\ rt' = rt /\ bus_connected' = bus_connected
      /\ wedged' = wedged /\ cams_on' = cams_on /\ call' = call /\ todo' = todo
      /\ raised' = raised /\ asked' = asked /\ took' = took
      /\ scratch' = scratch /\ promise' = promise
      /\ shown' \in {"state", "zeros", "error"}
  BY DEF PubRead, fixed, outside, session
<1>2. Len(loops) \in Nat /\ loops \in Seq(Loop) /\ l \in 1..Len(loops) /\ loops[l].arm = pub.arm
  <2>1. l \in 0..Len(loops) /\ l # 0 /\ Len(loops) \in Nat
    BY <1>1 DEF OutsideTyped, Picked, None, ArmsTyped
  <2> QED BY <1>1, <2>1 DEF ArmsTyped, Picked
<1>0. /\ IF goes THEN \E d \in Destroyed(l) : loops' = [loops EXCEPT ![l] = d] ELSE loops' = loops
      /\ power' \in {power, [power EXCEPT ![loops[l].arm] = "limp"]}
  <2>1. CASE goes
    <3>1. PICK d \in Destroyed(l) : loops' = [loops EXCEPT ![l] = d] /\ power' \in Powers(l, d)
      BY <2>1 DEF PubRead
    <3> QED BY <2>1, <3>1, PowersKnown
  <2>2. CASE ~goes
    BY <2>2 DEF PubRead
  <2> QED BY <2>1, <2>2
<1>3. /\ OneLoopChanges(l) /\ loops'[l].release = loops[l].release
      /\ loops'[l].kept = loops[l].kept
      /\ \/ loops'[l] = loops[l]
         \/ rt[loops[l].arm] # l /\ loops'[l].thread \in {loops[l].thread, "gone"}
  <2>1. CASE goes
    <3>1. PICK d \in Destroyed(l) : loops' = [loops EXCEPT ![l] = d]
      BY <1>0, <2>1
    <3>2. rt[loops[l].arm] # l
      BY <1>2, <2>1
    <3>3. /\ d \in Loop /\ d.arm = loops[l].arm /\ d.release = loops[l].release
          /\ d.kept = loops[l].kept /\ d.thread \in {loops[l].thread, "gone"}
      BY <1>2, DestroyedLoop
    <3> HIDE DEF l
    <3>4. /\ loops' \in Seq(Loop) /\ Len(loops') = Len(loops) /\ loops'[l] = d
          /\ \A j \in 1..Len(loops) : j # l => loops'[j] = loops[j]
      BY <1>2, <3>1, <3>3, LoopPut
    <3> QED BY <1>2, <3>2, <3>3, <3>4 DEF OneLoopChanges
  <2>2. CASE ~goes
    BY <1>0, <1>2, <2>2 DEF OneLoopChanges
  <2> QED BY <2>1, <2>2
<1> HIDE DEF goes
<1>4. DOMAIN loops = 1..Len(loops) /\ DOMAIN loops' = 1..Len(loops)
  BY <1>2, <1>3 DEF OneLoopChanges
<1>5. ASSUME NEW s \in Arms, rt[s] # None
      PROVE  loops'[rt[s]] = loops[rt[s]]
  <2>1. rt[s] \in 1..Len(loops) /\ loops[rt[s]].arm = s
    BY <1>5, WrapperHere
  <2>2. CASE rt[s] = l
    BY <1>3, <2>1, <2>2
  <2>3. CASE rt[s] # l
    BY <1>3, <2>1, <2>3 DEF OneLoopChanges
  <2> QED BY <2>2, <2>3
<1>6. SessionTyped' /\ CallsInPlace' /\ ScriptFollowed'
  BY <1>1 DEF SessionTyped, CallsInPlace, ScriptFollowed, Doing
<1>7. OutsideTyped' /\ Picked'
  <2>1. /\ pub' \in [at : {"idle", "checked", "picked"}, arm : Arms, holds : 0..Len(loops)]
        /\ pub'.at = "idle"
    BY <1>1, <1>2 DEF Idle, Arms, None
  <2> QED BY <1>1, <1>3, <2>1 DEF OutsideTyped, Picked, OneLoopChanges
<1>8. ArmsTyped'
  <2>1. power' \in [Arms -> {"limp", "stiff"}]
    BY <1>0 DEF ArmsTyped
  <2> HIDE DEF l
  <2> QED BY <1>1, <1>3, <2>1, OneLoopTyped
<1>9. ThreadsAreOwned'
  <2>1. kind # "single" /\ loops'[l].thread = "live" =>
           loops'[l].kept \/ (loops'[l].wrapped /\ rt[loops[l].arm] = l)
    BY <1>2, <1>3, <1>4 DEF ThreadsAreOwned, Live
  <2>2. CASE kind = "single"
    BY <1>1, <2>2 DEF ThreadsAreOwned
  <2>3. CASE kind # "single"
    <3> HIDE DEF l
    <3> QED BY <1>1, <1>3, <2>1, <2>3, OneLoopOwned
  <2> QED BY <2>2, <2>3
<1>10. Room'
  BY <1>1, <1>3 DEF Room, LoopsToCome, Connecting, Op, Here, OneLoopChanges
<1>11. Stage'
  <2>1. \A s \in Arms : rt[s] # None => (GivenUp(rt[s]) <=> GivenUp(rt[s])')
    BY <1>1, <1>5 DEF GivenUp, Live
  <2>2. todo # <<>> => Here \in Arms
    BY StepKnown
  <2> QED BY <1>1, <2>1, <2>2 DEF Stage, At, Op, Connecting, Leaving, Here
<1>12. Wrapped' /\ RightNeedsLeft'
  BY <1>1, <1>5 DEF Wrapped, At, Op, Here, RightNeedsLeft, Leaving
<1>13. Settings'
  BY <1>1, <1>5 DEF Settings, Toggling, ToTake, Here
<1> QED BY <1>6, <1>7, <1>8, <1>9, <1>10, <1>11, <1>12, <1>13
-----------------------------------------------------------------------------
LEMMA CallStepKeeps ==
    ASSUME HostInv, CallStep, script' = script PROVE HostInv'
BY GuardKeeps, NewKeeps, StartKeeps, UpKeeps, CamerasUpKeeps, CheckKeeps, StopNobodyThereKeeps,
   StopJoinsKeeps, StopAbandonsKeeps, DropKeeps, ClearKeeps, CamerasOffKeeps, TakeKeeps,
   SendKeeps, RollbackKeeps
   DEF CallStep

LEMMA HostStepKeeps ==
    ASSUME HostInv, HostStep PROVE HostInv'
<1>1. script' = script
  BY DEF HostStep, leaderVars
<1>2. CASE SessionCall BY <1>1, <1>2, SessionCallKeeps
<1>3. CASE CallStep BY <1>1, <1>3, CallStepKeeps
<1>4. CASE Publish
  BY <1>1, <1>4, PubCheckKeeps, PubPickKeeps, PubReadKeeps DEF Publish
<1>5. CASE Wedge \/ CameraDies BY <1>1, <1>5, OutsideKeeps
<1>6. CASE kind # "teleop" /\ Return
  <2>1. CallsInPlace'
    BY <1>1, <1>6 DEF HostInv, CallsInPlace, Return, fixed
  <2> QED BY <1>1, <1>6, <2>1, ReturnKeeps
<1> QED BY <1>2, <1>3, <1>4, <1>5, <1>6 DEF HostStep

LEMMA LeaderKeeps ==
    ASSUME HostInv, UNCHANGED hostVars,
           \/ LeaderConnect \/ Submit \/ AwaitLeft \/ AwaitRight \/ ReadRaises
           \/ WorkerStart \/ WorkerEnd \/ LeaderDisconnect \/ script' = script
    PROVE  HostInv'
<1>1. ArmsAndCallStay /\ UNCHANGED <<wedged, cams_on, pub, shown>>
  BY DEF hostVars, ArmsAndCallStay, fixed, arms, outside, session, readers
<1>2. OutsideTyped' /\ Picked'
  BY <1>1 DEF HostInv, OutsideTyped, Picked, GivenUp, Live, ArmsAndCallStay
<1>3. \/ script = "leader" /\ kind = "teleop" /\ script' \in {"follower", "dead"}
      \/ script \in {"loop", "await left", "await right"}
         /\ script' \in {"loop", "await left", "await right", "send", "dead"}
      \/ script = "stop leader" /\ script' \in {"stop follower", "dead"}
      \/ script' = script
  BY DEF LeaderConnect, Submit, AwaitLeft, AwaitRight, ReadRaises, WorkerStart, WorkerEnd,
         LeaderDisconnect, Goes
<1>4. CallsInPlace'
  BY <1>1, <1>3 DEF HostInv, CallsInPlace, Looping, ArmsAndCallStay
<1> QED BY <1>1, <1>2, <1>3, <1>4, StandsStill

LEMMA InterruptKeeps ==
    ASSUME HostInv, Interrupt PROVE HostInv'
<1> USE DEF HostInv
<1>1. /\ kind' = kind /\ old_build' = old_build /\ loops' = loops /\ rt' = rt
      /\ bus_connected' = bus_connected /\ power' = power /\ wedged' = wedged /\ cams_on' = cams_on
      /\ pub' = pub /\ shown' = shown /\ promise' = promise /\ took' = took /\ asked' = asked
      /\ call' = "none" /\ todo' = <<>> /\ raised' = FALSE /\ scratch' = TRUE
      /\ script \in Looping /\ script' = "stop leader"
  BY DEF Interrupt, fixed, arms, outside, readers
<1>2. call \in {"none", "send"} /\ kind = "teleop"
  BY <1>1 DEF CallsInPlace, Looping
<1>3. ~Leaving /\ ~At("clear")
  BY <1>2, StepKnown DEF Leaving, At, Op
<1>4. SessionTyped' /\ CallsInPlace' /\ ScriptFollowed'
  BY <1>1, <1>2, EmptyFollowed DEF SessionTyped, CallsInPlace, Looping
<1>5. ArmsTyped' /\ OutsideTyped' /\ Picked' /\ ThreadsAreOwned'
  BY <1>1 DEF ArmsTyped, OutsideTyped, Picked, ThreadsAreOwned, Live, GivenUp
<1>6. Room'
  <2>1. Len(loops) \in Nat /\ MaxLoops \in Nat
    BY HostAssumption DEF ArmsTyped
  <2>2. LoopsToCome \in {0, 1, 2}
    BY DEF LoopsToCome
  <2>3. LoopsToCome' = 0
    BY <1>1 DEF LoopsToCome, Connecting
  <2>4. Len(loops) + LoopsToCome <= MaxLoops
    BY DEF Room
  <2>5. Len(loops) + 0 <= MaxLoops
    BY <2>1, <2>2, <2>4
  <2>6. script' \notin {"leader", "follower"}
    BY <1>1
  <2> QED BY <1>1, <2>3, <2>5, <2>6 DEF Room
<1>7. Stage'
  BY <1>1, <1>2 DEF Stage, At, Connecting, Leaving
<1>8. Wrapped' /\ RightNeedsLeft'
  BY <1>1, <1>3 DEF Wrapped, RightNeedsLeft
<1>9. Settings'
  BY <1>1, <1>2 DEF Settings, Toggling
<1> QED BY <1>4, <1>5, <1>6, <1>7, <1>8, <1>9

LEMMA FollowerKeeps ==
    ASSUME HostInv, Follower PROVE HostInv'
<1>0. kind \in AllKinds /\ kind \in Kinds /\ asked \in BOOLEAN
  BY KindsKnown DEF HostInv, SessionTyped
<1>1. CASE Calls("follower", "connecting", "connect", Connect)
  <2>1. /\ script = "follower" /\ script' = "connecting" /\ Begin("connect", Connect)
        /\ UNCHANGED <<fixed, arms, outside, readers>> /\ asked' = asked /\ kind' = kind
    BY <1>1 DEF Calls, Goes, fixed
  <2>2. kind = "teleop"
    BY <2>1 DEF HostInv, CallsInPlace
  <2>3. CallsInPlace'
    BY <2>1, <2>2 DEF CallsInPlace, Looping, Begin
  <2>4. Len(loops) + (IF kind = "single" THEN 1 ELSE 2) <= MaxLoops
    BY <1>0, <2>1, <2>2, TeleopAssumption DEF HostInv, Room
  <2>5. /\ Linked(Connect, kind, "connect") /\ Connect # <<>>
        /\ Head(Connect) = Do(FirstOf("connect"), "left")
    BY <1>0, ConnectLinked DEF FirstOf
  <2> QED BY <1>0, <2>1, <2>3, <2>4, <2>5, BeginKeeps
<1>2. CASE Calls("send", "sending", "send", Both([s \in Arms |-> SendArm(s)]))
  <2> DEFINE steps == Both([s \in Arms |-> SendArm(s)])
  <2>1. /\ script = "send" /\ script' = "sending" /\ Begin("send", steps)
        /\ UNCHANGED <<fixed, arms, outside, readers>> /\ asked' = asked /\ kind' = kind
    BY <1>2 DEF Calls, Goes, fixed
  <2>2. kind = "teleop"
    BY <2>1 DEF HostInv, CallsInPlace
  <2>3. CallsInPlace'
    BY <2>1, <2>2 DEF CallsInPlace, Looping, Begin
  <2>4. steps = Both([s \in Arms |-> <<Do("send", s)>>])
    BY DEF SendArm
  <2>5. Linked(steps, kind, "send") /\ steps # <<>> /\ Head(steps) = Do(FirstOf("send"), "left")
    BY <1>0, <2>4, EachArmLinked, OpsOfCalls DEF FirstOf
  <2> HIDE DEF steps
  <2> QED BY <1>0, <2>1, <2>3, <2>5, BeginKeeps
<1>3. CASE Calls("stop follower", "stopping", "disconnect", Disconnect)
  <2>1. /\ script = "stop follower" /\ script' = "stopping" /\ Begin("disconnect", Disconnect)
        /\ UNCHANGED <<fixed, arms, outside, readers>> /\ asked' = asked /\ kind' = kind
    BY <1>3 DEF Calls, Goes, fixed
  <2>2. kind = "teleop"
    BY <2>1 DEF HostInv, CallsInPlace
  <2>3. CallsInPlace'
    BY <2>1, <2>2 DEF CallsInPlace, Looping, Begin
  <2>5. /\ Linked(Disconnect, kind, "disconnect") /\ Disconnect # <<>>
        /\ Head(Disconnect) = Do(FirstOf("disconnect"), "left")
    BY <1>0, DisconnectLinked DEF FirstOf
  <2> QED BY <1>0, <2>1, <2>3, <2>5, BeginKeeps
<1>4. ASSUME NEW from \in {"connecting", "sending", "stopping"}, NEW to \in {"loop", "done"},
             Ends(from, to)
      PROVE  HostInv'
  <2>1. script = from /\ script' \in {"dead", "loop", "done"} /\ Return
    BY <1>4 DEF Ends, Goes
  <2>2. kind = "teleop"
    BY <2>1 DEF HostInv, CallsInPlace
  <2>3. CallsInPlace'
    BY <2>1, <2>2 DEF CallsInPlace, Looping, Return, fixed
  <2> QED BY <2>1, <2>3, ReturnKeeps
<1> QED BY <1>1, <1>2, <1>3, <1>4 DEF Follower
-----------------------------------------------------------------------------
(* The leader: the other half of the invariant.  Quieted is where no read is in
   the pool, unless a get_action() raised.                                  *)
Scripts == Looping \cup {"leader", "follower", "connecting", "stop leader",
                         "stop follower", "stopping", "done", "dead"}
LeaderTyped ==
    /\ script \in Scripts /\ leader_open \subseteq Arms /\ pool_open \in BOOLEAN
    /\ jobs \in [Jobs -> {"none", "queued", "running", "ok", "failed", "cancelled"}]
    /\ reads \in 0..MaxReads /\ missed \in BOOLEAN
LeaderInv == LeaderTyped /\ Jobbed /\ Awaiting

JobsStay == jobs' = jobs /\ reads' = reads /\ missed' = missed
Quieted == {"leader", "follower", "connecting", "loop", "send", "sending"}

LEMMA OnlyTheScript ==
    ASSUME LeaderInv, JobsStay, leader_open' \subseteq Arms, pool_open' \in BOOLEAN,
           script' \in Scripts \ {"await left", "await right"},
           script' \in Quieted => script \in Quieted
    PROVE  LeaderInv'
<1>1. LeaderTyped' /\ Awaiting'
  BY DEF LeaderInv, LeaderTyped, Awaiting, JobsStay
<1>2. Jobbed'
  BY DEF LeaderInv, Jobbed, JobsStay, Quieted
<1> QED BY <1>1, <1>2 DEF LeaderInv

LEMMA LeaderStays ==
    ASSUME LeaderInv, UNCHANGED leaderVars PROVE LeaderInv'
BY DEF LeaderInv, LeaderTyped, Jobbed, Awaiting, leaderVars

LEMMA JobPlaces ==
    /\ \A j \in Jobs : j = <<j[1], j[2]>> /\ j[1] \in Arms /\ j[2] \in 1..MaxReads
    /\ \A s \in Arms, n \in 1..MaxReads : <<s, n>> \in Jobs
    /\ MaxReads \in Nat
BY TeleopAssumption DEF Jobs

LEMMA SubmitKeeps ==
    ASSUME LeaderInv, Submit PROVE LeaderInv'
<1> USE DEF LeaderInv
<1>1. /\ script = "loop" /\ script' = "await left" /\ reads' = reads + 1 /\ reads < MaxReads
      /\ jobs' = [j \in Jobs |-> IF j[2] = reads + 1 THEN "queued" ELSE jobs[j]]
      /\ leader_open' = leader_open /\ pool_open' = pool_open /\ missed' = missed
  BY DEF Submit, Goes
<1>2. reads \in 0..MaxReads /\ MaxReads \in Nat /\ reads < MaxReads /\ reads' = reads + 1
  BY <1>1, JobPlaces DEF LeaderTyped
<1>2a. reads' \in 0..MaxReads /\ reads' > 0 /\ reads \in Int
  BY <1>2
<1>2b. jobs' \in [Jobs -> {"none", "queued", "running", "ok", "failed", "cancelled"}]
  BY <1>1 DEF LeaderTyped
<1>3. LeaderTyped'
  BY <1>1, <1>2a, <1>2b DEF LeaderTyped, Scripts, Looping
<1>4. Awaiting'
  BY <1>2a DEF Awaiting
<1>5. Jobbed'
  <2> SUFFICES ASSUME NEW j \in Jobs
               PROVE  /\ j[2] > reads' => jobs'[j] = "none"
                      /\ \/ missed' \/ jobs'[j] \notin {"queued", "running"}
                         \/ j[2] = reads'
    BY <1>1 DEF Jobbed
  <2>1. j[2] \in Int
    BY JobPlaces
  <2>2. CASE j[2] = reads + 1
    <3>1. j[2] = reads' /\ ~(j[2] > reads')
      <4>1. reads' = reads + 1
        BY <1>2
      <4> QED BY <2>1, <2>2, <4>1
    <3> QED BY <3>1
  <2>3. CASE j[2] # reads + 1
    <3>1. jobs'[j] = jobs[j]
      BY <1>1, <2>3
    <3>2. j[2] > reads' => j[2] > reads
      <4>1. reads' = reads + 1 /\ reads \in Int
        BY <1>2, <1>2a
      <4> QED BY <2>1, <4>1
    <3> QED BY <1>1, <3>1, <3>2 DEF Jobbed
  <2> QED BY <2>2, <2>3
<1> QED BY <1>3, <1>4, <1>5

LEMMA AwaitKeeps ==
    ASSUME LeaderInv, AwaitLeft \/ AwaitRight PROVE LeaderInv'
<1> USE DEF LeaderInv
<1> DEFINE arm == IF script = "await left" THEN "left" ELSE "right"
<1>1. /\ JobsStay /\ leader_open' = leader_open /\ pool_open' = pool_open
      /\ jobs[<<arm, reads>>] = "ok"
      /\ \/ script = "await left" /\ script' = "await right"
         \/ script = "await right" /\ script' = "send"
  BY DEF AwaitLeft, AwaitRight, Goes, JobsStay
<1>2. LeaderTyped' /\ Awaiting'
  BY <1>1 DEF LeaderTyped, Awaiting, Scripts, Looping, JobsStay
<1>3. Jobbed'
  <2> SUFFICES ASSUME NEW j \in Jobs, ~missed, jobs[j] \in {"queued", "running"}
               PROVE  j[2] = reads /\ script' = "await right" /\ j[1] # "left"
    BY <1>1 DEF Jobbed, JobsStay
  <2>1. j[2] = reads /\ (script = "await right" => j[1] # "left")
    BY DEF Jobbed
  <2>2. j = <<j[1], j[2]>> /\ j[1] \in Arms
    BY JobPlaces
  <2>3. j[1] # arm
    BY <1>1, <2>1, <2>2
  <2> QED BY <1>1, <2>1, <2>2, <2>3 DEF Arms
<1> QED BY <1>2, <1>3

LEMMA WorkersKeep ==
    ASSUME LeaderInv, WorkerStart \/ WorkerEnd PROVE LeaderInv'
<1> USE DEF LeaderInv
<1>1. /\ script' = script /\ leader_open' = leader_open /\ pool_open' = pool_open
      /\ reads' = reads /\ missed' = missed
  BY DEF WorkerStart, WorkerEnd
<1>2. PICK j \in Jobs, r \in {"ok", "failed", "running"} :
         jobs' = [jobs EXCEPT ![j] = r] /\ jobs[j] \in {"queued", "running"}
  <2>1. CASE WorkerStart
    <3>1. PICK j \in Jobs :
            /\ jobs[j] = "queued"
            /\ jobs' = [jobs EXCEPT ![j] = IF j[1] \in leader_open THEN "running" ELSE "failed"]
      BY <2>1 DEF WorkerStart
    <3> QED BY <3>1
  <2>2. CASE WorkerEnd
    BY <2>2 DEF WorkerEnd, Busy
  <2> QED BY <2>1, <2>2
<1>3. LeaderTyped' /\ Awaiting'
  BY <1>1, <1>2 DEF LeaderTyped, Awaiting
<1>4. Jobbed'
  <2> SUFFICES ASSUME NEW k \in Jobs
               PROVE  /\ k[2] > reads => jobs'[k] = "none"
                      /\ missed \/ jobs'[k] \notin {"queued", "running"} \/
                           /\ k[2] = reads /\ script \notin Quieted
                           /\ script = "await right" => k[1] # "left"
    BY <1>1 DEF Jobbed, Quieted
  <2>1. CASE k = j
    BY <1>2, <2>1 DEF Jobbed, LeaderTyped, Quieted
  <2>2. CASE k # j
    <3>1. jobs'[k] = jobs[k]
      BY <1>2, <2>2 DEF LeaderTyped
    <3> QED BY <3>1 DEF Jobbed, Quieted
  <2> QED BY <2>1, <2>2
<1> QED BY <1>3, <1>4

LEMMA LeaderDisconnectKeeps ==
    ASSUME LeaderInv, LeaderDisconnect PROVE LeaderInv'
<1> USE DEF LeaderInv
<1>1. /\ pool_open' = FALSE /\ reads' = reads /\ missed' = missed
      /\ jobs' = [j \in Jobs |-> IF jobs[j] = "queued" THEN "cancelled" ELSE jobs[j]]
      /\ script = "stop leader" /\ script' \in {"stop follower", "dead"}
      /\ leader_open' \subseteq Arms
  BY DEF LeaderDisconnect, Arms
<1>2. LeaderTyped' /\ Awaiting'
  BY <1>1 DEF LeaderTyped, Awaiting, Scripts
<1>3. Jobbed'
  BY <1>1 DEF Jobbed, LeaderTyped
<1> QED BY <1>2, <1>3

LEMMA LeaderInvKeeps ==
    ASSUME LeaderInv, Next PROVE LeaderInv'
<1>0. Arms \subseteq Arms /\ leader_open \subseteq Arms /\ pool_open \in BOOLEAN
  BY DEF LeaderInv, LeaderTyped
<1>1. CASE HostStep BY <1>1, LeaderStays DEF HostStep
<1>2. CASE LeaderConnect
  <2>1. /\ JobsStay /\ pool_open' = pool_open /\ leader_open' \subseteq Arms
        /\ script = "leader" /\ script' \in {"follower", "dead"}
    BY <1>2 DEF LeaderConnect, JobsStay, Arms
  <2> QED BY <1>0, <2>1, OnlyTheScript DEF Scripts, Quieted
<1>3. CASE Follower
  <2>1. /\ JobsStay /\ pool_open' = pool_open /\ leader_open' = leader_open
        /\ \/ script \in {"follower", "send", "connecting", "sending"}
              /\ script' \in {"connecting", "sending", "loop", "dead"}
           \/ script \in {"stop follower", "stopping"} /\ script' \in {"stopping", "done", "dead"}
    BY <1>3 DEF Follower, Calls, Ends, Goes, JobsStay
  <2> QED BY <1>0, <2>1, OnlyTheScript DEF Scripts, Quieted, Looping
<1>4. CASE Submit BY <1>4, SubmitKeeps
<1>5. CASE AwaitLeft \/ AwaitRight BY <1>5, AwaitKeeps
<1>6. CASE ReadRaises
  <2>1. /\ jobs' = jobs /\ reads' = reads /\ missed' = TRUE /\ pool_open' = pool_open
        /\ leader_open' = leader_open /\ script' \in {"loop", "dead"}
    BY <1>6 DEF ReadRaises
  <2> QED
    BY <2>1 DEF LeaderInv, LeaderTyped, Jobbed, Awaiting, Scripts, Looping
<1>7. CASE WorkerStart \/ WorkerEnd BY <1>7, WorkersKeep
<1>8. CASE Interrupt
  <2>1. /\ JobsStay /\ pool_open' = pool_open /\ leader_open' = leader_open
        /\ script' = "stop leader"
    BY <1>8 DEF Interrupt, JobsStay
  <2> QED BY <1>0, <2>1, OnlyTheScript DEF Scripts, Quieted
<1>9. CASE LeaderDisconnect BY <1>9, LeaderDisconnectKeeps
<1> QED BY <1>1, <1>2, <1>3, <1>4, <1>5, <1>6, <1>7, <1>8, <1>9 DEF Next, TeleopStep
-----------------------------------------------------------------------------
(* The inductive invariant.                                                 *)
IInv == HostInv /\ LeaderInv

LEMMA InitHolds == Init => IInv
<1> SUFFICES ASSUME Init PROVE IInv
  OBVIOUS
<1> USE DEF Init, HostInit
<1>1. loops = <<>> /\ todo = <<>> /\ \A s \in Arms : rt[s] = None
  OBVIOUS
<1>2. SessionTyped /\ CallsInPlace
  BY HostAssumption DEF SessionTyped, CallsInPlace, Looping
<1>2a. ScriptFollowed
  BY <1>1 DEF ScriptFollowed, Linked, Chain
<1>3. ArmsTyped /\ OutsideTyped
  BY DEF ArmsTyped, OutsideTyped, None, Idle, Arms
<1>4. Room
  BY <1>1, HostAssumption DEF Room, LoopsToCome, Connecting
<1>5. Stage /\ Wrapped /\ RightNeedsLeft /\ Picked
  BY <1>1 DEF Stage, Wrapped, RightNeedsLeft, Picked, At, Connecting, Leaving, Idle, Arms
<1>6. ThreadsAreOwned /\ Settings
  BY <1>1 DEF ThreadsAreOwned, Settings
<1>7. LeaderTyped /\ Awaiting
  <2>1. 0 \in 0..MaxReads
    BY JobPlaces
  <2> QED BY <2>1 DEF LeaderTyped, Awaiting, Scripts
<1>8. Jobbed
  BY DEF Jobbed
<1> QED BY <1>2, <1>2a, <1>3, <1>4, <1>5, <1>6, <1>7, <1>8 DEF IInv, HostInv, LeaderInv

LEMMA Inductive == IInv /\ [Next]_vars => IInv'
<1> SUFFICES ASSUME IInv, [Next]_vars PROVE IInv'
  OBVIOUS
<1>1. HostInv /\ LeaderInv
  BY DEF IInv
<1>2. CASE UNCHANGED vars
  <2>1. UNCHANGED hostVars /\ UNCHANGED leaderVars /\ script' = script
    BY <1>2 DEF vars, leaderVars
  <2> QED BY <1>1, <2>1, LeaderKeeps, LeaderStays DEF IInv
<1>3. CASE Next
  <2>1. LeaderInv'
    BY <1>1, <1>3, LeaderInvKeeps
  <2>2. ASSUME HostStep PROVE HostInv'
    BY <1>1, <2>2, HostStepKeeps
  <2>3. ASSUME Follower PROVE HostInv'
    BY <1>1, <2>3, FollowerKeeps
  <2>4. ASSUME Interrupt PROVE HostInv'
    BY <1>1, <2>4, InterruptKeeps
  <2>5. ASSUME \/ LeaderConnect \/ Submit \/ AwaitLeft \/ AwaitRight \/ ReadRaises
               \/ WorkerStart \/ WorkerEnd \/ LeaderDisconnect
        PROVE  HostInv'
    <3>1. UNCHANGED hostVars
      BY <2>5 DEF LeaderConnect, Submit, AwaitLeft, AwaitRight, ReadRaises, WorkerStart,
                  WorkerEnd, LeaderDisconnect
    <3> QED BY <1>1, <2>5, <3>1, LeaderKeeps
  <2>6. HostInv'
    BY <1>3, <2>2, <2>3, <2>4, <2>5 DEF Next, TeleopStep
  <2> QED BY <2>1, <2>6 DEF IInv
<1> QED BY <1>2, <1>3

LEMMA Invariant == Spec => []IInv
<1> QED BY InitHolds, Inductive, PTL DEF Spec
-----------------------------------------------------------------------------
LEMMA TypesFollow == IInv => TypeOK
<1> SUFFICES ASSUME IInv PROVE TypeOK
  OBVIOUS
<1> USE DEF IInv, HostInv, LeaderInv
<1>1. Len(loops) \in Nat /\ DOMAIN loops = 1..Len(loops) /\ \A l \in DOMAIN loops : loops[l] \in Loop
  BY DEF ArmsTyped
<1>2. 0..Len(loops) = {None} \cup DOMAIN loops
  BY <1>1 DEF None
<1>3. Len(loops) <= MaxLoops
  <2>1. LoopsToCome \in {0, 1, 2} /\ MaxLoops \in Nat /\ Len(loops) + LoopsToCome <= MaxLoops
    BY HostAssumption DEF LoopsToCome, Room
  <2> QED BY <1>1, <2>1
<1>4. Len(todo) <= 9 /\ \A i \in DOMAIN todo : todo[i] \in Steps
  BY DEF ScriptFollowed, Linked, Chain
<1>5. HostTypeOK
  <2>1. rt \in [Arms -> {None} \cup DOMAIN loops]
    BY <1>2 DEF ArmsTyped
  <2>2. pub \in [at : {"idle", "checked", "picked"}, arm : Arms, holds : {None} \cup DOMAIN loops]
    BY <1>2 DEF OutsideTyped
  <2> QED
    BY <1>1, <1>3, <1>4, <2>1, <2>2 DEF HostTypeOK, SessionTyped, ArmsTyped, OutsideTyped
<1> QED BY <1>5 DEF TypeOK, LeaderTyped, Scripts

(* Every variable of the session, the arms, the publisher and the leader keeps
   to its type: _rt_robot names a loop of its own arm, bus_connected means a
   wrapper is there, and no more loops are made than the bound allows.      *)
THEOREM TeleopTypes == Spec => []TypeOK
<1> QED BY Invariant, TypesFollow, PTL

(* For a pair no native thread is running that neither its arm's wrapper holds,
   where disconnect() finds it, nor _ABANDONED_LOOPS keeps alive.           *)
THEOREM ThreadsOwned == Spec => []ThreadsAreOwned
<1>1. IInv => ThreadsAreOwned
  BY DEF IInv, HostInv
<1> QED BY <1>1, Invariant, PTL

(* When the disconnect() of a pair ends, with or without an exception, every
   thread is joined but those a wedged bus made it give up.                 *)
THEOREM DisconnectStopsAll == Spec => []DisconnectStops
<1>1. IInv => DisconnectStops
  <2> SUFFICES ASSUME IInv, call = "disconnect", todo = <<>>, kind # "single",
                      NEW l \in DOMAIN loops, Live(l)
               PROVE  loops[l].kept
    BY DEF DisconnectStops
  <2> USE DEF IInv, HostInv
  <2>1. \A s \in Arms : rt[s] = None
    BY DEF Stage
  <2>2. l # None /\ loops[l].arm \in Arms
    <3>1. loops[l] \in Loop /\ l \in 1..Len(loops)
      BY DEF ArmsTyped
    <3> QED BY <3>1 DEF Loop, None
  <2> QED BY <2>1, <2>2 DEF ThreadsAreOwned
<1> QED BY <1>1, Invariant, PTL

(* The pool puts two reads on one leader arm's port only after a get_action()
   that raised and left one behind.                                         *)
THEOREM OneReadAtATime == Spec => []OneReadPerPort
<1>1. IInv => OneReadPerPort
  <2> SUFFICES ASSUME IInv, ~missed, NEW s \in Arms
               PROVE  Cardinality({j \in Busy : j[1] = s}) <= 1
    BY DEF OneReadPerPort
  <2> DEFINE mine == {j \in Busy : j[1] = s}
  <2>1. mine \subseteq {<<s, reads>>}
    <3> SUFFICES ASSUME NEW j \in mine PROVE j = <<s, reads>>
      OBVIOUS
    <3>1. j \in Jobs /\ jobs[j] = "running" /\ j[1] = s
      BY DEF Busy
    <3>2. j[2] = reads
      BY <3>1 DEF IInv, LeaderInv, Jobbed
    <3>3. j = <<j[1], j[2]>>
      BY <3>1, JobPlaces
    <3> QED BY <3>1, <3>2, <3>3
  <2> HIDE DEF mine
  <2>2. IsFiniteSet({<<s, reads>>}) /\ Cardinality({<<s, reads>>}) = 1
    BY FS_Singleton
  <2>3. Cardinality(mine) <= 1
    BY <2>1, <2>2, FS_Subset
  <2> QED BY <2>3 DEF mine
<1> QED BY <1>1, Invariant, PTL

(* A disconnect() that joins a thread finds the loop's release flag as the last
   toggle, by its answer, or the config said, and so no motor loses its power
   without that word: for every interleaving of toggles, rollbacks, reconnects
   and old extensions.  (That the frames it then sends arrive is not said: the
   adapter may refuse them.)                                                *)
PromiseStep ==
    At("stop") /\ todo' # todo /\ Running(Here) /\ loops'[rt[Here]].thread = "gone"
    => /\ loops[rt[Here]].release = promise[Here]
       /\ power'[Here] # power[Here] => promise[Here]

(* PromiseStep is a step of the specification.  Only StopJoins ends a thread
   there, and at "stop" no toggle is under way.                             *)
THEOREM PromiseIsKept == Spec => PromiseKept
<1>1. IInv /\ [Next]_vars => [PromiseStep]_hostVars
  <2> SUFFICES ASSUME IInv, [Next]_vars, At("stop"), todo' # todo, Running(Here),
                      loops'[rt[Here]].thread = "gone"
               PROVE  /\ loops[rt[Here]].release = promise[Here]
                      /\ power'[Here] # power[Here] => promise[Here]
    BY DEF PromiseStep
  <2> USE DEF IInv, HostInv
  <2>1. todo # <<>> /\ Op = "stop"
    BY DEF At, Op
  <2>2. Here \in Arms /\ call \in {"connect", "disconnect"}
    BY <2>1, StepKnown
  <2>3. rt[Here] # None
    BY DEF Running
  <2>4. rt[Here] \in 1..Len(loops) /\ loops \in Seq(Loop)
    BY <2>2, <2>3, WrapperHere
  <2>5. loops[rt[Here]].release = promise[Here]
    BY <2>2, <2>3 DEF Settings, Toggling
  <2>6. StopJoins \/ StopAbandons \/ StopNobodyThere
    <3>1. ~Interrupt
      BY <2>2 DEF Interrupt, CallsInPlace
    <3>2. ~Follower
      BY <2>1, <2>2 DEF Follower, Calls, Ends, Begin, Return
    <3>3. todo' = todo \/ HostStep
      BY <3>1, <3>2 DEF Next, TeleopStep, vars, hostVars, session, LeaderConnect, Submit, AwaitLeft,
         AwaitRight, ReadRaises, WorkerStart, WorkerEnd, LeaderDisconnect
    <3>4. CallStep
      BY <2>1, <2>2, <3>3 DEF HostStep, SessionCall, Begin, Return, Publish, PubCheck, PubPick,
         PubRead, Wedge, CameraDies, session
    <3>5. At("stop") /\ \A op \in Ops : At(op) => op = "stop"
      BY DEF At
    <3> QED
      BY <2>1, <3>4 DEF CallStep, At, Op, Guard, New, Start, Up, CamerasUp, Check, Drop, Clear,
         CamerasOff, Take, Send, Rollback
  <2>7. ~StopNobodyThere
    BY DEF StopNobodyThere
  <2>8. CASE StopAbandons
    <3>1. KeptIn(loops', loops, rt[Here])
      BY <2>8 DEF StopAbandons, KeptIn
    <3>2. loops'[rt[Here]].thread = loops[rt[Here]].thread
      BY <2>4, <3>1, SetKept
    <3>3. loops[rt[Here]].thread = "live"
      BY <2>3 DEF Running, Live
    <3> QED BY <3>2, <3>3
  <2>9. CASE StopJoins
    BY <2>5, <2>9 DEF StopJoins, Powers
  <2> QED BY <2>6, <2>7, <2>8, <2>9
<1> QED BY <1>1, Invariant, PTL DEF Spec, PromiseKept, PromiseStep

(* get_proprioception() makes up zeros only for a loop whose thread has ended or
   was given up, although it reads _rt_robot and _loop without a lock.      *)
ZerosStep ==
    shown' = "zeros" /\ shown # "zeros" => ~Live(pub.holds) \/ loops[pub.holds].kept

(* Only PubRead shows zeros, of a loop that is not wrapped: Picked says the rest. *)
THEOREM ZerosStopped == Spec => ZerosMeanStopped
<1>1. IInv /\ [Next]_vars => [ZerosStep]_hostVars
  <2> SUFFICES ASSUME IInv, [Next]_vars, shown' = "zeros", shown # "zeros"
               PROVE  GivenUp(pub.holds)
    BY DEF ZerosStep, GivenUp
  <2>1. HostStep
    BY DEF Next, TeleopStep, vars, hostVars, readers, LeaderConnect, Follower, Calls, Ends, Return,
       Submit, AwaitLeft, AwaitRight, ReadRaises, WorkerStart, WorkerEnd, Interrupt, LeaderDisconnect
  <2>2. ~CallStep
    BY DEF CallStep, Guard, New, Start, Up, CamerasUp, Check, StopNobodyThere, StopJoins,
       StopAbandons, Drop, Clear, CamerasOff, Take, Send, Rollback, Quiet, readers
  <2>3. PubRead
    BY <2>1, <2>2 DEF HostStep, SessionCall, Return, Wedge, CameraDies, Publish, PubCheck, PubPick,
       readers
  <2>4. pub.at = "picked" /\ ~loops[pub.holds].wrapped
    BY <2>3 DEF PubRead
  <2> QED BY <2>4 DEF IInv, HostInv, Picked
<1> QED BY <1>1, Invariant, PTL DEF Spec, ZerosMeanStopped, ZerosStep
================================================================================
