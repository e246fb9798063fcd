---------------------------- MODULE FrontDoorProofs ----------------------------
(***************************************************************************)
(* Proofs about FrontDoor: every request of AllAsks, at any number of      *)
(* changes of the world.                                                   *)
(*                                                                         *)
(* A program is a concatenation, so what is said of all its stages is said *)
(* of its parts (Joined): whether all stages hold (Passing), all but those *)
(* that ask for --yes or --force (Excused), and which codes they refuse    *)
(* with (Cli, Http).  That makes each command's three programs a matter of *)
(* propositional logic: one lemma per command relates them.  FrontInv then *)
(* ties a run to its program: behind a run lie only stages that hold, and  *)
(* where it was refused is one that does not, as long as the world is the  *)
(* one the run began in.  A plan or an answer of the service stands at the *)
(* end of a program, so what printed one has passed, what was refused has  *)
(* not, and the relations between programs become relations between runs.  *)
(* Behind the programs are the operations of the key, by their ids: Stands *)
(* is what a run that found, verifies or executes one may rely on, and     *)
(* OthersRely is why no other run takes it away.                           *)
(***************************************************************************)
EXTENDS FrontDoor, SequenceTheorems, TLAPS

------------------------------------------------------------------------------
(* Programs. *)

\* What a stage can look up.
Lookups == {"open", "folder", "chat", "peer", "topic", "topic_id"}
Kinds == Lookups \cup {"args", "consent", "recorded", "retryable", "plan", "serve"}
AnyStage == [kind : Kinds, code : Nat]

\* p is a sequence of stages, and every stage of it is one of X.
IsProgram(p) == p \in Seq(AnyStage)
All(p, X) == \A j \in 1..Len(p) : p[j] \in X

\* What all stages of two programs are, all of their concatenation are.
LEMMA Joined ==
    ASSUME NEW p, NEW q, IsProgram(p), IsProgram(q)
    PROVE  /\ IsProgram(p \o q)
           /\ \A X : All(p \o q, X) <=> All(p, X) /\ All(q, X)
<1>1. /\ p \in Seq(AnyStage) /\ q \in Seq(AnyStage)
  BY DEF IsProgram
<1>2. /\ p \o q \in Seq(AnyStage)
      /\ Len(p \o q) = Len(p) + Len(q)
      /\ \A i \in 1..(Len(p) + Len(q)) :
            (p \o q)[i] = IF i <= Len(p) THEN p[i] ELSE q[i - Len(p)]
      /\ Len(p) \in Nat /\ Len(q) \in Nat
  BY <1>1, ConcatProperties, LenProperties
<1>4. IsProgram(p \o q)
  BY <1>2 DEF IsProgram
<1>5. ASSUME NEW X PROVE All(p \o q, X) <=> All(p, X) /\ All(q, X)
  <2>1. ASSUME All(p \o q, X) PROVE All(p, X)
    <3>1. ASSUME NEW j \in 1..Len(p) PROVE p[j] \in X
      <4>1. j \in 1..(Len(p) + Len(q)) /\ j <= Len(p)  BY <1>2
      <4>2. (p \o q)[j] = p[j]  BY <4>1, <1>2
      <4> QED  BY <4>1, <4>2, <2>1, <1>2 DEF All
    <3> QED  BY <3>1 DEF All
  <2>2. ASSUME All(p \o q, X) PROVE All(q, X)
    <3>1. ASSUME NEW j \in 1..Len(q) PROVE q[j] \in X
      <4>1. /\ Len(p) + j \in 1..(Len(p) + Len(q)) /\ ~(Len(p) + j <= Len(p))
            /\ (Len(p) + j) - Len(p) = j
        BY <1>2
      <4>2. (p \o q)[Len(p) + j] = q[j]  BY <4>1, <1>2
      <4> QED  BY <4>1, <4>2, <2>2, <1>2 DEF All
    <3> QED  BY <3>1 DEF All
  <2>3. ASSUME All(p, X), All(q, X), NEW i \in 1..(Len(p) + Len(q)) PROVE (p \o q)[i] \in X
    <3>1. CASE i <= Len(p)
      <4>1. i \in 1..Len(p)  BY <3>1, <1>2
      <4> QED  BY <4>1, <3>1, <2>3, <1>2 DEF All
    <3>2. CASE ~(i <= Len(p))
      <4>1. i - Len(p) \in 1..Len(q)  BY <3>2, <1>2
      <4> QED  BY <4>1, <3>2, <2>3, <1>2 DEF All
    <3> QED  BY <3>1, <3>2
  <2> QED  BY <2>1, <2>2, <2>3, <1>2 DEF All
<1> QED  BY <1>4, <1>5

LEMMA Single ==
    ASSUME NEW st \in AnyStage
    PROVE  /\ IsProgram(<<st>>)
           /\ \A X : All(<<st>>, X) <=> st \in X
<1>1. <<st>> \in Seq(AnyStage) /\ Len(<<st>>) = 1 /\ <<st>>[1] = st
  OBVIOUS
<1> QED  BY <1>1 DEF IsProgram, All

LEMMA NoStage ==
    /\ IsProgram(<<>>)
    /\ \A X : All(<<>>, X)
<1>1. <<>> \in Seq(AnyStage) /\ Len(<<>>) = 0
  BY EmptySeq
<1> QED  BY <1>1 DEF IsProgram, All

\* In the world as it is, every stage of p holds, or all but the missing consent.
Passing(p) == All(p, {st \in AnyStage : Holds(st)})
Excused(p) == All(p, {st \in AnyStage : Holds(st) \/ st.kind = "consent"})

\* The checks of a command, of the API: refusals with a code of the door, lookups.
Checks(codes, kinds) == [kind : {"args", "consent"}, code : codes] \cup [kind : kinds, code : {0}]
CliChecks == Checks({1, 2}, Lookups)
HttpChecks == Checks({400, 409, 422, 500}, Lookups)

Cli(p) == IsProgram(p) /\ All(p, CliChecks)
Http(p) == IsProgram(p) /\ All(p, HttpChecks)

\* A program is checks and then its last stage.
Ends(p, checks, last) ==
    \E b : IsProgram(b) /\ All(b, checks) /\ p = b \o Stage(last)

\* Each of these is said of a concatenation when it is said of its parts.
LEMMA Concats ==
    \A p, q :
        /\ IsProgram(p) /\ IsProgram(q) =>
              /\ IsProgram(p \o q)
              /\ Passing(p \o q) <=> Passing(p) /\ Passing(q)
              /\ Excused(p \o q) <=> Excused(p) /\ Excused(q)
        /\ Cli(p) /\ Cli(q) => Cli(p \o q)
        /\ Http(p) /\ Http(q) => Http(p \o q)
BY Joined DEF Passing, Excused, Cli, Http

LEMMA Empty == IsProgram(<<>>) /\ Passing(<<>>) /\ Excused(<<>>) /\ Cli(<<>>) /\ Http(<<>>)
BY NoStage DEF Passing, Excused, Cli, Http

\* A refusal that is left in a program stops it, whatever the world is.
LEMMA Refusing ==
    /\ \A code \in {1, 2} : Cli(Refusal("args", code)) /\ Cli(Refusal("consent", code))
    /\ \A code \in {400, 409, 422, 500} :
          Http(Refusal("args", code)) /\ Http(Refusal("consent", code))
    /\ \A code \in {1, 2, 400, 409, 422, 500} :
          /\ IsProgram(Refusal("args", code)) /\ IsProgram(Refusal("consent", code))
          /\ ~Passing(Refusal("args", code)) /\ ~Passing(Refusal("consent", code))
          /\ ~Excused(Refusal("args", code)) /\ Excused(Refusal("consent", code))
<1>1. SUFFICES ASSUME NEW kind \in {"args", "consent"}, NEW code \in Nat
               PROVE  /\ IsProgram(Refusal(kind, code)) /\ ~Passing(Refusal(kind, code))
                      /\ Excused(Refusal(kind, code)) <=> kind = "consent"
                      /\ code \in {1, 2} => Cli(Refusal(kind, code))
                      /\ code \in {400, 409, 422, 500} => Http(Refusal(kind, code))
  OBVIOUS
<1> DEFINE st == [kind |-> kind, code |-> code]
<1>2. st \in AnyStage
  BY DEF AnyStage, Kinds
<1>3. ~Holds(st)
  BY DEF Holds
<1>4. /\ code \in {1, 2} => st \in CliChecks
      /\ code \in {400, 409, 422, 500} => st \in HttpChecks
  BY DEF Checks, CliChecks, HttpChecks
<1>5. IsProgram(<<st>>) /\ \A X : All(<<st>>, X) <=> st \in X
  BY <1>2, Single
<1>6. ~Passing(<<st>>)
  BY <1>3, <1>5 DEF Passing
<1>7. Excused(<<st>>) <=> kind = "consent"
  BY <1>2, <1>3, <1>5 DEF Excused
<1>8. /\ code \in {1, 2} => Cli(<<st>>)
      /\ code \in {400, 409, 422, 500} => Http(<<st>>)
  BY <1>4, <1>5 DEF Cli, Http
<1> QED  BY <1>5, <1>6, <1>7, <1>8 DEF Refusal

\* A stage that looks passes exactly when what it looks at holds.
LEMMA Looking ==
    ASSUME NEW kind \in Kinds \ {"consent"}
    PROVE  /\ IsProgram(Stage(kind))
           /\ Passing(Stage(kind)) <=> Holds([kind |-> kind, code |-> 0])
           /\ Excused(Stage(kind)) <=> Holds([kind |-> kind, code |-> 0])
           /\ kind \in Lookups => Cli(Stage(kind)) /\ Http(Stage(kind))
<1> DEFINE st == [kind |-> kind, code |-> 0]
<1>1. st \in AnyStage
  BY DEF AnyStage, Kinds
<1>2. IsProgram(<<st>>) /\ \A X : All(<<st>>, X) <=> st \in X
  BY <1>1, Single
<1>3. Passing(<<st>>) <=> Holds(st)
  BY <1>1, <1>2 DEF Passing
<1>4. Excused(<<st>>) <=> Holds(st)
  BY <1>1, <1>2 DEF Excused
<1>5. kind \in Lookups => st \in CliChecks /\ st \in HttpChecks
  BY DEF CliChecks, HttpChecks, Checks
<1>6. kind \in Lookups => Cli(<<st>>) /\ Http(<<st>>)
  BY <1>2, <1>5 DEF Cli, Http
<1> QED  BY <1>2, <1>3, <1>4, <1>6 DEF Stage

\* What the world says to a lookup.
LEMMA Stages ==
    /\ \A p \in {Open, Folder, Chat, Peer, TopicByName, TopicById} : Cli(p) /\ Http(p)
    /\ \A p \in {Open, Folder, Chat, Peer, TopicByName, TopicById, Plan, Serve} : IsProgram(p)
    /\ \A p \in {Open, Plan, Serve} : Passing(p) /\ Excused(p)
    /\ Passing(Folder) <=> world.folder
    /\ Passing(Chat) <=> world.folder /\ world.chat = "one"
    /\ Passing(Peer) <=> world.chat # "none"
    /\ Passing(TopicByName) <=> world.topic = "one"
    /\ Passing(TopicById) <=> world.topic # "none"
    /\ \A p \in {Folder, Chat, Peer, TopicByName, TopicById} : Excused(p) <=> Passing(p)
<1> USE DEF Open, Folder, Chat, Peer, TopicByName, TopicById, Plan, Serve
<1>1. \A p \in {Open, Folder, Chat, Peer, TopicByName, TopicById} : Cli(p) /\ Http(p)
  BY Looking DEF Kinds, Lookups
<1>2. \A p \in {Open, Folder, Chat, Peer, TopicByName, TopicById, Plan, Serve} : IsProgram(p)
  BY Looking DEF Kinds, Lookups
<1>3. \A p \in {Open, Plan, Serve} : Passing(p) /\ Excused(p)
  <2>1. \A kind \in {"open", "plan", "serve"} : Holds([kind |-> kind, code |-> 0])
    BY DEF Holds
  <2> QED  BY <2>1, Looking DEF Kinds, Lookups
<1>4. Passing(Folder) <=> world.folder
  BY Looking DEF Kinds, Lookups, Holds
<1>5. Passing(Chat) <=> world.folder /\ world.chat = "one"
  BY Looking DEF Kinds, Lookups, Holds
<1>6. /\ Passing(Peer) <=> world.chat # "none"
      /\ Passing(TopicByName) <=> world.topic = "one"
      /\ Passing(TopicById) <=> world.topic # "none"
  BY Looking DEF Kinds, Lookups, Holds
<1>7. \A p \in {Folder, Chat, Peer, TopicByName, TopicById} : Excused(p) <=> Passing(p)
  BY Looking DEF Kinds, Lookups
<1> QED  BY <1>1, <1>2, <1>3, <1>4, <1>5, <1>6, <1>7

\* Checks and one last stage.
LEMMA Endings ==
    \A b, last :
        /\ Cli(b) => Ends(b \o Stage(last), CliChecks, last)
        /\ Http(b) => Ends(b \o Stage(last), HttpChecks, last)
BY DEF Cli, Http, Ends

------------------------------------------------------------------------------
(* The programs of each command: they end in a plan or in the service, the   *)
(* rehearsal's checks imply the real run's, and the two doors' are the same. *)

LEMMA GroupsCreatePrograms ==
    ASSUME NEW a \in GroupCreateAsks
    PROVE  /\ Ends(GroupsCreateDry(a), CliChecks, "plan")
           /\ Ends(GroupsCreateLive(a), CliChecks, "serve")
           /\ Ends(GroupsCreateHttp(a), HttpChecks, "serve")
           /\ Passing(GroupsCreateDry(a)) /\ ~NoKey(a) => Excused(GroupsCreateLive(a))
           /\ Passing(GroupsCreateLive(a)) <=> Passing(GroupsCreateHttp(a))
<1>1. Ends(GroupsCreateDry(a), CliChecks, "plan")
  BY Refusing, Empty, Concats, Stages, Endings
     DEF GroupsCreateDry, GroupsCreateArgs, Need, If, Plan, GroupCreateAsks
<1>2. Ends(GroupsCreateLive(a), CliChecks, "serve")
  BY Refusing, Empty, Concats, Stages, Endings
     DEF GroupsCreateLive, GroupsCreateArgs, Need, If, Serve, GroupCreateAsks
<1>3. Ends(GroupsCreateHttp(a), HttpChecks, "serve")
  BY Refusing, Empty, Concats, Stages, Endings
     DEF GroupsCreateHttp, Need, If, Serve, GroupCreateAsks
<1>4. Passing(GroupsCreateDry(a)) /\ ~NoKey(a) => Excused(GroupsCreateLive(a))
  BY Refusing, Empty, Concats, Stages
     DEF GroupsCreateDry, GroupsCreateLive, GroupsCreateArgs, Need, If, NoKey, GroupCreateAsks
<1>5. Passing(GroupsCreateLive(a)) <=> Passing(GroupsCreateHttp(a))
  BY Refusing, Empty, Concats, Stages
     DEF GroupsCreateLive, GroupsCreateHttp, GroupsCreateArgs, Need, If, GroupCreateAsks
<1> QED  BY <1>1, <1>2, <1>3, <1>4, <1>5

LEMMA SetLayoutPrograms ==
    ASSUME NEW a \in LayoutAsks
    PROVE  /\ Ends(SetLayoutDry(a), CliChecks, "plan")
           /\ Ends(SetLayoutLive(a), CliChecks, "serve")
           /\ Ends(SetLayoutHttp(a), HttpChecks, "serve")
           /\ Passing(SetLayoutDry(a)) => Excused(SetLayoutLive(a))
           /\ Passing(SetLayoutLive(a)) <=> Passing(SetLayoutHttp(a))
<1>1. Ends(SetLayoutDry(a), CliChecks, "plan")
  BY Refusing, Empty, Concats, Stages, Endings DEF SetLayoutDry, Need, If, Plan, LayoutAsks
<1>2. Ends(SetLayoutLive(a), CliChecks, "serve")
  BY Refusing, Empty, Concats, Stages, Endings DEF SetLayoutLive, Need, If, Serve, LayoutAsks
<1>3. Ends(SetLayoutHttp(a), HttpChecks, "serve")
  BY Refusing, Empty, Concats, Stages, Endings DEF SetLayoutHttp, Need, If, Serve, LayoutAsks
<1>4. Passing(SetLayoutDry(a)) => Excused(SetLayoutLive(a))
  BY Refusing, Empty, Concats, Stages DEF SetLayoutDry, SetLayoutLive, Need, If, LayoutAsks
<1>5. Passing(SetLayoutLive(a)) <=> Passing(SetLayoutHttp(a))
  BY Refusing, Empty, Concats, Stages DEF SetLayoutLive, SetLayoutHttp, Need, If, LayoutAsks
<1> QED  BY <1>1, <1>2, <1>3, <1>4, <1>5

LEMMA TopicsCreatePrograms ==
    ASSUME NEW a \in TopicCreateAsks
    PROVE  /\ Ends(TopicsCreateDry(a), CliChecks, "plan")
           /\ Ends(TopicsCreateLive(a), CliChecks, "serve")
           /\ Ends(TopicsCreateHttp(a), HttpChecks, "serve")
           /\ Passing(TopicsCreateDry(a)) => Excused(TopicsCreateLive(a))
           /\ Passing(TopicsCreateLive(a)) <=> Passing(TopicsCreateHttp(a))
<1>1. Ends(TopicsCreateDry(a), CliChecks, "plan")
  BY Refusing, Empty, Concats, Stages, Endings
     DEF TopicsCreateDry, TopicsCreateArgs, Need, If, Plan, TopicCreateAsks
<1>2. Ends(TopicsCreateLive(a), CliChecks, "serve")
  BY Refusing, Empty, Concats, Stages, Endings
     DEF TopicsCreateLive, TopicsCreateArgs, Need, If, Serve, TopicCreateAsks
<1>3. Ends(TopicsCreateHttp(a), HttpChecks, "serve")
  BY Refusing, Empty, Concats, Stages, Endings
     DEF TopicsCreateHttp, Need, If, Serve, TopicCreateAsks
<1>4. Passing(TopicsCreateDry(a)) => Excused(TopicsCreateLive(a))
  BY Refusing, Empty, Concats, Stages
     DEF TopicsCreateDry, TopicsCreateLive, TopicsCreateArgs, Need, If, TopicCreateAsks
<1>5. Passing(TopicsCreateLive(a)) <=> Passing(TopicsCreateHttp(a))
  BY Refusing, Empty, Concats, Stages
     DEF TopicsCreateLive, TopicsCreateHttp, TopicsCreateArgs, Need, If, TopicCreateAsks
<1> QED  BY <1>1, <1>2, <1>3, <1>4, <1>5

LEMMA BulkCreatePrograms ==
    ASSUME NEW a \in BulkTopicAsks
    PROVE  /\ Ends(BulkCreateDry(a), CliChecks, "plan")
           /\ Ends(BulkCreateLive(a), CliChecks, "serve")
           /\ Ends(BulkCreateHttp(a), HttpChecks, "serve")
           /\ Passing(BulkCreateDry(a)) => Excused(BulkCreateLive(a))
           /\ ~CliOnly(a) => (Passing(BulkCreateLive(a)) <=> Passing(BulkCreateHttp(a)))
<1>1. Ends(BulkCreateDry(a), CliChecks, "plan")
  BY Refusing, Empty, Concats, Stages, Endings
     DEF BulkCreateDry, BulkCreateArgs, Need, If, Plan, BulkTopicAsks
<1>2. Ends(BulkCreateLive(a), CliChecks, "serve")
  BY Refusing, Empty, Concats, Stages, Endings
     DEF BulkCreateLive, BulkCreateArgs, Need, If, Serve, BulkTopicAsks
<1>3. Ends(BulkCreateHttp(a), HttpChecks, "serve")
  BY Refusing, Empty, Concats, Stages, Endings DEF BulkCreateHttp, Need, If, Serve, BulkTopicAsks
<1>4. Passing(BulkCreateDry(a)) => Excused(BulkCreateLive(a))
  BY Refusing, Empty, Concats, Stages
     DEF BulkCreateDry, BulkCreateLive, BulkCreateArgs, Need, If, BulkTopicAsks
<1>5. ~CliOnly(a) => (Passing(BulkCreateLive(a)) <=> Passing(BulkCreateHttp(a)))
  BY Refusing, Empty, Concats, Stages
     DEF BulkCreateLive, BulkCreateHttp, BulkCreateArgs, Need, If, CliOnly, IsMass, BulkTopicAsks
<1> QED  BY <1>1, <1>2, <1>3, <1>4, <1>5

LEMMA TopicsClosePrograms ==
    ASSUME NEW a \in TopicCloseAsks
    PROVE  /\ Ends(TopicsCloseDry(a), CliChecks, "plan")
           /\ Ends(TopicsCloseLive(a), CliChecks, "serve")
           /\ Ends(TopicsCloseHttp(a), HttpChecks, "serve")
           /\ Passing(TopicsCloseDry(a)) => Excused(TopicsCloseLive(a))
           /\ a.topic = "id" => (Passing(TopicsCloseLive(a)) <=> Passing(TopicsCloseHttp(a)))
<1>1. Ends(TopicsCloseDry(a), CliChecks, "plan")
  BY Refusing, Empty, Concats, Stages, Endings
     DEF TopicsCloseDry, TopicsCloseArgs, Need, If, Plan, TopicCloseAsks
<1>2. Ends(TopicsCloseLive(a), CliChecks, "serve")
  BY Refusing, Empty, Concats, Stages, Endings
     DEF TopicsCloseLive, TopicsCloseArgs, Need, If, Serve, TopicCloseAsks
<1>3. Ends(TopicsCloseHttp(a), HttpChecks, "serve")
  BY Refusing, Empty, Concats, Stages, Endings
     DEF TopicsCloseHttp, Need, If, Serve, TopicCloseAsks
<1>4. Passing(TopicsCloseDry(a)) => Excused(TopicsCloseLive(a))
  BY Refusing, Empty, Concats, Stages
     DEF TopicsCloseDry, TopicsCloseLive, TopicsCloseArgs, Need, If, TopicCloseAsks
<1>5. a.topic = "id" => (Passing(TopicsCloseLive(a)) <=> Passing(TopicsCloseHttp(a)))
  BY Refusing, Empty, Concats, Stages
     DEF TopicsCloseLive, TopicsCloseHttp, TopicsCloseArgs, Need, If, TopicCloseAsks
<1> QED  BY <1>1, <1>2, <1>3, <1>4, <1>5

LEMMA BulkAddPrograms ==
    ASSUME NEW a \in BulkAddAsks
    PROVE  /\ Ends(BulkAddDry(a), CliChecks, "plan")
           /\ Ends(BulkAddLive(a), CliChecks, "serve")
           /\ Ends(BulkAddHttp(a), HttpChecks, "serve")
           /\ Passing(BulkAddDry(a)) => Excused(BulkAddLive(a))
           /\ a.target = "id" => (Passing(BulkAddLive(a)) <=> Passing(BulkAddHttp(a)))
<1>1. Ends(BulkAddDry(a), CliChecks, "plan")
  BY Refusing, Empty, Concats, Stages, Endings
     DEF BulkAddDry, BulkAddArgs, Need, If, Plan, BulkAddAsks
<1>2. Ends(BulkAddLive(a), CliChecks, "serve")
  BY Refusing, Empty, Concats, Stages, Endings
     DEF BulkAddLive, BulkAddArgs, Need, If, Serve, BulkAddAsks
<1>3. Ends(BulkAddHttp(a), HttpChecks, "serve")
  BY Refusing, Empty, Concats, Stages, Endings DEF BulkAddHttp, Need, If, Serve, BulkAddAsks
<1>4. Passing(BulkAddDry(a)) => Excused(BulkAddLive(a))
  BY Refusing, Empty, Concats, Stages
     DEF BulkAddDry, BulkAddLive, BulkAddArgs, Need, If, BulkAddAsks
<1>5. a.target = "id" => (Passing(BulkAddLive(a)) <=> Passing(BulkAddHttp(a)))
  BY Refusing, Empty, Concats, Stages
     DEF BulkAddLive, BulkAddHttp, BulkAddArgs, Need, If, BulkAddAsks
<1> QED  BY <1>1, <1>2, <1>3, <1>4, <1>5

LEMMA BulkRemovePrograms ==
    ASSUME NEW a \in BulkRemoveAsks
    PROVE  /\ Ends(BulkRemoveDry(a), CliChecks, "plan")
           /\ Ends(BulkRemoveLive(a), CliChecks, "serve")
           /\ Ends(BulkRemoveHttp(a), HttpChecks, "serve")
           /\ Passing(BulkRemoveDry(a)) => Excused(BulkRemoveLive(a))
           /\ a.target = "id" /\ a.yes => (Passing(BulkRemoveLive(a)) <=> Passing(BulkRemoveHttp(a)))
<1>1. Ends(BulkRemoveDry(a), CliChecks, "plan")
  BY Refusing, Empty, Concats, Stages, Endings
     DEF BulkRemoveDry, BulkRemoveArgs, Need, Consent, If, Plan, BulkRemoveAsks
<1>2. Ends(BulkRemoveLive(a), CliChecks, "serve")
  BY Refusing, Empty, Concats, Stages, Endings
     DEF BulkRemoveLive, BulkRemoveArgs, Need, Consent, If, Serve, BulkRemoveAsks
<1>3. Ends(BulkRemoveHttp(a), HttpChecks, "serve")
  BY Refusing, Empty, Concats, Stages, Endings
     DEF BulkRemoveHttp, Need, Consent, If, Serve, BulkRemoveAsks
<1>4. Passing(BulkRemoveDry(a)) => Excused(BulkRemoveLive(a))
  BY Refusing, Empty, Concats, Stages
     DEF BulkRemoveDry, BulkRemoveLive, BulkRemoveArgs, Need, Consent, If, BulkRemoveAsks
<1>5. a.target = "id" /\ a.yes => (Passing(BulkRemoveLive(a)) <=> Passing(BulkRemoveHttp(a)))
  BY Refusing, Empty, Concats, Stages
     DEF BulkRemoveLive, BulkRemoveHttp, BulkRemoveArgs, Need, Consent, If, BulkRemoveAsks
<1> QED  BY <1>1, <1>2, <1>3, <1>4, <1>5

LEMMA SendPrograms ==
    ASSUME NEW a \in SendAsks
    PROVE  /\ Ends(SendDry(a), CliChecks, "plan")
           /\ Ends(SendLive(a), CliChecks, "serve")
           /\ Ends(SendHttp(a), HttpChecks, "serve")
           /\ Passing(SendDry(a)) => Excused(SendLive(a))
           /\ (a.mass => a.target = "neither") /\ ~CliOnly(a) =>
                 (Passing(SendLive(a)) <=> Passing(SendHttp(a)))
<1>1. Ends(SendDry(a), CliChecks, "plan")
  BY Refusing, Empty, Concats, Stages, Endings
     DEF SendDry, SendArgs, SendLookups, IsMass, HasTopicName, Need, If, Plan, SendAsks
<1>2. Ends(SendLive(a), CliChecks, "serve")
  BY Refusing, Empty, Concats, Stages, Endings
     DEF SendLive, SendArgs, SendLookups, IsMass, HasTopicName, Need, If, Serve, SendAsks
<1>3. Ends(SendHttp(a), HttpChecks, "serve")
  BY Refusing, Empty, Concats, Stages, Endings DEF SendHttp, IsMass, Need, If, Serve, SendAsks
<1>4. Passing(SendDry(a)) => Excused(SendLive(a))
  BY Refusing, Empty, Concats, Stages
     DEF SendDry, SendLive, SendArgs, SendLookups, IsMass, HasTopicName, Need, If, SendAsks
<1>5. (a.mass => a.target = "neither") /\ ~CliOnly(a) =>
          (Passing(SendLive(a)) <=> Passing(SendHttp(a)))
  BY Refusing, Empty, Concats, Stages
     DEF SendLive, SendHttp, SendArgs, SendLookups, IsMass, HasTopicName, Need, If, CliOnly,
         SendAsks
<1> QED  BY <1>1, <1>2, <1>3, <1>4, <1>5

LEMMA AddChatPrograms ==
    ASSUME NEW a \in AddChatAsks
    PROVE  /\ Ends(AddChatDry(a), CliChecks, "plan")
           /\ Ends(AddChatLive(a), CliChecks, "serve")
           /\ Ends(AddChatHttp(a), HttpChecks, "serve")
           /\ Passing(AddChatDry(a)) => Excused(AddChatLive(a))
           /\ Passing(AddChatLive(a)) <=> Passing(AddChatHttp(a))
<1>1. Ends(AddChatDry(a), CliChecks, "plan")
  BY Refusing, Empty, Concats, Stages, Endings
     DEF AddChatDry, AddChatArgs, Need, If, Plan, AddChatAsks
<1>2. Ends(AddChatLive(a), CliChecks, "serve")
  BY Refusing, Empty, Concats, Stages, Endings
     DEF AddChatLive, AddChatArgs, Need, If, Serve, AddChatAsks
<1>3. Ends(AddChatHttp(a), HttpChecks, "serve")
  BY Refusing, Empty, Concats, Stages, Endings DEF AddChatHttp, Need, If, Serve, AddChatAsks
<1>4. Passing(AddChatDry(a)) => Excused(AddChatLive(a))
  BY Refusing, Empty, Concats, Stages
     DEF AddChatDry, AddChatLive, AddChatArgs, Need, If, AddChatAsks
<1>5. Passing(AddChatLive(a)) <=> Passing(AddChatHttp(a))
  BY Refusing, Empty, Concats, Stages
     DEF AddChatLive, AddChatHttp, AddChatArgs, Need, If, AddChatAsks
<1> QED  BY <1>1, <1>2, <1>3, <1>4, <1>5

LEMMA GetLayoutPrograms ==
    ASSUME NEW a \in PlainAsks
    PROVE  /\ Ends(GetLayoutLive(a), CliChecks, "serve")
           /\ Ends(GetLayoutHttp(a), HttpChecks, "serve")
           /\ Passing(GetLayoutLive(a)) <=> Passing(GetLayoutHttp(a))
<1>1. Ends(GetLayoutLive(a), CliChecks, "serve")
  BY Refusing, Empty, Concats, Stages, Endings DEF GetLayoutLive, Serve, PlainAsks
<1>2. Ends(GetLayoutHttp(a), HttpChecks, "serve")
  BY Refusing, Empty, Concats, Stages, Endings DEF GetLayoutHttp, Serve, PlainAsks
<1>3. Passing(GetLayoutLive(a)) <=> Passing(GetLayoutHttp(a))
  BY Refusing, Empty, Concats, Stages DEF GetLayoutLive, GetLayoutHttp, PlainAsks
<1> QED  BY <1>1, <1>2, <1>3

LEMMA InspectPrograms ==
    ASSUME NEW a \in PlainAsks
    PROVE  /\ Ends(InspectLive(a), CliChecks, "serve")
           /\ Ends(InspectHttp(a), HttpChecks, "serve")
           /\ Passing(InspectLive(a)) <=> Passing(InspectHttp(a))
<1>1. Ends(InspectLive(a), CliChecks, "serve")
  BY Refusing, Empty, Concats, Stages, Endings DEF InspectLive, Serve, PlainAsks
<1>2. Ends(InspectHttp(a), HttpChecks, "serve")
  BY Refusing, Empty, Concats, Stages, Endings DEF InspectHttp, Serve, PlainAsks
<1>3. Passing(InspectLive(a)) <=> Passing(InspectHttp(a))
  BY Refusing, Empty, Concats, Stages DEF InspectLive, InspectHttp, PlainAsks
<1> QED  BY <1>1, <1>2, <1>3

------------------------------------------------------------------------------
(* Every program. *)

\* The operation commands look at the store instead.
LedgerLooks == {"recorded", "retryable"}
LedgerChecks == Checks({}, LedgerLooks)

Last(s) == IF s = "dry" THEN "plan" ELSE "serve"
DoorChecks(s) ==
    IF ask.command \in OperationCommands THEN LedgerChecks
    ELSE IF s = "http" THEN HttpChecks ELSE CliChecks

LEMMA LedgerPrograms ==
    ASSUME NEW a
    PROVE  /\ Ends(StatusLive(a), LedgerChecks, "serve")
           /\ Ends(RetryDry(a), LedgerChecks, "plan")
           /\ Ends(RetryLive(a), LedgerChecks, "serve")
           /\ Passing(RetryDry(a)) => Excused(RetryLive(a))
<1>1. \A kind \in LedgerLooks : IsProgram(Stage(kind)) /\ (Passing(Stage(kind)) <=> Excused(Stage(kind)))
  BY Looking DEF Kinds, LedgerLooks
<1>2. \A kind \in LedgerLooks : All(Stage(kind), LedgerChecks)
  <2>1. SUFFICES ASSUME NEW kind \in LedgerLooks PROVE All(Stage(kind), LedgerChecks)
    OBVIOUS
  <2>2. [kind |-> kind, code |-> 0] \in AnyStage
    BY DEF AnyStage, Kinds, LedgerLooks
  <2>3. [kind |-> kind, code |-> 0] \in LedgerChecks
    BY DEF LedgerChecks, Checks
  <2> QED  BY <2>2, <2>3, Single DEF Stage
<1>3. \A kind \in LedgerLooks : \A last : Ends(Stage(kind) \o Stage(last), LedgerChecks, last)
  BY <1>1, <1>2 DEF Ends
<1>4. /\ Ends(StatusLive(a), LedgerChecks, "serve")
      /\ Ends(RetryDry(a), LedgerChecks, "plan")
      /\ Ends(RetryLive(a), LedgerChecks, "serve")
  BY <1>3 DEF LedgerLooks, StatusLive, RetryDry, RetryLive, Recorded, Retryable, Plan, Serve
<1>5. Passing(RetryDry(a)) => Excused(RetryLive(a))
  BY <1>1, Concats, Stages DEF LedgerLooks, RetryDry, RetryLive, Retryable
<1> QED  BY <1>4, <1>5

\* Any program that a door offers.
LEMMA EveryProgram ==
    ASSUME ask \in AllAsks, NEW s \in Surfaces, Offered(s)
    PROVE  Ends(Program(s), DoorChecks(s), Last(s))
<1> USE DEF Program, DryProgram, LiveProgram, HttpProgram, DoorChecks, Last, Surfaces,
            Offered, PlainCommands, OperationCommands
<1>1. CASE ask \in GroupCreateAsks
  BY <1>1, GroupsCreatePrograms DEF GroupCreateAsks
<1>2. CASE ask \in LayoutAsks
  BY <1>2, SetLayoutPrograms DEF LayoutAsks
<1>3. CASE ask \in TopicCreateAsks
  BY <1>3, TopicsCreatePrograms DEF TopicCreateAsks
<1>4. CASE ask \in BulkTopicAsks
  BY <1>4, BulkCreatePrograms DEF BulkTopicAsks
<1>5. CASE ask \in TopicCloseAsks
  BY <1>5, TopicsClosePrograms DEF TopicCloseAsks
<1>6. CASE ask \in BulkAddAsks
  BY <1>6, BulkAddPrograms DEF BulkAddAsks
<1>7. CASE ask \in BulkRemoveAsks
  BY <1>7, BulkRemovePrograms DEF BulkRemoveAsks
<1>8. CASE ask \in SendAsks
  BY <1>8, SendPrograms DEF SendAsks
<1>9. CASE ask \in AddChatAsks
  BY <1>9, AddChatPrograms DEF AddChatAsks
<1>10. CASE ask \in PlainAsks
  BY <1>10, GetLayoutPrograms, InspectPrograms, LedgerPrograms DEF PlainAsks
<1> QED  BY <1>1, <1>2, <1>3, <1>4, <1>5, <1>6, <1>7, <1>8, <1>9, <1>10 DEF AllAsks

\* The rehearsal of any request that has one.
LEMMA EveryRehearsal ==
    ASSUME ask \in AllAsks, Offered("dry"), ~NoKey(ask), Passing(Program("dry"))
    PROVE  Excused(Program("live"))
<1> USE DEF Program, DryProgram, LiveProgram, Offered, PlainCommands, OperationCommands
<1>1. CASE ask \in GroupCreateAsks
  BY <1>1, GroupsCreatePrograms DEF GroupCreateAsks
<1>2. CASE ask \in LayoutAsks
  BY <1>2, SetLayoutPrograms DEF LayoutAsks
<1>3. CASE ask \in TopicCreateAsks
  BY <1>3, TopicsCreatePrograms DEF TopicCreateAsks
<1>4. CASE ask \in BulkTopicAsks
  BY <1>4, BulkCreatePrograms DEF BulkTopicAsks
<1>5. CASE ask \in TopicCloseAsks
  BY <1>5, TopicsClosePrograms DEF TopicCloseAsks
<1>6. CASE ask \in BulkAddAsks
  BY <1>6, BulkAddPrograms DEF BulkAddAsks
<1>7. CASE ask \in BulkRemoveAsks
  BY <1>7, BulkRemovePrograms DEF BulkRemoveAsks
<1>8. CASE ask \in SendAsks
  BY <1>8, SendPrograms DEF SendAsks
<1>9. CASE ask \in AddChatAsks
  BY <1>9, AddChatPrograms DEF AddChatAsks
<1>10. CASE ask \in PlainAsks
  BY <1>10, LedgerPrograms DEF PlainAsks
<1> QED  BY <1>1, <1>2, <1>3, <1>4, <1>5, <1>6, <1>7, <1>8, <1>9, <1>10 DEF AllAsks

\* Both doors, for any request that means the same to them.
LEMMA BothDoors ==
    ASSUME ask \in AllAsks, Offered("http"), ~CliOnly(ask),
           ask.command = "members.bulk-remove" => ask.yes
    PROVE  Passing(Program("live")) <=> Passing(Program("http"))
<1> USE DEF Program, LiveProgram, HttpProgram, Offered, PlainCommands, OperationCommands
<1>1. CASE ask \in GroupCreateAsks
  BY <1>1, GroupsCreatePrograms DEF GroupCreateAsks
<1>2. CASE ask \in LayoutAsks
  BY <1>2, SetLayoutPrograms DEF LayoutAsks
<1>3. CASE ask \in TopicCreateAsks
  BY <1>3, TopicsCreatePrograms DEF TopicCreateAsks
<1>4. CASE ask \in BulkTopicAsks
  BY <1>4, BulkCreatePrograms DEF BulkTopicAsks
<1>5. CASE ask \in TopicCloseAsks
  BY <1>5, TopicsClosePrograms DEF TopicCloseAsks
<1>6. CASE ask \in BulkAddAsks
  BY <1>6, BulkAddPrograms DEF BulkAddAsks
<1>7. CASE ask \in BulkRemoveAsks
  BY <1>7, BulkRemovePrograms DEF BulkRemoveAsks
<1>8. CASE ask \in SendAsks
  BY <1>8, SendPrograms DEF SendAsks
<1>9. CASE ask \in AddChatAsks
  BY <1>9, AddChatPrograms DEF AddChatAsks
<1>10. CASE ask \in PlainAsks
  BY <1>10, GetLayoutPrograms, InspectPrograms DEF PlainAsks
<1> QED  BY <1>1, <1>2, <1>3, <1>4, <1>5, <1>6, <1>7, <1>8, <1>9, <1>10 DEF AllAsks

\* The same, stage by stage.
LEMMA Places ==
    ASSUME NEW p, NEW checks, NEW last \in {"plan", "serve"}, Ends(p, checks, last)
    PROVE  /\ IsProgram(p) /\ Len(p) \in Nat \ {0}
           /\ p[Len(p)] = [kind |-> last, code |-> 0]
           /\ \A j \in 1..(Len(p) - 1) : p[j] \in checks
<1>1. PICK b : IsProgram(b) /\ All(b, checks) /\ p = b \o Stage(last)
  BY DEF Ends
<1> DEFINE st == [kind |-> last, code |-> 0]
<1>2. st \in AnyStage
  BY DEF AnyStage, Kinds
<1> HIDE DEF st
<1>3. /\ b \in Seq(AnyStage) /\ <<st>> \in Seq(AnyStage) /\ Len(<<st>>) = 1 /\ <<st>>[1] = st
  BY <1>1, <1>2 DEF IsProgram
<1>4. p = b \o <<st>>
  BY <1>1 DEF Stage, st
<1>5. /\ p \in Seq(AnyStage) /\ Len(b) \in Nat /\ Len(p) = Len(b) + 1
      /\ \A i \in 1..(Len(b) + 1) : p[i] = IF i <= Len(b) THEN b[i] ELSE <<st>>[i - Len(b)]
  BY <1>3, <1>4, ConcatProperties, LenProperties
<1>6. p[Len(p)] = st
  BY <1>3, <1>5
<1>7. \A j \in 1..(Len(p) - 1) : p[j] \in checks
  BY <1>1, <1>5 DEF All
<1> QED  BY <1>5, <1>6, <1>7 DEF IsProgram, st

------------------------------------------------------------------------------
(* The inductive invariant. *)

\* The states of a run whose service has the request.
Serving == {"verifying", "found", "gone", "reclaiming", "working"}

Runs ==
    [state : {"idle", "checking", "answered"} \cup Serving, at : Nat, since : Nat, op : Nat,
     code : Nat,
     why : {"none", "down", "args", "consent", "lookup", "planned", "replayed", "outcome", "done"}]

Worlds ==
    [telegram : BOOLEAN, cached : BOOLEAN, folder : BOOLEAN, chat : {"none", "one", "many"},
     topic : {"none", "one", "many"}, lost : SUBSET Nat]

Codes(s) == IF s = "http" THEN {200, 400, 404, 409, 422, 500, 502, 503} ELSE 0..2

HasOperation == IsSingle \/ IsBulk

\* The states of the slot that an answer of success may stand for.
Successes == {"completed"} \cup IF IsBulk THEN {"needs_review"} ELSE {}

\* Where a run is and how it answered there.
RunOK(s) ==
    /\ run[s].since <= changes
    /\ run[s].state # "idle" => Offered(s) /\ run[s].at \in 1..Len(Program(s))
    /\ run[s].state = "answered" <=> run[s].why # "none"
    /\ run[s].state = "answered" => run[s].code \in Codes(s)
    /\ run[s].state \in Serving \/ run[s].why \in {"replayed", "outcome", "done"} =>
          Here(s).kind = "serve"
    /\ run[s].why = "planned" => Here(s).kind = "plan"
    /\ run[s].why \in {"args", "lookup"} => Here(s).kind # "consent"

\* As long as the world is the one the run began in, the stages behind the run hold
\* and the one that refused it does not.
Current(s) ==
    run[s].state # "idle" /\ run[s].since = changes =>
        /\ \A j \in 1..(run[s].at - 1) : Holds(Program(s)[j])
        /\ run[s].why \in {"args", "consent", "lookup"} => ~Holds(Here(s))

\* The ids of operations: a chat can be lost once its operation is completed, which
\* it then stays until it is dropped.
StoreOK ==
    /\ begun \in Nat
    /\ world.lost \subseteq 1..begun /\ adopted \subseteq 1..begun
    /\ begun = 0 => Slot.status = "free"
    /\ begun \in world.lost => Slot.status \in {"free", "completed"}

\* What a run that executes an operation knows of its row: it is pending and no
\* other run executes it, unless it was adopted; a bulk may have been settled by
\* another run of the same list.
Executes(s) ==
    IF IsBulk
    THEN run[s].op = begun /\ Slot.status \in {"pending", "completed", "needs_review"}
    ELSE \/ run[s].op \in adopted
         \/ /\ run[s].op = begun /\ Slot.status = "pending"
            /\ \A t \in Surfaces \ {s} : run[t].state = "working" => run[t].op # run[s].op

\* An answer of success stands for the last operation, or for one that is excepted.
Backed(s) ==
    \/ run[s].op \in world.lost \cup adopted
    \/ run[s].op = begun /\ Slot.status \in Successes

\* What a run may rely on of the operation it found, checks or executes, and what
\* its answer stands for.
Stands(s) ==
    /\ run[s].op \in 0..begun
    /\ run[s].state \in {"verifying", "found", "gone", "reclaiming"} =>
          ask.command = "groups.create"
    /\ run[s].state \in {"verifying", "found"} =>
          run[s].op \in world.lost \/ (run[s].op = begun /\ Slot.status = "completed")
    /\ run[s].state = "gone" => run[s].op \in world.lost
    /\ run[s].state = "working" /\ HasOperation => Executes(s)
    /\ s # "dry" /\ run[s].state = "answered" /\ run[s].code = Ok(s) /\ HasOperation => Backed(s)

\* SurfacesAgree and DryRunForetells are not inductive: they speak of answers, and
\* say nothing of the checks a run on its way to one has behind it.  Nor is
\* OkMeansRecorded: it says nothing of a run that executes or verifies an operation
\* and has yet to answer.
FrontInv ==
    /\ ask \in AllAsks
    /\ world \in Worlds
    /\ changes \in 0..MaxChanges
    /\ ledger \in [{Key} -> Slots]
    /\ run \in [Surfaces -> Runs]
    /\ StoreOK
    /\ \A s \in Surfaces : RunOK(s) /\ Current(s) /\ Stands(s)

\* What the stage of a run can be.
LEMMA StageFacts ==
    ASSUME ask \in AllAsks, NEW s \in Surfaces, Offered(s), NEW j \in 1..Len(Program(s))
    PROVE  /\ IsProgram(Program(s)) /\ Len(Program(s)) \in Nat \ {0}
           /\ Program(s)[j].kind = "plan" => s = "dry" /\ j = Len(Program(s))
           /\ Program(s)[j].kind = "serve" => s # "dry" /\ j = Len(Program(s))
           /\ Program(s)[j].kind \notin {"plan", "serve"} => j + 1 \in 1..Len(Program(s))
           /\ Program(s)[j].kind \in {"args", "consent"} =>
                 Program(s)[j].code \in IF s = "http" THEN {400, 409, 422, 500} ELSE {1, 2}
           /\ Program(s)[j].kind \in LedgerLooks => ask.command \in OperationCommands
<1> DEFINE p == Program(s)
<1>1. Ends(p, DoorChecks(s), Last(s))
  BY EveryProgram
<1>2. /\ IsProgram(p) /\ Len(p) \in Nat \ {0}
      /\ p[Len(p)] = [kind |-> Last(s), code |-> 0]
      /\ \A i \in 1..(Len(p) - 1) : p[i] \in DoorChecks(s)
  BY <1>1, Places DEF Last
<1> HIDE DEF p
<1>3. CASE j = Len(p)
  BY <1>2, <1>3 DEF Last, LedgerLooks, p
<1>4. CASE j \in 1..(Len(p) - 1)
  <2>1. p[j] \in DoorChecks(s)
    BY <1>2, <1>4
  <2>2. \A st \in DoorChecks(s) :
           /\ st.kind \notin {"plan", "serve"}
           /\ st.kind \in {"args", "consent"} =>
                 st.code \in IF s = "http" THEN {400, 409, 422, 500} ELSE {1, 2}
           /\ st.kind \in LedgerLooks => ask.command \in OperationCommands
    BY DEF DoorChecks, LedgerChecks, HttpChecks, CliChecks, Checks, Lookups, LedgerLooks
  <2>3. j + 1 \in 1..Len(p)
    BY <1>2, <1>4
  <2> QED  BY <1>2, <2>1, <2>2, <2>3 DEF p
<1> QED  BY <1>2, <1>3, <1>4 DEF p

\* The programs depend on the request alone.
LEMMA AskStays ==
    ASSUME UNCHANGED ask
    PROVE  /\ \A t : Program(t)' = Program(t) /\ (Offered(t)' <=> Offered(t))
           /\ (IsSingle' <=> IsSingle) /\ (IsBulk' <=> IsBulk)
BY DEF Program, Offered, IsSingle, IsBulk

\* Nothing but Reopen touches the slot an operation command looks at.
LedgerMoves ==
    UNCHANGED ledger \/ ask.command \notin OperationCommands \/ Ledger!Reopen(Key)

\* What held of a stage still does: the world is the same, and Reopen leaves the
\* slot one that is recorded and can be retried.
LEMMA LooksStay ==
    ASSUME FrontInv, UNCHANGED <<ask, world>>, LedgerMoves, NEW t \in Surfaces, Offered(t)
    PROVE  \A j \in 1..Len(Program(t)) : Holds(Program(t)[j])' <=> Holds(Program(t)[j])
<1>1. SUFFICES ASSUME NEW j \in 1..Len(Program(t))
               PROVE  Holds(Program(t)[j])' <=> Holds(Program(t)[j])
  OBVIOUS
<1>2. Program(t)' = Program(t)
  BY AskStays
<1>3. Program(t)[j].kind \in LedgerLooks => ask.command \in OperationCommands
  BY StageFacts DEF FrontInv
<1>4. \A st : st.kind \notin LedgerLooks => (Holds(st)' <=> Holds(st))
  BY DEF Holds, LedgerLooks
<1>5. UNCHANGED ledger => \A st : Holds(st)' <=> Holds(st)
  BY DEF Holds, Slot
<1>6. ASSUME Ledger!Reopen(Key) PROVE \A st : Holds(st)' <=> Holds(st)
  <2>1. Slot.status \in {"failed", "needs_review"} /\ Slot' = Ledger!Claimed
    BY <1>6 DEF Ledger!Reopen, Slot, FrontInv
  <2>2. /\ Slot # Ledger!Free /\ Slot' # Ledger!Free
        /\ Slot.status \notin {"free", "completed"} /\ Slot'.status \notin {"free", "completed"}
    BY <2>1 DEF Ledger!Free, Ledger!Claimed
  <2> QED  BY <2>2 DEF Holds
<1> QED  BY <1>2, <1>3, <1>4, <1>5, <1>6 DEF LedgerMoves

\* A run that does not move stands where it stood.
LEMMA OthersStand ==
    ASSUME FrontInv, UNCHANGED <<ask, world, changes>>, LedgerMoves,
           NEW t \in Surfaces, run'[t] = run[t]
    PROVE  RunOK(t)' /\ Current(t)'
<1>1. /\ RunOK(t) /\ Current(t) /\ run[t] \in Runs
  BY DEF FrontInv
<1>2. Program(t)' = Program(t) /\ (Offered(t)' <=> Offered(t)) /\ Here(t)' = Here(t)
  BY AskStays DEF Here
<1>3. RunOK(t)'
  BY <1>1, <1>2 DEF RunOK, Codes
<1>4. ASSUME run[t].state # "idle", run[t].since = changes
      PROVE  /\ \A j \in 1..(run[t].at - 1) : Holds(Program(t)[j])'
             /\ run[t].why \in {"args", "consent", "lookup"} => ~Holds(Here(t))'
  <2>1. Offered(t) /\ run[t].at \in 1..Len(Program(t))
    BY <1>1, <1>4 DEF RunOK
  <2>2. \A j \in 1..Len(Program(t)) : Holds(Program(t)[j])' <=> Holds(Program(t)[j])
    BY <2>1, LooksStay
  <2>3. Len(Program(t)) \in Nat /\ \A j \in 1..(run[t].at - 1) : j \in 1..Len(Program(t))
    BY <2>1, StageFacts DEF FrontInv
  <2>4. \A j \in 1..(run[t].at - 1) : Holds(Program(t)[j])'
    BY <1>1, <1>4, <2>2, <2>3 DEF Current
  <2>5. run[t].why \in {"args", "consent", "lookup"} => ~Holds(Here(t))'
    BY <1>1, <1>4, <2>1, <2>2 DEF Current, Here
  <2> QED  BY <2>4, <2>5
<1> QED  BY <1>2, <1>3, <1>4 DEF Current

------------------------------------------------------------------------------
(* Steps of a run. *)

\* What a step of run s may do to the store.
ServiceMoves(s) ==
    \/ UNCHANGED <<ledger, begun, adopted>>
    \/ ask.command = "operations.retry" /\ Ledger!Reopen(Key) /\ UNCHANGED <<begun, adopted>>
    \/ HasOperation /\ Ledger!Claim(Key) /\ begun' = begun + 1 /\ UNCHANGED adopted
    \/ HasOperation /\ Slot # Ledger!Free /\ UNCHANGED <<ledger, begun>>
       /\ adopted' = adopted \cup {begun}
    \/ ask.command = "groups.create" /\ begun \in world.lost /\ Ledger!Drop(Key)
       /\ UNCHANGED <<begun, adopted>>
    \/ /\ run[s].state = "working" /\ HasOperation /\ run[s].op = begun
       /\ UNCHANGED <<begun, adopted>>
       /\ \E st \in Ledger!TerminalStatus : Ledger!Settle(Key, st) /\ (IsBulk => st # "failed")

\* The same, of the status of the slot.
StatusMoves(s) ==
    \/ Slot'.status = Slot.status /\ begun' = begun /\ adopted' = adopted
    \/ /\ ~HasOperation /\ Slot.status \in {"failed", "needs_review"} /\ Slot'.status = "pending"
       /\ begun' = begun /\ adopted' = adopted
    \/ /\ HasOperation /\ Slot.status = "free" /\ Slot'.status = "pending"
       /\ begun' = begun + 1 /\ adopted' = adopted
    \/ /\ HasOperation /\ Slot.status # "free" /\ Slot'.status = Slot.status
       /\ begun' = begun /\ adopted' = adopted \cup {begun}
    \/ /\ HasOperation /\ ~IsBulk /\ begun \in world.lost /\ Slot.status # "free"
       /\ Slot'.status = "free" /\ begun' = begun /\ adopted' = adopted
    \/ /\ HasOperation /\ run[s].state = "working" /\ run[s].op = begun
       /\ begun' = begun /\ adopted' = adopted
       /\ Slot'.status \in {"completed", "needs_review", "failed"}
       /\ Slot.status \in {"pending", Slot'.status}
       /\ IsBulk => Slot'.status # "failed"

Statuses == {"free", "pending", "completed", "needs_review", "failed"}

LEMMA SlotStatus ==
    ASSUME ledger \in [{Key} -> Slots]
    PROVE  Slot \in Slots /\ Slot.status \in Statuses /\ (Slot.status = "free" <=> Slot = Ledger!Free)
<1>1. Slot \in Slots
  BY DEF Slot
<1>2. \A x \in Slots : x.status \in Statuses /\ (x.status = "free" <=> x = Ledger!Free)
  BY DEF Slots, Ledger!Free, Ledger!Claimed, Ledger!Outcome, Ledger!TerminalStatus, Statuses
<1> QED  BY <1>1, <1>2

\* Which kinds of request have an operation.
LEMMA WhoHasOperations ==
    /\ HasOperation => ask.command # "operations.retry" /\ ask.command \notin OperationCommands
    /\ ask.command = "groups.create" => HasOperation /\ ~IsBulk
    /\ ask.command = "operations.retry" => ask.command \in OperationCommands
BY DEF HasOperation, IsSingle, IsBulk, Singles, Bulks, OperationCommands

LEMMA SlotMoves ==
    ASSUME FrontInv, UNCHANGED <<ask, world>>, NEW s \in Surfaces, ServiceMoves(s)
    PROVE  LedgerMoves /\ ledger' \in [{Key} -> Slots] /\ StatusMoves(s)
<1>1. /\ ledger \in [{Key} -> Slots] /\ Slot \in Slots /\ Slot.status \in Statuses
      /\ Slot.status = "free" <=> Slot = Ledger!Free
  BY SlotStatus DEF FrontInv
<1>2. CASE UNCHANGED <<ledger, begun, adopted>>
  BY <1>1, <1>2 DEF LedgerMoves, StatusMoves, Slot
<1>3. CASE ask.command = "operations.retry" /\ Ledger!Reopen(Key) /\ UNCHANGED <<begun, adopted>>
  <2>1. /\ Slot.status \in {"failed", "needs_review"}
        /\ ledger' = [ledger EXCEPT ![Key] = Ledger!Claimed]
    BY <1>3 DEF Ledger!Reopen, Slot
  <2>2. ledger' \in [{Key} -> Slots] /\ Slot' = Ledger!Claimed
    BY <1>1, <2>1 DEF Slot, Slots
  <2> QED  BY <1>3, <2>1, <2>2, WhoHasOperations DEF LedgerMoves, StatusMoves, Ledger!Claimed
<1>4. CASE HasOperation /\ Ledger!Claim(Key) /\ begun' = begun + 1 /\ UNCHANGED adopted
  <2>1. Slot = Ledger!Free /\ ledger' = [ledger EXCEPT ![Key] = Ledger!Claimed]
    BY <1>4 DEF Ledger!Claim, Slot
  <2>2. ledger' \in [{Key} -> Slots] /\ Slot' = Ledger!Claimed
    BY <1>1, <2>1 DEF Slot, Slots
  <2> QED  BY <1>1, <1>4, <2>1, <2>2, WhoHasOperations DEF LedgerMoves, StatusMoves, Ledger!Claimed
<1>5. CASE /\ HasOperation /\ Slot # Ledger!Free /\ UNCHANGED <<ledger, begun>>
           /\ adopted' = adopted \cup {begun}
  BY <1>1, <1>5 DEF LedgerMoves, StatusMoves, Slot
<1>6. CASE /\ ask.command = "groups.create" /\ begun \in world.lost /\ Ledger!Drop(Key)
           /\ UNCHANGED <<begun, adopted>>
  <2>1. Slot # Ledger!Free /\ ledger' = [ledger EXCEPT ![Key] = Ledger!Free]
    BY <1>6 DEF Ledger!Drop, Slot
  <2>2. ledger' \in [{Key} -> Slots] /\ Slot' = Ledger!Free
    BY <1>1, <2>1 DEF Slot, Slots
  <2> QED  BY <1>1, <1>6, <2>1, <2>2, WhoHasOperations DEF LedgerMoves, StatusMoves, Ledger!Free
<1>7. CASE /\ run[s].state = "working" /\ HasOperation /\ run[s].op = begun
           /\ UNCHANGED <<begun, adopted>>
           /\ \E st \in Ledger!TerminalStatus : Ledger!Settle(Key, st) /\ (IsBulk => st # "failed")
  <2>1. PICK st \in Ledger!TerminalStatus : Ledger!Settle(Key, st) /\ (IsBulk => st # "failed")
    BY <1>7
  <2>2. PICK o \in Ledger!Outcome(st) :
            Slot.status \in {"pending", st} /\ ledger' = [ledger EXCEPT ![Key] = o]
    BY <2>1 DEF Ledger!Settle, Slot
  <2>3. o.status = st /\ o \in Slots
    BY <2>2 DEF Ledger!Outcome, Slots
  <2>4. ledger' \in [{Key} -> Slots] /\ Slot'.status = st
    BY <1>1, <2>2, <2>3 DEF Slot
  <2>5. StatusMoves(s)
    BY <1>7, <2>1, <2>2, <2>4 DEF StatusMoves, Ledger!TerminalStatus
  <2> QED  BY <1>7, <2>4, <2>5, WhoHasOperations DEF LedgerMoves
<1> QED  BY <1>2, <1>3, <1>4, <1>5, <1>6, <1>7 DEF ServiceMoves

\* The ids stay right, and none is used twice.
LEMMA StoreMoves ==
    ASSUME FrontInv, UNCHANGED <<ask, world>>, NEW s \in Surfaces, ServiceMoves(s)
    PROVE  /\ StoreOK' /\ begun' \in {begun, begun + 1} /\ adopted \subseteq adopted'
<1>1. StoreOK /\ Slot.status \in Statuses /\ StatusMoves(s)
  BY SlotMoves, SlotStatus DEF FrontInv
<1>2. begun \in Nat /\ world.lost \subseteq 1..begun /\ adopted \subseteq 1..begun
  BY <1>1 DEF StoreOK
<1>3. begun' \in {begun, begun + 1} /\ begun' \in Nat /\ adopted \subseteq adopted'
  BY <1>1, <1>2 DEF StatusMoves
<1>4. \A o \in 1..begun : o \in 1..begun'
  BY <1>2, <1>3
<1>5. Slot.status # "free" => begun \in 1..begun
  BY <1>1, <1>2 DEF StoreOK
<1>6. adopted' \subseteq 1..begun'
  BY <1>1, <1>2, <1>4, <1>5 DEF StatusMoves
<1>7. begun' = 0 => Slot'.status = "free"
  BY <1>1, <1>2 DEF StatusMoves, StoreOK
<1>8. begun' \in world.lost => Slot'.status \in {"free", "completed"}
  <2>1. begun + 1 \notin world.lost
    BY <1>2
  <2> QED  BY <1>1, <2>1 DEF StatusMoves, StoreOK
<1> QED  BY <1>2, <1>3, <1>4, <1>6, <1>7, <1>8 DEF StoreOK

\* Nothing that another run does takes from a run what it relies on.
LEMMA OthersRely ==
    ASSUME FrontInv, UNCHANGED <<ask, world>>, NEW s \in Surfaces, ServiceMoves(s), Stands(s)',
           NEW t \in Surfaces \ {s}, \A u \in Surfaces \ {s} : run'[u] = run[u]
    PROVE  Stands(t)'
<1>1. /\ StoreOK /\ Stands(t) /\ Slot.status \in Statuses /\ StatusMoves(s)
      /\ begun \in Nat /\ world.lost \subseteq 1..begun
      /\ begun' \in {begun, begun + 1} /\ adopted \subseteq adopted'
  BY SlotMoves, SlotStatus, StoreMoves DEF FrontInv, StoreOK
<1>2. /\ (HasOperation' <=> HasOperation) /\ (IsBulk' <=> IsBulk) /\ Successes' = Successes
      /\ Ok(t)' = Ok(t) /\ run'[t] = run[t] /\ run[t] \in Runs
  BY AskStays DEF HasOperation, Successes, Ok, FrontInv
<1>3. run[t].op \in 0..begun'
  BY <1>1 DEF Stands
<1>4. HasOperation /\ Slot.status \in Successes =>
          begun' = begun /\ (Slot'.status \in Successes \/ begun \in world.lost)
  BY <1>1 DEF StatusMoves, Successes
<1>5. HasOperation /\ Slot.status = "completed" =>
          begun' = begun /\ (Slot'.status = "completed" \/ begun \in world.lost)
  BY <1>1 DEF StatusMoves
<1>6. run[t].state \in {"verifying", "found"} =>
          run[t].op \in world.lost \/ (run[t].op = begun' /\ Slot'.status = "completed")
  BY <1>1, <1>5, WhoHasOperations DEF Stands
<1>7. ASSUME t # "dry", run[t].state = "answered", run[t].code = Ok(t), HasOperation
      PROVE  \/ run[t].op \in world.lost \cup adopted'
             \/ run[t].op = begun' /\ Slot'.status \in Successes
  BY <1>1, <1>4, <1>7 DEF Stands, Backed
<1>8. ASSUME run[t].state = "working", HasOperation PROVE Executes(t)'
  <2>1. Executes(t)
    BY <1>1, <1>8 DEF Stands
  <2>2. CASE IsBulk
    <3>1. begun' = begun /\ Slot'.status \in {"pending", "completed", "needs_review"}
      BY <1>1, <1>8, <2>1, <2>2 DEF Executes, StatusMoves
    <3> QED  BY <1>2, <2>1, <2>2, <3>1 DEF Executes
  <2>3. CASE ~IsBulk /\ run[t].op \in adopted'
    BY <1>2, <2>3 DEF Executes
  <2>4. CASE ~IsBulk /\ run[t].op \notin adopted'
    <3>1. /\ run[t].op = begun /\ Slot.status = "pending"
          /\ \A u \in Surfaces \ {t} : run[u].state = "working" => run[u].op # run[t].op
      BY <1>1, <2>1, <2>4 DEF Executes
    <3>2. begun' = begun /\ Slot'.status = "pending"
      <4>1. ~(run[s].state = "working" /\ run[s].op = begun)
        BY <3>1
      <4>2. begun \notin world.lost
        BY <1>1, <3>1 DEF StoreOK
      <4>3. begun \notin adopted'
        BY <2>4, <3>1
      <4> QED  BY <1>1, <3>1, <4>1, <4>2, <4>3, <1>8 DEF StatusMoves
    <3>3. ASSUME NEW u \in Surfaces \ {t}, run'[u].state = "working" PROVE run'[u].op # run[t].op
      <4>1. CASE u # s
        BY <3>1, <3>3, <4>1
      <4>2. CASE u = s
        <5>1. Executes(s)'
          BY <1>2, <1>8, <3>3, <4>2 DEF Stands
        <5>2. \/ run'[s].op \in adopted'
              \/ \A v \in Surfaces \ {s} : run'[v].state = "working" => run'[v].op # run'[s].op
          BY <1>2, <2>4, <5>1 DEF Executes
        <5> QED  BY <1>2, <1>8, <2>4, <4>2, <5>2
      <4> QED  BY <4>1, <4>2
    <3> QED  BY <1>2, <2>4, <3>1, <3>2, <3>3 DEF Executes
  <2> QED  BY <2>2, <2>3, <2>4
<1> QED  BY <1>1, <1>2, <1>3, <1>6, <1>7, <1>8 DEF Stands, Backed

\* A run moves to r, all the others stand: what is to be shown of r.
LEMMA RunMoves ==
    ASSUME FrontInv, UNCHANGED <<ask, world, changes>>, NEW s \in Surfaces, ServiceMoves(s),
           NEW r \in Runs, run' = [run EXCEPT ![s] = r],
           r.state # "idle", r.since <= changes, Offered(s), r.at \in 1..Len(Program(s)),
           r.state = "answered" <=> r.why # "none",
           r.state = "answered" => r.code \in Codes(s),
           r.state \in Serving \/ r.why \in {"replayed", "outcome", "done"} =>
               Program(s)[r.at].kind = "serve",
           r.why = "planned" => Program(s)[r.at].kind = "plan",
           r.why \in {"args", "lookup"} => Program(s)[r.at].kind # "consent",
           r.since = changes => \A j \in 1..(r.at - 1) : Holds(Program(s)[j]),
           r.why \in {"args", "consent", "lookup"} => ~Holds(Program(s)[r.at]),
           Stands(s)'
    PROVE  FrontInv'
<1>1. LedgerMoves /\ ledger' \in [{Key} -> Slots] /\ StoreOK'
  BY SlotMoves, StoreMoves
<1>2. Program(s)' = Program(s) /\ (Offered(s)' <=> Offered(s))
  BY AskStays
<1>3. run \in [Surfaces -> Runs]
  BY DEF FrontInv
<1>4. run' \in [Surfaces -> Runs] /\ run'[s] = r /\ \A t \in Surfaces \ {s} : run'[t] = run[t]
  BY <1>3
<1>5. ASSUME NEW t \in Surfaces PROVE RunOK(t)' /\ Current(t)'
  <2>1. CASE t # s
    BY <1>1, <1>4, <2>1, OthersStand
  <2>2. CASE t = s
    <3>1. RunOK(s)'
      BY <1>2, <1>4 DEF RunOK, Codes, Here
    <3>2. \A j \in 1..Len(Program(s)) : Holds(Program(s)[j])' <=> Holds(Program(s)[j])
      BY <1>1, LooksStay
    <3>3. \A j \in 1..(r.at - 1) : j \in 1..Len(Program(s))
      BY StageFacts DEF FrontInv
    <3>4. Here(s)' = Program(s)[r.at]' /\ r.at' = r.at
      BY <1>4 DEF Here
    <3>5. Current(s)'
      <4>1. r.since = changes => \A j \in 1..(r.at - 1) : Holds(Program(s)[j])'
        BY <3>2, <3>3
      <4>2. r.why \in {"args", "consent", "lookup"} => ~Holds(Program(s)[r.at])'
        BY <3>2
      <4> QED  BY <1>2, <1>4, <4>1, <4>2 DEF Current, Here
    <3> QED  BY <2>2, <3>1, <3>5
  <2> QED  BY <2>1, <2>2
<1>6. ASSUME NEW t \in Surfaces PROVE Stands(t)'
  BY <1>4, OthersRely
<1>7. (ask \in AllAsks)' /\ (world \in Worlds)' /\ (changes \in 0..MaxChanges)'
  BY DEF FrontInv, Worlds
<1> QED  BY <1>1, <1>4, <1>5, <1>6, <1>7 DEF FrontInv

\* A run goes on with its service, or answers, at the stage where it is.
LEMMA RunStays ==
    ASSUME FrontInv, UNCHANGED <<ask, world, changes>>, NEW s \in Surfaces, ServiceMoves(s),
           run[s].state \in {"checking"} \cup Serving,
           NEW r \in Runs, run' = [run EXCEPT ![s] = r],
           r.at = run[s].at, r.since = run[s].since, r.state \in {"answered"} \cup Serving,
           r.state = "answered" <=> r.why # "none",
           r.state = "answered" => r.code \in Codes(s),
           r.state \in Serving \/ r.why \in {"replayed", "outcome", "done"} => Here(s).kind = "serve",
           r.why = "planned" => Here(s).kind = "plan",
           r.why \in {"args", "lookup"} => Here(s).kind # "consent",
           r.why \in {"args", "consent", "lookup"} => ~Holds(Here(s)),
           Stands(s)'
    PROVE  FrontInv'
<1>1. RunOK(s) /\ Current(s) /\ run[s].state # "idle" /\ r.state # "idle"
  BY DEF FrontInv, Serving
<1>2. /\ Offered(s) /\ run[s].at \in 1..Len(Program(s)) /\ run[s].since <= changes
  BY <1>1 DEF RunOK
<1>3. run[s].since = changes => \A j \in 1..(run[s].at - 1) : Holds(Program(s)[j])
  BY <1>1 DEF Current
<1>4. Program(s)[r.at] = Here(s)
  BY DEF Here
<1>5. /\ r.at \in 1..Len(Program(s)) /\ r.since <= changes
      /\ r.since = changes => \A j \in 1..(r.at - 1) : Holds(Program(s)[j])
  BY <1>2, <1>3
<1>6. /\ r.state \in Serving \/ r.why \in {"replayed", "outcome", "done"} =>
            Program(s)[r.at].kind = "serve"
      /\ r.why = "planned" => Program(s)[r.at].kind = "plan"
      /\ r.why \in {"args", "lookup"} => Program(s)[r.at].kind # "consent"
      /\ r.why \in {"args", "consent", "lookup"} => ~Holds(Program(s)[r.at])
  BY <1>4
<1> QED  BY <1>1, <1>2, <1>5, <1>6, RunMoves

\* A run answers at the stage where it is, for the operation it has.
LEMMA Answers ==
    ASSUME FrontInv, UNCHANGED <<ask, world, changes>>, NEW s \in Surfaces, ServiceMoves(s),
           run[s].state \in {"checking"} \cup Serving, NEW code \in Codes(s),
           NEW why \in {"down", "args", "consent", "lookup", "planned", "replayed", "outcome", "done"},
           Answer(s, code, why),
           why \in {"replayed", "outcome", "done"} => Here(s).kind = "serve",
           why = "planned" => Here(s).kind = "plan",
           why \in {"args", "lookup"} => Here(s).kind # "consent",
           why \in {"args", "consent", "lookup"} => ~Holds(Here(s)),
           s # "dry" /\ code = Ok(s) /\ HasOperation =>
               \/ run[s].op \in world.lost \cup adopted'
               \/ run[s].op = begun' /\ Slot'.status \in Successes
    PROVE  FrontInv'
<1>1. PICK r : r = [run[s] EXCEPT !.state = "answered", !.code = code, !.why = why]
  OBVIOUS
<1>2. run \in [Surfaces -> Runs] /\ run[s] \in Runs /\ Stands(s)
  BY DEF FrontInv
<1>3. code \in Nat
  BY DEF Codes
<1>4. /\ r \in Runs /\ r.state = "answered" /\ r.code = code /\ r.why = why
      /\ r.at = run[s].at /\ r.since = run[s].since /\ r.op = run[s].op
  BY <1>1, <1>2, <1>3 DEF Runs
<1>5. run' = [run EXCEPT ![s] = r] /\ run'[s] = r
  BY <1>1, <1>2 DEF Answer
<1>6. Stands(s)'
  <2>1. r.op \in 0..begun'
    BY <1>2, <1>4, StoreMoves DEF Stands, FrontInv, StoreOK
  <2>2. (HasOperation' <=> HasOperation) /\ Successes' = Successes /\ Ok(s)' = Ok(s)
    BY AskStays DEF HasOperation, Successes, Ok
  <2> QED  BY <1>4, <1>5, <2>1, <2>2 DEF Stands, Backed
<1>7. /\ r.state \in {"answered"} \cup Serving /\ r.why # "none" /\ r.state \notin Serving
      /\ r.code \in Codes(s)
      /\ r.why \in {"replayed", "outcome", "done"} => Here(s).kind = "serve"
      /\ r.why = "planned" => Here(s).kind = "plan"
      /\ r.why \in {"args", "lookup"} => Here(s).kind # "consent"
      /\ r.why \in {"args", "consent", "lookup"} => ~Holds(Here(s))
  BY <1>4 DEF Serving
<1> QED  BY <1>4, <1>5, <1>6, <1>7, RunStays

LEMMA BeginInv ==
    ASSUME FrontInv, NEW s \in Surfaces, Begin(s) PROVE FrontInv'
<1>1. PICK r : r = [run[s] EXCEPT !.state = "checking", !.at = 1, !.since = changes]
  OBVIOUS
<1>2. /\ run \in [Surfaces -> Runs] /\ run[s] \in Runs /\ RunOK(s) /\ changes \in Nat
      /\ ask \in AllAsks
  BY FrontAssumption DEF FrontInv
<1>3. /\ UNCHANGED <<ask, world, changes, ledger, begun, adopted>> /\ Offered(s)
      /\ run[s].state = "idle" /\ run' = [run EXCEPT ![s] = r]
  BY <1>1, <1>2 DEF Begin
<1>4. /\ r \in Runs /\ r.state = "checking" /\ r.at = 1 /\ r.since = changes
      /\ r.why = "none" /\ r.op = run[s].op
  BY <1>1, <1>2, <1>3 DEF Runs, RunOK, Serving
<1>5. 1 \in 1..Len(Program(s))
  <2>1. Ends(Program(s), DoorChecks(s), Last(s))
    BY <1>2, <1>3, EveryProgram
  <2>2. Len(Program(s)) \in Nat \ {0}
    BY <2>1, Places DEF Last
  <2> QED  BY <2>2
<1>6. r.since <= changes /\ \A j \in 1..(r.at - 1) : Holds(Program(s)[j])
  BY <1>2, <1>4
<1>7. ServiceMoves(s) /\ UNCHANGED <<ask, world, changes>>
  BY <1>3 DEF ServiceMoves
<1>8. Stands(s)'
  BY <1>2, <1>3, <1>4 DEF FrontInv, Stands
<1> QED  BY <1>3, <1>4, <1>5, <1>6, <1>7, <1>8, RunMoves DEF Serving

LEMMA PassInv ==
    ASSUME FrontInv, NEW s \in Surfaces, Pass(s) PROVE FrontInv'
<1>1. PICK r : r = [run[s] EXCEPT !.at = run[s].at + 1]
  OBVIOUS
<1>2. run \in [Surfaces -> Runs] /\ run[s] \in Runs /\ RunOK(s) /\ Current(s) /\ ask \in AllAsks
  BY DEF FrontInv
<1>3. /\ UNCHANGED <<ask, world, changes, ledger, begun, adopted>> /\ run[s].state = "checking"
      /\ Here(s).kind \notin {"plan", "serve"} /\ Holds(Here(s))
      /\ run' = [run EXCEPT ![s] = r]
  BY <1>1, <1>2 DEF Pass
<1>4. /\ r \in Runs /\ r.state = "checking" /\ r.at = run[s].at + 1 /\ r.since = run[s].since
      /\ r.why = "none" /\ r.op = run[s].op
  <2>1. run[s].at \in Nat /\ run[s].at + 1 \in Nat
    BY <1>2 DEF Runs
  <2>2. PICK at : at = run[s].at + 1
    OBVIOUS
  <2>3. r = [run[s] EXCEPT !.at = at] /\ at \in Nat
    BY <1>1, <2>1, <2>2
  <2>4. run[s].why = "none"
    BY <1>2, <1>3 DEF RunOK
  <2> QED  BY <1>2, <1>3, <2>2, <2>3, <2>4 DEF Runs
<1>5. Offered(s) /\ run[s].at \in 1..Len(Program(s)) /\ run[s].since <= changes
  BY <1>2, <1>3 DEF RunOK
<1>6. r.at \in 1..Len(Program(s))
  BY <1>2, <1>3, <1>4, <1>5, StageFacts DEF Here
<1>7. r.since = changes => \A j \in 1..(r.at - 1) : Holds(Program(s)[j])
  <2>1. \A j \in 1..(r.at - 1) : j \in 1..(run[s].at - 1) \/ j = run[s].at
    BY <1>4, <1>5
  <2> QED  BY <1>2, <1>3, <1>4, <2>1 DEF Current, Here
<1>8. ServiceMoves(s) /\ Stands(s)'
  BY <1>2, <1>3, <1>4 DEF ServiceMoves, FrontInv, Stands
<1> QED  BY <1>3, <1>4, <1>5, <1>6, <1>7, <1>8, RunMoves DEF Serving

LEMMA RefuseInv ==
    ASSUME FrontInv, NEW s \in Surfaces, Refuse(s) PROVE FrontInv'
<1>1. /\ UNCHANGED <<ask, world, changes, ledger, begun, adopted>> /\ run[s].state = "checking"
  BY DEF Refuse
<1>2. ServiceMoves(s)
  BY <1>1 DEF ServiceMoves
<1>3. Offered(s) /\ run[s].at \in 1..Len(Program(s)) /\ ask \in AllAsks
  BY <1>1 DEF FrontInv, RunOK
<1>4. CASE Answer(s, IF Here(s).kind = "open" /\ s = "http" THEN 503 ELSE Raised(s), "down")
  <2>1. PICK code : code = IF Here(s).kind = "open" /\ s = "http" THEN 503 ELSE Raised(s)
    OBVIOUS
  <2>2. code \in Codes(s) /\ (s # "dry" => code # Ok(s)) /\ Answer(s, code, "down")
    BY <1>4, <2>1 DEF Codes, Raised, Ok
  <2> QED  BY <1>1, <1>2, <2>2, Answers
<1>5. ASSUME ~Holds(Here(s)), Here(s).kind \in {"args", "consent"},
             Answer(s, Here(s).code, Here(s).kind)
      PROVE  FrontInv'
  <2>1. PICK code, kind : code = Here(s).code /\ kind = Here(s).kind
    OBVIOUS
  <2>2. code \in IF s = "http" THEN {400, 409, 422, 500} ELSE {1, 2}
    BY <1>3, <1>5, <2>1, StageFacts DEF Here
  <2>3. code \in Codes(s) /\ code # Ok(s)
    BY <2>2 DEF Codes, Ok
  <2> QED  BY <1>1, <1>2, <1>5, <2>1, <2>3, Answers
<1>6. ASSUME ~Holds(Here(s)), Here(s).kind \notin {"args", "consent"},
             \E code \in NotFound(s, Here(s)) : Answer(s, code, "lookup")
      PROVE  FrontInv'
  <2>1. PICK code \in NotFound(s, Here(s)) : Answer(s, code, "lookup")
    BY <1>6
  <2>2. code \in {2, 404, 409} /\ (s # "http" => code = 2) /\ (s = "http" => code \in {404, 409})
    BY DEF NotFound
  <2>3. code \in Codes(s) /\ code # Ok(s)
    BY <2>2 DEF Codes, Ok
  <2> QED  BY <1>1, <1>2, <1>6, <2>1, <2>3, Answers
<1> QED  BY <1>4, <1>5, <1>6 DEF Refuse

LEMMA PrintPlanInv ==
    ASSUME FrontInv, NEW s \in Surfaces, PrintPlan(s) PROVE FrontInv'
<1>1. /\ UNCHANGED <<ask, world, changes, ledger, begun, adopted>> /\ run[s].state = "checking"
      /\ Here(s).kind = "plan" /\ Answer(s, 0, "planned")
  BY DEF PrintPlan
<1>2. Offered(s) /\ run[s].at \in 1..Len(Program(s)) /\ ask \in AllAsks
  BY <1>1 DEF FrontInv, RunOK
<1>3. s = "dry"
  BY <1>1, <1>2, StageFacts DEF Here
<1>4. 0 \in Codes(s)
  BY <1>3 DEF Codes
<1> QED  BY <1>1, <1>3, <1>4, Answers DEF ServiceMoves

\* A service goes on with the request, or takes it on, for the operation r.op.
LEMMA Serves ==
    ASSUME FrontInv, UNCHANGED <<ask, world, changes>>, NEW s \in Surfaces, ServiceMoves(s),
           AtService(s) \/ run[s].state \in Serving, NEW state \in Serving, NEW op \in Nat,
           NEW r, r = [run[s] EXCEPT !.state = state, !.op = op], run' = [run EXCEPT ![s] = r],
           op \in 0..begun',
           state \in {"verifying", "found", "gone", "reclaiming"} => ask.command = "groups.create",
           state \in {"verifying", "found"} =>
               op \in world.lost \/ (op = begun' /\ Slot'.status = "completed"),
           state = "gone" => op \in world.lost,
           state = "working" /\ HasOperation =>
               IF IsBulk
               THEN op = begun' /\ Slot'.status \in {"pending", "completed", "needs_review"}
               ELSE \/ op \in adopted'
                    \/ /\ op = begun' /\ Slot'.status = "pending"
                       /\ \A t \in Surfaces \ {s} : run[t].state = "working" => run[t].op # op
    PROVE  FrontInv'
<1>1. run \in [Surfaces -> Runs] /\ run[s] \in Runs /\ RunOK(s)
  BY DEF FrontInv
<1>2. run[s].state \in {"checking"} \cup Serving /\ Here(s).kind = "serve" /\ run[s].why = "none"
  BY <1>1 DEF AtService, RunOK, Serving
<1>3. /\ r \in Runs /\ r.state = state /\ r.at = run[s].at /\ r.since = run[s].since
      /\ r.why = "none" /\ r.op = op
  BY <1>1, <1>2 DEF Runs
<1>4. run'[s] = r /\ \A t \in Surfaces \ {s} : run'[t] = run[t]
  BY <1>1
<1>5. Stands(s)'
  <2>1. (HasOperation' <=> HasOperation) /\ (IsBulk' <=> IsBulk)
    BY AskStays DEF HasOperation
  <2>2. r.state = "working" /\ HasOperation => Executes(s)'
    BY <1>3, <1>4, <2>1 DEF Executes
  <2>3. r.state # "answered"
    BY <1>3 DEF Serving
  <2> QED  BY <1>3, <1>4, <2>1, <2>2, <2>3 DEF Stands
<1> QED  BY <1>2, <1>3, <1>5, RunStays DEF Serving

LEMMA ClaimsInv ==
    ASSUME FrontInv, NEW s \in Surfaces, Claims(s) PROVE FrontInv'
<1>1. /\ UNCHANGED <<ask, world, changes, adopted>> /\ AtService(s) /\ HasOperation
      /\ run[s] \in Runs /\ StoreOK /\ Slot.status \in Statuses
      /\ begun \in Nat /\ adopted \subseteq 1..begun
      /\ \A t \in Surfaces : run[t].op \in 0..begun
  BY SlotStatus DEF Claims, HasOperation, FrontInv, StoreOK, Stands
<1>2. PICK r : r = [run[s] EXCEPT !.state = "working", !.op = begun']
  OBVIOUS
<1>3. run' = [run EXCEPT ![s] = r]
  BY <1>1, <1>2 DEF Claims, Works, FrontInv
<1>4. CASE Ledger!Claim(Key) /\ begun' = begun + 1
  <2>1. ServiceMoves(s)
    BY <1>1, <1>4 DEF ServiceMoves
  <2>2. Slot.status = "free" /\ Slot'.status = "pending"
    <3>1. Slot = Ledger!Free /\ ledger' = [ledger EXCEPT ![Key] = Ledger!Claimed]
      BY <1>4 DEF Ledger!Claim, Slot
    <3> QED  BY <3>1 DEF Slot, FrontInv, Ledger!Free, Ledger!Claimed
  <2>3. begun' \in Nat /\ begun' \in 0..begun' /\ \A t \in Surfaces : run[t].op # begun'
    BY <1>1, <1>4
  <2> QED  BY <1>1, <1>2, <1>3, <2>1, <2>2, <2>3, Serves DEF Serving
<1>5. CASE IsBulk /\ Slot.status = "pending" /\ UNCHANGED <<ledger, begun>>
  <2>1. ServiceMoves(s) /\ Slot'.status = "pending"
    BY <1>1, <1>5 DEF ServiceMoves, Slot
  <2>2. begun' \in Nat /\ begun' \in 0..begun'
    BY <1>1, <1>5
  <2> QED  BY <1>1, <1>2, <1>3, <1>5, <2>1, <2>2, Serves DEF Serving
<1> QED  BY <1>4, <1>5 DEF Claims

LEMMA GoesInv ==
    ASSUME FrontInv, NEW s \in Surfaces, Goes(s) PROVE FrontInv'
<1>1. /\ UNCHANGED <<ask, world, changes, ledger, begun, adopted>> /\ AtService(s) /\ ~HasOperation
      /\ ServiceMoves(s) /\ begun \in Nat
  BY DEF Goes, HasOperation, ServiceMoves, FrontInv, StoreOK
<1>2. PICK r : r = [run[s] EXCEPT !.state = "working", !.op = 0]
  OBVIOUS
<1>3. run' = [run EXCEPT ![s] = r]
  BY <1>2 DEF Goes, Works, FrontInv
<1>4. 0 \in Nat /\ 0 \in 0..begun'
  BY <1>1
<1> QED  BY <1>1, <1>2, <1>3, <1>4, Serves DEF Serving

LEMMA ServiceCodes ==
    ASSUME NEW s \in Surfaces
    PROVE  /\ {Ok(s), Raised(s), Conflict(s), InReview(s)} \subseteq Codes(s)
           /\ Ok(s) \notin {Raised(s), Conflict(s), InReview(s)}
           /\ Failed(s) \subseteq Codes(s) /\ Ok(s) \notin Failed(s)
           /\ Translated(s) \subseteq Codes(s) /\ Ok(s) \notin Translated(s)
BY DEF Ok, Raised, Conflict, InReview, Failed, Translated, Codes

LEMMA ReplaysInv ==
    ASSUME FrontInv, NEW s \in Surfaces, Replays(s) PROVE FrontInv'
<1>1. /\ UNCHANGED <<ask, world, changes, ledger, begun, adopted>> /\ AtService(s)
      /\ run[s].state = "checking" /\ Here(s).kind = "serve" /\ ServiceMoves(s) /\ Slot' = Slot
      /\ run \in [Surfaces -> Runs] /\ run[s] \in Runs /\ begun \in Nat
  BY DEF Replays, AtService, ServiceMoves, Slot, FrontInv, StoreOK
<1>2. begun \in 0..begun
  BY <1>1
<1>3. ASSUME NEW code \in Codes(s), NEW why \in {"replayed", "outcome"}, Repeats(s, code, why),
             code = Ok(s) => Slot.status = "completed"
      PROVE  FrontInv'
  <2>1. PICK r : r = [run[s] EXCEPT !.state = "answered", !.op = begun, !.code = code, !.why = why]
    OBVIOUS
  <2>2. code \in Nat
    BY DEF Codes
  <2>3. /\ r \in Runs /\ r.state = "answered" /\ r.code = code /\ r.why = why
        /\ r.at = run[s].at /\ r.since = run[s].since /\ r.op = begun
    BY <1>1, <2>1, <2>2 DEF Runs
  <2>4. run' = [run EXCEPT ![s] = r] /\ run'[s] = r
    BY <1>1, <1>3, <2>1 DEF Repeats
  <2>5. Stands(s)'
    <3>1. Successes' = Successes /\ Ok(s)' = Ok(s)
      BY <1>1, AskStays DEF Successes, Ok
    <3>2. r.code = Ok(s) => Backed(s)'
      BY <1>1, <1>3, <2>3, <2>4, <3>1 DEF Backed, Successes
    <3> QED  BY <1>1, <1>2, <2>3, <2>4, <3>1, <3>2 DEF Stands
  <2> QED  BY <1>1, <1>3, <2>3, <2>4, <2>5, RunStays DEF Serving
<1>4. CASE Slot.status = "completed" /\ ask.command = "groups.create"
  <2>1. CASE run' = [run EXCEPT ![s] = [@ EXCEPT !.state = "verifying", !.op = begun]]
    <3>1. PICK r : r = [run[s] EXCEPT !.state = "verifying", !.op = begun]
      OBVIOUS
    <3>2. run' = [run EXCEPT ![s] = r]
      BY <1>1, <2>1, <3>1
    <3> QED  BY <1>1, <1>2, <1>4, <3>1, <3>2, Serves DEF Serving
  <2> QED  BY <1>4, <2>1 DEF Replays
<1>5. CASE Slot.status = "completed" /\ Repeats(s, Ok(s), "replayed")
  BY <1>3, <1>5, ServiceCodes
<1>6. CASE Repeats(s, Conflict(s), "outcome")
  BY <1>3, <1>6, ServiceCodes
<1>7. CASE Repeats(s, InReview(s), "outcome")
  BY <1>3, <1>7, ServiceCodes
<1> QED  BY <1>4, <1>5, <1>6, <1>7 DEF Replays

LEMMA TelegramChecksInv ==
    ASSUME FrontInv, NEW s \in Surfaces, TelegramChecks(s) PROVE FrontInv'
<1>1. /\ UNCHANGED <<ask, world, changes, ledger, begun, adopted>> /\ run[s].state = "verifying"
      /\ run \in [Surfaces -> Runs] /\ run[s] \in Runs /\ Stands(s) /\ ServiceMoves(s)
      /\ Slot' = Slot
  BY DEF TelegramChecks, FrontInv, ServiceMoves, Slot
<1>2. PICK state \in {"found", "gone"} :
          state = IF run[s].op \in world.lost THEN "gone" ELSE "found"
  OBVIOUS
<1>3. PICK r : r = [run[s] EXCEPT !.state = state, !.op = run[s].op]
  OBVIOUS
<1>4. run' = [run EXCEPT ![s] = r]
  <2>1. r = [run[s] EXCEPT !.state = state]
    BY <1>1, <1>3 DEF Runs
  <2> QED  BY <1>1, <1>2, <2>1 DEF TelegramChecks
<1>5. /\ run[s].op \in 0..begun' /\ run[s].op \in Nat /\ ask.command = "groups.create"
      /\ state = "found" => run[s].op = begun' /\ Slot'.status = "completed"
      /\ state = "gone" => run[s].op \in world.lost
  BY <1>1, <1>2 DEF Stands, Runs
<1> QED  BY <1>1, <1>2, <1>3, <1>4, <1>5, Serves DEF Serving

LEMMA StillExistsInv ==
    ASSUME FrontInv, NEW s \in Surfaces, StillExists(s) PROVE FrontInv'
<1>1. /\ UNCHANGED <<ask, world, changes, ledger, begun, adopted>> /\ run[s].state = "found"
      /\ Answer(s, Ok(s), "replayed") /\ Here(s).kind = "serve" /\ Stands(s) /\ ServiceMoves(s)
      /\ Slot' = Slot
  BY DEF StillExists, FrontInv, RunOK, Serving, ServiceMoves, Slot
<1>2. run[s].op \in world.lost \/ (run[s].op = begun /\ Slot.status \in Successes)
  BY <1>1 DEF Stands, Successes
<1> QED  BY <1>1, <1>2, ServiceCodes, Answers DEF Serving

LEMMA CheckFailsInv ==
    ASSUME FrontInv, NEW s \in Surfaces, CheckFails(s) PROVE FrontInv'
<1>1. /\ UNCHANGED <<ask, world, changes, ledger, begun, adopted>> /\ run[s].state = "verifying"
      /\ Here(s).kind = "serve" /\ ServiceMoves(s)
  BY DEF CheckFails, FrontInv, RunOK, Serving, ServiceMoves
<1>2. PICK code \in {InReview(s), Raised(s)} : Answer(s, code, "outcome")
  BY DEF CheckFails
<1> QED  BY <1>1, <1>2, ServiceCodes, Answers DEF Serving

LEMMA DropStaleInv ==
    ASSUME FrontInv, NEW s \in Surfaces, DropStale(s) PROVE FrontInv'
<1>1. /\ UNCHANGED <<ask, world, changes, begun, adopted>> /\ run[s].state = "gone"
      /\ run \in [Surfaces -> Runs] /\ run[s] \in Runs /\ Stands(s)
  BY DEF DropStale, FrontInv
<1>2. ask.command = "groups.create" /\ run[s].op \in world.lost /\ run[s].op \in 0..begun'
  BY <1>1 DEF Stands
<1>3. ServiceMoves(s)
  BY <1>1, <1>2 DEF DropStale, ServiceMoves
<1>4. PICK r : r = [run[s] EXCEPT !.state = "reclaiming", !.op = run[s].op]
  OBVIOUS
<1>5. run' = [run EXCEPT ![s] = r]
  <2>1. r = [run[s] EXCEPT !.state = "reclaiming"]
    BY <1>1, <1>4 DEF Runs
  <2> QED  BY <1>1, <2>1 DEF DropStale
<1>6. run[s].op \in Nat
  BY <1>1 DEF Runs
<1> QED  BY <1>1, <1>2, <1>3, <1>4, <1>5, <1>6, Serves DEF Serving

LEMMA ReclaimInv ==
    ASSUME FrontInv, NEW s \in Surfaces, Reclaim(s) PROVE FrontInv'
<1>1. /\ UNCHANGED <<ask, world, changes>> /\ run[s].state = "reclaiming"
      /\ run \in [Surfaces -> Runs] /\ run[s] \in Runs /\ begun \in Nat
      /\ \A t \in Surfaces : run[t].op \in 0..begun
      /\ HasOperation /\ ~IsBulk
  BY WhoHasOperations DEF Reclaim, FrontInv, StoreOK, Stands
<1>2. PICK r : r = [run[s] EXCEPT !.state = "working", !.op = begun']
  OBVIOUS
<1>3. run' = [run EXCEPT ![s] = r]
  BY <1>1, <1>2 DEF Reclaim, Works
<1>4. CASE Ledger!Claim(Key) /\ begun' = begun + 1 /\ UNCHANGED adopted
  <2>1. ServiceMoves(s)
    BY <1>1, <1>4 DEF ServiceMoves
  <2>2. Slot'.status = "pending"
    <3>1. ledger' = [ledger EXCEPT ![Key] = Ledger!Claimed]
      BY <1>4 DEF Ledger!Claim
    <3> QED  BY <3>1 DEF Slot, FrontInv, Ledger!Claimed
  <2>3. begun' \in Nat /\ begun' \in 0..begun' /\ \A t \in Surfaces : run[t].op # begun'
    BY <1>1, <1>4
  <2> QED  BY <1>1, <1>2, <1>3, <2>1, <2>2, <2>3, Serves DEF Serving
<1>5. CASE Slot # Ledger!Free /\ adopted' = adopted \cup {begun} /\ UNCHANGED <<ledger, begun>>
  <2>1. ServiceMoves(s) /\ begun' \in adopted' /\ begun' \in Nat /\ begun' \in 0..begun'
    BY <1>1, <1>5 DEF ServiceMoves
  <2> QED  BY <1>1, <1>2, <1>3, <2>1, Serves DEF Serving
<1> QED  BY <1>4, <1>5 DEF Reclaim

LEMMA SettlesInv ==
    ASSUME FrontInv, NEW s \in Surfaces, Settles(s) PROVE FrontInv'
<1>1. /\ UNCHANGED <<ask, world, changes, begun, adopted>> /\ run[s].state = "working" /\ HasOperation
      /\ Here(s).kind = "serve" /\ run[s].op = begun /\ Executes(s)
  BY DEF Settles, HasOperation, FrontInv, RunOK, Serving, Stands
<1>2. PICK outcome \in Ledger!TerminalStatus :
          /\ IsBulk => outcome # "failed"
          /\ \/ Ledger!Settle(Key, outcome)
             \/ Slot.status \in Ledger!TerminalStatus \ {outcome} /\ UNCHANGED ledger
          /\ \E code \in Told(s, outcome) :
                Answer(s, code, IF outcome = "completed" THEN "done" ELSE "outcome")
  BY DEF Settles, Ledger!TerminalStatus
<1>3. PICK code \in Told(s, outcome), why \in {"done", "outcome"} : Answer(s, code, why)
  BY <1>2
<1>4. code \in Codes(s) /\ (code = Ok(s) => outcome \in Successes)
  BY <1>2, <1>3, ServiceCodes DEF Told, Successes, Ledger!TerminalStatus
<1>5. CASE Ledger!Settle(Key, outcome)
  <2>1. ServiceMoves(s)
    BY <1>1, <1>2, <1>5 DEF ServiceMoves
  <2>2. PICK o \in Ledger!Outcome(outcome) : ledger' = [ledger EXCEPT ![Key] = o]
    BY <1>5 DEF Ledger!Settle
  <2>3. Slot'.status = outcome
    BY <2>2 DEF Ledger!Outcome, Slot, FrontInv
  <2> QED  BY <1>1, <1>3, <1>4, <2>1, <2>3, Answers DEF Serving
<1>6. CASE Slot.status \in Ledger!TerminalStatus \ {outcome} /\ UNCHANGED ledger
  <2>1. ServiceMoves(s) /\ Slot' = Slot
    BY <1>1, <1>6 DEF ServiceMoves, Slot
  <2>2. run[s].op \in adopted' \/ Slot'.status \in Successes
    BY <1>1, <1>6, <2>1 DEF Executes, Successes, Ledger!TerminalStatus
  <2> QED  BY <1>1, <1>3, <1>4, <2>1, <2>2, Answers DEF Serving
<1> QED  BY <1>2, <1>5, <1>6

LEMMA ReturnsInv ==
    ASSUME FrontInv, NEW s \in Surfaces, Returns(s) PROVE FrontInv'
<1>1. /\ UNCHANGED <<ask, world, changes, ledger, begun, adopted>> /\ run[s].state = "working"
      /\ ~HasOperation /\ Here(s).kind = "serve" /\ ServiceMoves(s)
  BY DEF Returns, HasOperation, FrontInv, RunOK, Serving, ServiceMoves
<1>2. PICK code \in Codes(s), why \in {"done", "outcome"} : Answer(s, code, why)
  BY ServiceCodes DEF Returns
<1> QED  BY <1>1, <1>2, Answers DEF Serving

LEMMA RaisesInv ==
    ASSUME FrontInv, NEW s \in Surfaces, Raises(s) PROVE FrontInv'
<1>1. /\ UNCHANGED <<ask, world, changes, ledger, begun, adopted>> /\ run[s].state = "working"
      /\ Here(s).kind = "serve" /\ ServiceMoves(s)
  BY DEF Raises, FrontInv, RunOK, Serving, ServiceMoves
<1>2. PICK code \in Failed(s) : Answer(s, code, "outcome")
  BY DEF Raises
<1> QED  BY <1>1, <1>2, ServiceCodes, Answers DEF Serving

LEMMA OperationCommandInv ==
    ASSUME FrontInv, NEW s \in Surfaces, OperationCommand(s) PROVE FrontInv'
<1>1. /\ UNCHANGED <<ask, world, changes>> /\ run[s].state = "checking"
      /\ Here(s).kind = "serve" /\ Answer(s, 0, "done")
      /\ ask.command \in OperationCommands /\ ServiceMoves(s)
  BY DEF OperationCommand, AtService, ServiceMoves, OperationCommands
<1>2. ~HasOperation
  BY <1>1 DEF HasOperation, IsSingle, IsBulk, Singles, Bulks, OperationCommands
<1>3. Offered(s)
  BY <1>1 DEF FrontInv, RunOK
<1>4. 0 \in Codes(s)
  BY <1>1, <1>3 DEF Offered, Codes
<1> QED  BY <1>1, <1>2, <1>4, Answers DEF Serving

\* No run began in the world that a change makes.
LEMMA WorldChangesInv ==
    ASSUME FrontInv, WorldChanges PROVE FrontInv'
<1>1. /\ changes \in Nat /\ changes' = changes + 1 /\ changes < MaxChanges
      /\ UNCHANGED <<ask, ledger, begun, run, adopted>> /\ MaxChanges \in Nat
  BY FrontAssumption DEF WorldChanges, FrontInv
<1>2. /\ world' \in Worlds /\ world.lost \subseteq world'.lost
      /\ \/ world'.lost = world.lost
         \/ Slot.status = "completed" /\ world'.lost = world.lost \cup {begun}
  <2>1. world \in Worlds /\ begun \in Nat
    BY DEF FrontInv, StoreOK
  <2>2. CASE \/ world' = [world EXCEPT !.telegram = ~@]
             \/ world' = [world EXCEPT !.cached = ~@]
             \/ world' = [world EXCEPT !.folder = ~@]
    BY <2>1, <2>2 DEF Worlds
  <2>3. CASE \E n \in {"none", "one", "many"} : \/ world' = [world EXCEPT !.chat = n]
                                                \/ world' = [world EXCEPT !.topic = n]
    BY <2>1, <2>3 DEF Worlds
  <2>4. CASE Slot.status = "completed" /\ world' = [world EXCEPT !.lost = @ \cup {begun}]
    <3>1. world.lost \cup {begun} \in SUBSET Nat
      BY <2>1 DEF Worlds
    <3> QED  BY <2>1, <2>4, <3>1 DEF Worlds
  <2> QED  BY <2>2, <2>3, <2>4 DEF WorldChanges
<1>3. ASSUME NEW s \in Surfaces PROVE RunOK(s)' /\ Current(s)' /\ Stands(s)'
  <2>1. RunOK(s) /\ run[s] \in Runs /\ Stands(s)
    BY DEF FrontInv
  <2>2. run[s].since \in Nat /\ run[s].since <= changes
    BY <2>1 DEF RunOK, Runs
  <2>3. Current(s)'
    BY <1>1, <2>2 DEF Current
  <2>4. /\ Program(s)' = Program(s) /\ (Offered(s)' <=> Offered(s)) /\ Slot' = Slot
        /\ (HasOperation' <=> HasOperation) /\ (IsBulk' <=> IsBulk) /\ Successes' = Successes
    BY <1>1, AskStays DEF Slot, HasOperation, Successes
  <2>5. run[s].since <= changes'
    BY <1>1, <2>2
  <2>6. RunOK(s)'
    BY <1>1, <2>1, <2>4, <2>5 DEF RunOK, Codes, Here
  <2>7. Executes(s) => Executes(s)'
    BY <1>1, <2>4 DEF Executes
  <2>8. Backed(s) => Backed(s)'
    BY <1>1, <1>2, <2>4 DEF Backed
  <2>9. Ok(s)' = Ok(s)
    BY DEF Ok
  <2>10. Stands(s)'
    BY <1>1, <1>2, <2>1, <2>4, <2>7, <2>8, <2>9 DEF Stands
  <2> QED  BY <2>3, <2>6, <2>10
<1>4. (changes \in 0..MaxChanges)'
  BY <1>1
<1>5. StoreOK'
  <2>1. StoreOK /\ Slot.status \in Statuses /\ Slot' = Slot
    BY <1>1, SlotStatus DEF FrontInv, Slot
  <2>2. Slot.status = "completed" => begun \in 1..begun
    BY <2>1 DEF StoreOK
  <2> QED  BY <1>1, <1>2, <2>1, <2>2 DEF StoreOK
<1> QED  BY <1>1, <1>2, <1>3, <1>4, <1>5 DEF FrontInv

LEMMA FrontInitInv == FrontInit => FrontInv
<1>1. SUFFICES ASSUME FrontInit PROVE FrontInv
  OBVIOUS
<1>2. ask \in AllAsks /\ changes = 0 /\ changes \in 0..MaxChanges
  BY <1>1, FrontAssumption DEF FrontInit
<1>3. ledger \in [{Key} -> Slots]
  <2>1. Earlier \subseteq Slots
    BY DEF Earlier, Slots
  <2> QED  BY <1>1, <2>1 DEF FrontInit
<1> DEFINE idle == [state |-> "idle", at |-> 0, since |-> 0, op |-> 0, code |-> 0, why |-> "none"]
<1>4. run = [s \in Surfaces |-> idle]
  BY <1>1 DEF FrontInit
<1>5. idle \in Runs
  BY DEF Runs
<1>6. idle.state = "idle" /\ idle.since = 0 /\ idle.op = 0 /\ idle.why = "none"
  OBVIOUS
<1> HIDE DEF idle
<1>7. run \in [Surfaces -> Runs]
  BY <1>4, <1>5
<1>8. world \in Worlds /\ world.lost = {} /\ adopted = {}
  BY <1>1 DEF FrontInit, Worlds
<1>9. begun \in Nat /\ (begun = 0 => Slot = Ledger!Free)
  BY <1>1 DEF FrontInit
<1>10. StoreOK
  BY <1>3, <1>8, <1>9, SlotStatus DEF StoreOK
<1>11. \A s \in Surfaces : RunOK(s) /\ Current(s) /\ Stands(s)
  BY <1>2, <1>4, <1>6, <1>9 DEF RunOK, Current, Stands, Serving
<1> QED  BY <1>2, <1>3, <1>7, <1>8, <1>10, <1>11 DEF FrontInv

LEMMA FrontStepInv == FrontInv /\ [FrontNext]_frontVars => FrontInv'
<1>1. SUFFICES ASSUME FrontInv, [FrontNext]_frontVars PROVE FrontInv'
  OBVIOUS
<1>2. CASE WorldChanges
  BY <1>1, <1>2, WorldChangesInv
<1>3. ASSUME NEW s \in Surfaces,
             \/ Begin(s) \/ Pass(s) \/ Refuse(s) \/ PrintPlan(s)
             \/ Claims(s) \/ Replays(s) \/ Goes(s)
             \/ TelegramChecks(s) \/ StillExists(s) \/ CheckFails(s) \/ DropStale(s) \/ Reclaim(s)
             \/ Settles(s) \/ Returns(s) \/ Raises(s) \/ OperationCommand(s)
      PROVE  FrontInv'
  BY <1>1, <1>3, BeginInv, PassInv, RefuseInv, PrintPlanInv, ClaimsInv, ReplaysInv, GoesInv,
     TelegramChecksInv, StillExistsInv, CheckFailsInv, DropStaleInv, ReclaimInv,
     SettlesInv, ReturnsInv, RaisesInv, OperationCommandInv
<1>4. CASE UNCHANGED frontVars
  <2>1. UNCHANGED <<ask, world, changes, ledger, begun, run, adopted>>
    BY <1>4 DEF frontVars
  <2>2. \A s \in Surfaces : RunOK(s)' /\ Current(s)'
    BY <1>1, <2>1, OthersStand DEF LedgerMoves
  <2>3. StoreOK' /\ \A s \in Surfaces : Stands(s)'
    <3>1. /\ Slot' = Slot /\ Successes' = Successes
          /\ (HasOperation' <=> HasOperation) /\ (IsBulk' <=> IsBulk)
      BY <2>1, AskStays DEF Slot, HasOperation, Successes
    <3> QED  BY <1>1, <2>1, <3>1 DEF FrontInv, StoreOK, Stands, Executes, Backed, Ok
  <2> QED  BY <1>1, <2>1, <2>2, <2>3 DEF FrontInv, Worlds
<1> QED  BY <1>1, <1>2, <1>3, <1>4 DEF FrontNext

------------------------------------------------------------------------------
(* What it is for. *)

\* The invariant of the doors: each run is at a stage of its program, and behind
\* it lie only stages that hold in the world the run began in.
THEOREM FrontInvariant == FrontSpec => []FrontInv
<1>1. FrontInit => FrontInv
  BY FrontInitInv
<1>2. FrontInv /\ [FrontNext]_frontVars => FrontInv'
  BY FrontStepInv
<1> QED  BY <1>1, <1>2, PTL DEF FrontSpec

LEMMA FrontInvTypes == FrontInv => FrontTypeOK
<1>1. SUFFICES ASSUME FrontInv PROVE FrontTypeOK
  OBVIOUS
<1>2. ASSUME NEW s \in Surfaces
      PROVE  /\ run[s].state \in {"idle", "checking", "verifying", "found", "gone", "reclaiming",
                                  "working", "answered"}
             /\ run[s].op \in 0..begun
             /\ run[s].state = "checking" => run[s].at \in 1..Len(Program(s))
             /\ run[s].state = "answered" =>
                   run[s].code \in IF s = "http" THEN {200, 400, 404, 409, 422, 500, 502, 503} ELSE 0..2
  <2>1. RunOK(s) /\ Stands(s) /\ run[s] \in Runs
    BY <1>1 DEF FrontInv
  <2> QED  BY <2>1 DEF RunOK, Stands, Runs, Serving, Codes
<1> QED  BY <1>1, <1>2 DEF FrontInv, StoreOK, FrontTypeOK

\* A run that got to the end of its program has passed all of it.
LEMMA EndIsPassing ==
    ASSUME FrontInv, NEW s \in Surfaces, run[s].since = changes, run[s].state # "idle",
           Here(s).kind \in {"plan", "serve"}
    PROVE  Passing(Program(s))
<1>1. /\ Offered(s) /\ run[s].at \in 1..Len(Program(s)) /\ ask \in AllAsks
      /\ \A j \in 1..(run[s].at - 1) : Holds(Program(s)[j])
  BY DEF FrontInv, RunOK, Current
<1>2. run[s].at = Len(Program(s)) /\ IsProgram(Program(s)) /\ Len(Program(s)) \in Nat
  BY <1>1, StageFacts DEF Here
<1>3. Holds(Here(s))
  BY DEF Holds
<1>4. \A j \in 1..Len(Program(s)) : Holds(Program(s)[j])
  <2>1. \A j \in 1..Len(Program(s)) : j \in 1..(run[s].at - 1) \/ j = run[s].at
    BY <1>2
  <2> QED  BY <1>1, <1>3, <2>1 DEF Here
<1>5. \A j \in 1..Len(Program(s)) : Program(s)[j] \in AnyStage
  BY <1>2, ElementOfSeq DEF IsProgram
<1> QED  BY <1>4, <1>5 DEF Passing, All

\* A run that was refused has not, and unless for want of consent not even apart
\* from that.
LEMMA RefusedIsNotPassing ==
    ASSUME FrontInv, NEW s \in Surfaces, run[s].since = changes,
           run[s].why \in {"args", "consent", "lookup"}
    PROVE  /\ ~Passing(Program(s))
           /\ run[s].why # "consent" => ~Excused(Program(s))
<1>1. /\ RunOK(s) /\ Current(s) /\ run[s].state = "answered"
      /\ run[s].at \in 1..Len(Program(s))
  BY DEF FrontInv, RunOK
<1>2. ~Holds(Here(s)) /\ (run[s].why # "consent" => Here(s).kind # "consent")
  BY <1>1 DEF Current, RunOK
<1> QED  BY <1>1, <1>2 DEF Passing, Excused, All, Here

\* Every run that checks is at a stage of its program, so no command of cli/main.py
\* and no route of http_api falls off its end, and every answer is an exit code or
\* a status that the door can give.
THEOREM DoorsAreTyped == FrontSpec => []FrontTypeOK
<1> QED  BY FrontInvariant, FrontInvTypes, PTL

LEMMA FrontInvForetells == FrontInv => DryRunForetells
<1>1. SUFFICES ASSUME FrontInv, run["dry"].why = "planned", SameWorld("dry", "live"),
                      ~NoKey(ask), Refused("live")
               PROVE  FALSE
  BY DEF DryRunForetells
<1>2. "dry" \in Surfaces /\ "live" \in Surfaces /\ ask \in AllAsks
  BY <1>1 DEF Surfaces, FrontInv
<1>3. RunOK("dry")
  BY <1>1, <1>2 DEF FrontInv
<1>4. Here("dry").kind = "plan" /\ run["dry"].state # "idle" /\ Offered("dry")
  BY <1>1, <1>3 DEF RunOK
<1>5. Passing(Program("dry"))
  BY <1>1, <1>2, <1>4, EndIsPassing DEF SameWorld
<1>6. ~Excused(Program("live"))
  BY <1>1, <1>2, RefusedIsNotPassing DEF Refused, SameWorld
<1> QED  BY <1>1, <1>2, <1>4, <1>5, <1>6, EveryRehearsal

\* What a --dry-run planned, the real command does not refuse, for any request and
\* however often the world changed before the two began.
THEOREM RehearsalsForetell == FrontSpec => []DryRunForetells
<1> QED  BY FrontInvariant, FrontInvForetells, PTL

\* A rehearsal never comes to a service, nor to an answer that a service gives.
OnlyRehearses ==
    run["dry"].state \notin Serving /\ run["dry"].why \notin {"replayed", "outcome", "done"}

LEMMA NoServiceInRehearsal ==
    ASSUME FrontInv, run["dry"].state # "idle"
    PROVE  Here("dry").kind # "serve"
<1>1. "dry" \in Surfaces /\ RunOK("dry") /\ ask \in AllAsks
  BY DEF FrontInv, Surfaces
<1>2. Offered("dry") /\ run["dry"].at \in 1..Len(Program("dry"))
  BY <1>1 DEF RunOK
<1> QED  BY <1>1, <1>2, StageFacts DEF Here

LEMMA FrontInvRehearses == FrontInv => OnlyRehearses
<1> SUFFICES ASSUME FrontInv PROVE OnlyRehearses
  OBVIOUS
<1>1. RunOK("dry")
  BY DEF FrontInv, Surfaces
<1>2. run["dry"].state = "idle" => run["dry"].why = "none"
  BY <1>1 DEF RunOK
<1> QED  BY <1>1, <1>2, NoServiceInRehearsal DEF RunOK, OnlyRehearses, Serving

LEMMA RehearsalsLeaveAlone ==
    ASSUME FrontInv, [FrontNext]_frontVars, run'["dry"] # run["dry"]
    PROVE  UNCHANGED <<world, ledger, begun>>
<1>1. /\ run \in [Surfaces -> Runs] /\ "dry" \in Surfaces
      /\ run["dry"].state # "idle" => Here("dry").kind # "serve"
      /\ run["dry"].state \notin Serving
  BY NoServiceInRehearsal, FrontInvRehearses DEF FrontInv, OnlyRehearses, Surfaces
<1>2. ASSUME NEW s \in Surfaces,
             Claims(s) \/ DropStale(s) \/ Reclaim(s) \/ Settles(s) \/ OperationCommand(s)
      PROVE  FALSE
  <2>1. s # "dry"
    BY <1>1, <1>2 DEF Claims, DropStale, Reclaim, Settles, OperationCommand, AtService, Serving
  <2>2. PICK r : run' = [run EXCEPT ![s] = r]
    BY <1>2 DEF Claims, DropStale, Reclaim, Settles, OperationCommand, Works, Answer
  <2> QED  BY <1>1, <2>1, <2>2
<1>3. ASSUME NEW s \in Surfaces,
             \/ Begin(s) \/ Pass(s) \/ Refuse(s) \/ PrintPlan(s)
             \/ Replays(s) \/ Goes(s) \/ TelegramChecks(s) \/ StillExists(s) \/ CheckFails(s)
             \/ Returns(s) \/ Raises(s)
      PROVE  UNCHANGED <<world, ledger, begun>>
  BY <1>3 DEF Begin, Pass, Refuse, PrintPlan, Replays, Goes, TelegramChecks, StillExists,
              CheckFails, Returns, Raises
<1>4. ~(WorldChanges \/ UNCHANGED frontVars)
  BY DEF WorldChanges, frontVars
<1> QED  BY <1>2, <1>3, <1>4 DEF FrontNext

\* A --dry-run calls no service and writes nothing, for any request
\* (docs/dry-run-contract.md: "must not create a persistent operation record").
THEOREM RehearsalsOnlyRehearse ==
    FrontSpec => /\ []OnlyRehearses
                 /\ [][run'["dry"] # run["dry"] => UNCHANGED <<world, ledger, begun>>]_frontVars
<1>1. FrontInv /\ [FrontNext]_frontVars =>
          [run'["dry"] # run["dry"] => UNCHANGED <<world, ledger, begun>>]_frontVars
  BY RehearsalsLeaveAlone
<1> QED  BY <1>1, FrontInvariant, FrontInvRehearses, PTL DEF FrontSpec

LEMMA FrontInvAgrees == FrontInv => SurfacesAgree
<1>1. SUFFICES ASSUME FrontInv, run["live"].state = "answered", run["http"].state = "answered",
                      SameWorld("live", "http"), ~CliOnly(ask),
                      \A s \in {"live", "http"} : run[s].why # "down",
                      ask.command = "members.bulk-remove" => ask.yes
               PROVE  TurnedAway("live") <=> TurnedAway("http")
  BY DEF SurfacesAgree
<1>2. ASSUME NEW s \in {"live", "http"} PROVE TurnedAway(s) <=> ~Passing(Program(s))
  <2>1. /\ s \in Surfaces /\ s # "dry" /\ run[s].state = "answered" /\ run[s].since = changes
        /\ run[s].why # "down"
    BY <1>1 DEF Surfaces, SameWorld
  <2>2. RunOK(s) /\ run[s] \in Runs /\ ask \in AllAsks
    BY <1>1, <2>1 DEF FrontInv
  <2>3. CASE run[s].why \in {"args", "consent", "lookup"}
    BY <1>1, <2>1, <2>3, RefusedIsNotPassing DEF TurnedAway, Refused
  <2>4. CASE run[s].why \in {"replayed", "outcome", "done"}
    <3>1. Here(s).kind = "serve"
      BY <2>2, <2>4 DEF RunOK
    <3>2. Passing(Program(s))
      BY <1>1, <2>1, <3>1, EndIsPassing
    <3> QED  BY <2>4, <3>2 DEF TurnedAway, Refused
  <2>5. run[s].why # "planned"
    <3>1. SUFFICES ASSUME Here(s).kind = "plan" PROVE FALSE
      BY <2>2 DEF RunOK
    <3>2. Offered(s) /\ run[s].at \in 1..Len(Program(s))
      BY <2>1, <2>2 DEF RunOK
    <3> QED  BY <2>1, <2>2, <3>1, <3>2, StageFacts DEF Here
  <2>6. run[s].why # "none"
    BY <2>1, <2>2 DEF RunOK
  <2> QED  BY <2>1, <2>2, <2>3, <2>4, <2>5, <2>6 DEF Runs
<1>3. Offered("http") /\ ask \in AllAsks
  BY <1>1 DEF FrontInv, RunOK, Surfaces
<1> QED  BY <1>1, <1>2, <1>3, BothDoors

\* In the same world the command line and the HTTP API turn the same requests away.
THEOREM DoorsAgree == FrontSpec => []SurfacesAgree
<1> QED  BY FrontInvariant, FrontInvAgrees, PTL

LEMMA FrontInvRecords == FrontInv => OkMeansRecorded
<1>1. SUFFICES ASSUME FrontInv, NEW s \in {"live", "http"}, run[s].state = "answered",
                      run[s].code = Ok(s), HasOperation
               PROVE  Backed(s)
  BY DEF OkMeansRecorded, HasOperation, Backed, Successes
<1>2. Stands(s) /\ s # "dry"
  BY <1>1 DEF FrontInv, Surfaces
<1> QED  BY <1>1, <1>2 DEF Stands

\* Exit code 0 or status 200, from whichever door, stands for the key's last
\* operation, recorded as completed or, for a bulk, as needing review: unless its
\* chat has been lost, or two runs executed it.
THEOREM SuccessIsRecorded == FrontSpec => []OkMeansRecorded
<1> QED  BY FrontInvRecords, FrontInvariant, PTL

\* A single operation is executed by one run at a time, its row pending all the while,
\* unless create_group adopted it: neither door takes it on while the other has it.
ExecutedAlone ==
    \A s, t \in Surfaces :
        IsSingle /\ run[s].state = "working" /\ run[s].op \notin adopted =>
            /\ run[s].op = begun /\ Slot.status = "pending"
            /\ run[t].state = "working" /\ run[t].op = run[s].op => t = s

\* begin_operation under one key gives a request at two doors one executor, until
\* create_group drops a row and does not look at what its second call returned.
THEOREM DoorsExecuteAlone == FrontSpec => []ExecutedAlone
<1>1. IsSingle => HasOperation /\ ~IsBulk
  BY DEF HasOperation, IsSingle, IsBulk, Singles, Bulks
<1>2. FrontInv => ExecutedAlone
  BY <1>1 DEF FrontInv, Stands, Executes, ExecutedAlone
<1> QED  BY <1>2, FrontInvariant, PTL

LEMMA DoorStepIsLedgerStep ==
    ASSUME [FrontNext]_frontVars
    PROVE  [Ledger!LedgerNext]_ledger
<1>1. ASSUME NEW s \in Surfaces,
             Claims(s) \/ DropStale(s) \/ Reclaim(s) \/ Settles(s) \/ OperationCommand(s)
      PROVE  Ledger!LedgerNext \/ UNCHANGED ledger
  <2>1. \/ Ledger!Claim(Key) \/ Ledger!Reopen(Key) \/ Ledger!Drop(Key) \/ UNCHANGED ledger
        \/ \E st \in Ledger!TerminalStatus : Ledger!Settle(Key, st)
    <3>1. CASE Settles(s)
      <4>1. {"completed", "needs_review"} \subseteq Ledger!TerminalStatus
        BY DEF Ledger!TerminalStatus
      <4> QED  BY <3>1, <4>1 DEF Settles
    <3> QED  BY <1>1, <3>1 DEF Claims, DropStale, Reclaim, OperationCommand
  <2> QED  BY <2>1 DEF Ledger!LedgerNext
<1>2. ASSUME NEW s \in Surfaces,
             \/ Begin(s) \/ Pass(s) \/ Refuse(s) \/ PrintPlan(s)
             \/ Replays(s) \/ Goes(s) \/ TelegramChecks(s) \/ StillExists(s) \/ CheckFails(s)
             \/ Returns(s) \/ Raises(s)
      PROVE  UNCHANGED ledger
  BY <1>2 DEF Begin, Pass, Refuse, PrintPlan, Replays, Goes, TelegramChecks, StillExists,
              CheckFails, Returns, Raises
<1>3. CASE WorldChanges \/ UNCHANGED frontVars
  BY <1>3 DEF WorldChanges, frontVars
<1> QED  BY <1>1, <1>2, <1>3 DEF FrontNext

\* Both doors and the rehearsal reach the store by the steps of the ledger alone,
\* the interface that OperationStore implements: what a request finds at one door
\* is what the ledger of its key allows, whoever came before it at the other.
THEOREM DoorsUseLedger == FrontSpec => [][Ledger!LedgerNext]_ledger
<1> QED  BY DoorStepIsLedgerStep, PTL DEF FrontSpec

\* When no earlier request left an operation they are an implementation of the
\* whole ledger: it starts free.
THEOREM DoorsImplementLedger ==
    FrontSpec => (Slot = Ledger!Free => Ledger!LedgerSpec)
<1>1. FrontInit /\ Slot = Ledger!Free => Ledger!LedgerInit
  BY DEF FrontInit, Slot, Ledger!LedgerInit
<1> QED  BY <1>1, DoorsUseLedger, PTL DEF FrontSpec, Ledger!LedgerSpec
==============================================================================
