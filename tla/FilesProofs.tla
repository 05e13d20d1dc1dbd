----------------------------- MODULE FilesProofs -----------------------------
(***************************************************************************)
(* Theorems about module Files, for every set of names and contents and    *)
(* every number of calls, whatever user code does meanwhile:               *)
(*                                                                         *)
(*   TypeCorrect          the type invariant;                              *)
(*   WritesAreKept        an acknowledged write is in the file;            *)
(*   ReadsReturnWrites    a read returns it;                               *)
(*   ListingsAreExact     a listing is complete and names nothing else.    *)
(*                                                                         *)
(* They rest on each inode having one name: a script that writes through   *)
(* an inode whose name was taken from it writes to no name anyone knows.   *)
(***************************************************************************)
EXTENDS Files, TLAPS

USE FilesAssumption

(***************************************************************************)
(* The inductive invariant                                                 *)
(***************************************************************************)

\* Where the script of each call is.
CallInv ==
    /\ pc # "idle" => report.kind = "none"
    /\ pc \in {"mkdir", "create", "write"} => op = "write"
    /\ pc \in {"open", "read"} => op = "read"
    /\ pc \in {"listdir", "stat"} => op = "list"
    /\ pc = "exists" => op # "write"
    /\ pc \notin {"write", "read"} => buf = <<>>
    /\ pc # "stat" => sizes = <<>>
    /\ pc # "idle" /\ op = "write" => name \notin DOMAIN known

\* An inode has one name at most.
DiskInv ==
    /\ \A m, n \in Name : inode[m] = inode[n] /\ inode[m] # None => m = n
    /\ \A n \in Name : inode[n] <= made
    /\ ~dir => \A n \in Name : inode[n] = None

\* What is known was written by a client.
KnownInv ==
    /\ \A n \in DOMAIN known : \E t \in Text : known[n] = <<t, t>>
    /\ KnownHolds

\* The script writes to no inode whose content is known.
WriteInv ==
    pc = "write" =>
        /\ \A n \in DOMAIN known : inode[n] # fd
        /\ buf \in {<<>>, <<text>>}
        /\ name \notin touched => inode[name] = fd /\ bytes[fd] = buf

\* What it has read of a known file is how that file begins.
ReadInv ==
    pc = "read" /\ name \in DOMAIN known =>
        /\ fd = inode[name] /\ Len(buf) <= Len(bytes[fd])
        /\ \A i \in 1..Len(buf) : buf[i] = bytes[fd][i]

\* What it has listed so far, and what it has still to look at.
ListInv ==
    /\ \A n \in always : inode[n] # None
    /\ \A n \in Name : inode[n] # None => n \in ever
    /\ pc = "stat" => /\ always \subseteq todo \cup DOMAIN sizes
                      /\ todo \cup DOMAIN sizes \subseteq ever
                      /\ \A n \in DOMAIN sizes \cap DOMAIN known : sizes[n] = Len(known[n])

IInv == TypeOK /\ CallInv /\ DiskInv /\ KnownInv /\ WriteInv /\ ReadInv /\ ListInv
        /\ RoundTrip /\ ListExact

\* It holds at the start.
LEMMA Initially == Init => IInv
  <1> SUFFICES ASSUME Init PROVE IInv
    OBVIOUS
  <1>1. <<>> \in Content
    BY DEF Content
  <1>2. TypeOK
    BY <1>1 DEF Init, TypeOK, ScriptPC, Op, ReportKind, NoReport, Ino, None
  <1>3. CallInv /\ DiskInv /\ KnownInv /\ WriteInv /\ ReadInv /\ ListInv /\ RoundTrip /\ ListExact
    BY DEF Init, NoReport, CallInv, DiskInv, KnownInv, KnownHolds, WriteInv, ReadInv,
           ListInv, RoundTrip, ListExact, None
  <1> QED
    BY <1>2, <1>3 DEF IInv

(***************************************************************************)
(* What the steps that touch an inode do                                   *)
(***************************************************************************)

\* A script that is done leaves nothing of itself behind.
LEMMA Finishes ==
    ASSUME IInv, NEW k \in ReportKind, NEW d, NEW s, Finish(k, d, s)
    PROVE  /\ pc' \in ScriptPC /\ op' \in Op /\ name' \in Name /\ text' \in Text
           /\ fd' = None /\ buf' \in Content /\ todo' \subseteq Name
           /\ pc' = "idle" /\ report'.kind \in ReportKind
  BY DEF Finish, IInv, TypeOK, ScriptPC, Content

\* Opening a file for writing empties one inode, that of the name, and no
\* other name leads there.
LEMMA Opens ==
    ASSUME IInv, OpenToWrite
    PROVE  /\ fd' \in 1..made' /\ made' \in 0..MaxInodes /\ made <= made'
           /\ inode' \in [Name -> Ino \cup {None}] /\ inode'[name] = fd'
           /\ \A n \in Name \ {name} : inode'[n] = inode[n] /\ inode[n] # fd'
           /\ bytes' \in [Ino -> Content] /\ bytes'[fd'] = <<>>
           /\ \A i \in Ino \ {fd'} : bytes'[i] = bytes[i]
  <1>1. TypeOK /\ DiskInv /\ name \in Name
    BY DEF IInv, TypeOK
  <1>2. CASE inode[name] # None
    <2>1. fd' = inode[name] /\ inode' = inode /\ made' = made
      BY <1>2 DEF OpenToWrite
    <2> QED
      BY <1>1, <1>2, <2>1 DEF OpenToWrite, TypeOK, DiskInv, Ino, None, Content
  <1>3. CASE inode[name] = None
    <2>1. /\ made < MaxInodes /\ made' = made + 1 /\ fd' = made + 1
          /\ inode' = [inode EXCEPT ![name] = made + 1]
      BY <1>3 DEF OpenToWrite
    <2>2. made + 1 \in Ino /\ \A n \in Name : inode[n] # made + 1
      BY <1>1, <2>1 DEF TypeOK, DiskInv, Ino
    <2> QED
      BY <1>1, <2>1, <2>2 DEF OpenToWrite, TypeOK, Ino, Content
  <1> QED
    BY <1>2, <1>3

\* Contents are the functions on 1..n for n up to 2.
LEMMA ContentIs ==
    /\ \A c \in Content : Len(c) \in 0..2 /\ c \in [1..Len(c) -> Text \cup Blob]
    /\ \A n \in 0..2 : [1..n -> Text \cup Blob] \subseteq Content
  <1>1. ASSUME NEW c \in Content
        PROVE  Len(c) \in 0..2 /\ c \in [1..Len(c) -> Text \cup Blob]
    <2>1. c \in Seq(Text \cup Blob) /\ Len(c) <= 2
      BY DEF Content
    <2>2. Len(c) \in Nat /\ c \in [1..Len(c) -> Text \cup Blob]
      BY <2>1
    <2>3. \A n \in Nat : n <= 2 => n \in 0..2
      OBVIOUS
    <2> QED
      BY <2>1, <2>2, <2>3
  <1>2. ASSUME NEW n \in 0..2, NEW w \in [1..n -> Text \cup Blob]
        PROVE  w \in Content
    <2>1. w \in Seq(Text \cup Blob) /\ Len(w) = n
      OBVIOUS
    <2> QED
      BY <2>1 DEF Content
  <1> QED
    BY <1>1, <1>2

\* A piece that is written leaves a content of at most two pieces, and where
\* nobody interferes the pieces are the client's.
LEMMA Writes ==
    ASSUME IInv, WritePiece
    PROVE  /\ Written \in Content /\ fd \in Ino
           /\ bytes' = [bytes EXCEPT ![fd] = Written]
           /\ name \notin touched /\ buf = <<>> => Written = <<text>>
           /\ name \notin touched /\ buf = <<text>> => Written = <<text, text>>
  <1>1. /\ fd \in Ino /\ bytes[fd] \in Content /\ buf \in {<<>>, <<text>>}
        /\ text \in Text
        /\ name \notin touched => bytes[fd] = buf
    <2>1. pc = "write" /\ TypeOK /\ WriteInv
      BY DEF WritePiece, At, IInv
    <2> QED
      BY <2>1 DEF TypeOK, WriteInv, Ino
  <1>2. PICK n \in 0..2 : bytes[fd] \in [1..n -> Text \cup Blob]
    BY <1>1, ContentIs
  <1> DEFINE at == Len(buf) + 1
  <1>3. at = 1 \/ at = 2
    <2>1. Len(<<>>) + 1 = 1 /\ Len(<<text>>) + 1 = 2
      OBVIOUS
    <2> QED
      BY <1>1, <2>1
  <1>4. PICK k \in 0..2 : 1..at \cup 1..n = 1..k
    <2> HIDE DEF at
    <2>1. CASE n <= at
      <3>1. 1..at \cup 1..n = 1..at /\ at \in 0..2
        BY <1>3, <2>1
      <3> QED
        BY <3>1
    <2>2. CASE ~(n <= at)
      <3>1. 1..at \cup 1..n = 1..n
        BY <1>3, <2>2
      <3> QED
        BY <3>1
    <2> QED
      BY <2>1, <2>2
  <1>5. Written \in [1..k -> Text \cup Blob]
    <2>1. DOMAIN bytes[fd] = 1..n /\ \A i \in 1..n : bytes[fd][i] \in Text \cup Blob
      BY <1>2
    <2>2. Written = [i \in 1..k |-> IF i = at \/ i \notin 1..n THEN text ELSE bytes[fd][i]]
      BY <1>4, <2>1 DEF Written
    <2>3. \A i \in 1..k : (IF i = at \/ i \notin 1..n THEN text ELSE bytes[fd][i]) \in Text \cup Blob
      BY <1>1, <2>1
    <2> QED
      BY <2>2, <2>3
  <1>6. ASSUME name \notin touched, buf = <<>>
        PROVE  Written = <<text>>
    <2>1. Written = [i \in 1..1 |-> text]
      <3>1. DOMAIN bytes[fd] = {} /\ Len(buf) + 1 = 1 /\ 1..1 \cup {} = 1..1
        <4>1. bytes[fd] = <<>>
          BY <1>1, <1>6
        <4>2. DOMAIN bytes[fd] = {}
          BY <4>1
        <4> QED
          BY <1>6, <4>2
      <3> QED
        BY <3>1 DEF Written
    <2> QED
      BY <2>1
  <1>7. ASSUME name \notin touched, buf = <<text>>
        PROVE  Written = <<text, text>>
    <2>1. Written = [i \in 1..2 |-> text]
      <3>1. DOMAIN bytes[fd] = {1} /\ bytes[fd][1] = text /\ Len(buf) + 1 = 2
        <4>1. bytes[fd] = <<text>>
          BY <1>1, <1>7
        <4>2. DOMAIN <<text>> = {1} /\ <<text>>[1] = text /\ Len(<<text>>) + 1 = 2
          OBVIOUS
        <4> QED
          BY <1>7, <4>1, <4>2
      <3>2. 1..2 \cup {1} = 1..2 /\ \A i \in 1..2 : i = 2 \/ i = 1
        OBVIOUS
      <3> QED
        BY <3>1, <3>2 DEF Written
    <2> QED
      BY <2>1
  <1> QED
    BY <1>1, <1>5, <1>6, <1>7, ContentIs DEF WritePiece

\* What user code writes goes into the inode of one name.
LEMMA UserOpens ==
    ASSUME IInv, NEW n \in Name, NEW c \in UserContent, UserWrites(n, c)
    PROVE  /\ made' \in 0..MaxInodes /\ made <= made' /\ inode'[n] \in 1..made'
           /\ inode' \in [Name -> Ino \cup {None}]
           /\ \A m \in Name \ {n} : inode'[m] = inode[m] /\ inode[m] # inode'[n]
           /\ bytes' \in [Ino -> Content]
           /\ \A i \in Ino \ {inode'[n]} : bytes'[i] = bytes[i]
  <1>1. TypeOK /\ DiskInv
    BY DEF IInv
  <1>c. c \in Content
    <2>1. c = <<>> \/ \E b \in Text \cup Blob : c = <<b, b>>
      BY DEF UserContent
    <2>2. \A b \in Text \cup Blob : <<b, b>> \in [1..2 -> Text \cup Blob]
      OBVIOUS
    <2>3. <<>> \in [1..0 -> Text \cup Blob] /\ 0 \in 0..2 /\ 2 \in 0..2
      OBVIOUS
    <2> QED
      BY <2>1, <2>2, <2>3, ContentIs
  <1>2. CASE inode[n] # None
    <2>1. inode' = inode /\ made' = made
      BY <1>2 DEF UserWrites
    <2> QED
      BY <1>1, <1>c, <1>2, <2>1 DEF UserWrites, TypeOK, DiskInv, Ino, None
  <1>3. CASE inode[n] = None
    <2>1. made < MaxInodes /\ made' = made + 1 /\ inode' = [inode EXCEPT ![n] = made + 1]
      BY <1>3 DEF UserWrites
    <2>2. made + 1 \in Ino /\ \A m \in Name : inode[m] # made + 1
      BY <1>1, <2>1 DEF TypeOK, DiskInv, Ino
    <2> QED
      BY <1>1, <1>c, <2>1, <2>2 DEF UserWrites, TypeOK, Ino
  <1> QED
    BY <1>2, <1>3

\* Where one name gets an inode no other name has, and others lose theirs at
\* most, an inode still has one name.
LEMMA NamesDiffer ==
    ASSUME DiskInv, NEW k \in Name,
           \A n \in Name \ {k} :
               inode'[n] = None \/ (inode'[n] = inode[n] /\ inode[n] # inode'[k])
    PROVE  \A m, n \in Name : inode'[m] = inode'[n] /\ inode'[m] # None => m = n
  <1> SUFFICES ASSUME NEW m \in Name, NEW n \in Name, inode'[m] = inode'[n], inode'[m] # None
               PROVE  m = n
    OBVIOUS
  <1>1. CASE m # k /\ n # k
    BY <1>1 DEF DiskInv
  <1>2. CASE m = k \/ n = k
    BY <1>2
  <1> QED
    BY <1>1, <1>2

(***************************************************************************)
(* Every step keeps the invariant                                          *)
(***************************************************************************)

\* Every step keeps the types.
LEMMA TypesKept == IInv /\ [Next]_vars => TypeOK'
  <1> SUFFICES ASSUME IInv, [Next]_vars
               PROVE  TypeOK'
    OBVIOUS
  <1> USE DEF IInv, Content, TypeOK, CallInv, DiskInv, WriteInv, ScriptPC,
              Op, ReportKind, Ino, None,
              diskVars, scriptVars, historyVars
  <1>1. ASSUME NEW o \in Op, NEW n \in Name, NEW t \in Text, Begin(o, n, t)
        PROVE  TypeOK'
    BY <1>1 DEF Begin, Forget, NoReport, Present
  <1>2. CASE ExecRaises \/ ScriptFails
    <2>1. {"error", "raised"} \subseteq ReportKind
      OBVIOUS
    <2> QED
      BY <1>2, <2>1, Finishes DEF ExecRaises, ScriptFails
  <1>3. CASE StartScript \/ MakeDirs
    BY <1>3 DEF StartScript, MakeDirs, At
  <1>4. CASE OpenToWrite
    BY <1>4, Opens DEF OpenToWrite
  <1>5. CASE WritePiece
    <2>1. bytes' \in [Ino -> Content] /\ fd \in 1..made
      BY <1>5, Writes DEF WritePiece, At
    <2>2. CASE Acknowledge
      <3>1. "success" \in ReportKind /\ <<text, text>> \in Content
        BY ContentIs
      <3>2. DOMAIN known' \subseteq Name /\ \A n \in DOMAIN known' : known'[n] \in Content
        BY <2>2, <3>1 DEF Acknowledge, With
      <3> QED
        BY <1>5, <2>1, <2>2, <3>1, <3>2, Finishes DEF WritePiece, Acknowledge
    <2>3. CASE buf' = <<text>> /\ UNCHANGED <<pc, op, name, text, fd, todo, sizes, report, known>>
      <3>1. <<text>> \in Content
        BY ContentIs
      <3> QED
        BY <1>5, <2>1, <2>3, <3>1 DEF WritePiece, At
    <2> QED
      BY <1>5, <2>2, <2>3 DEF WritePiece
  <1>6. CASE CheckExists
    <2>1. CASE \E k \in ReportKind : Finish(k, <<>>, <<>>)
      BY <1>6, <2>1, Finishes DEF CheckExists
    <2>2. CASE ~\E k \in ReportKind : Finish(k, <<>>, <<>>)
      BY <1>6, <2>2 DEF CheckExists, At
    <2> QED
      BY <2>1, <2>2
  <1>7. CASE OpenToRead
    BY <1>7 DEF OpenToRead, At
  <1>8. CASE ReadPiece
    <2>1. CASE Len(buf) < Len(bytes[fd])
      <3>1. /\ buf' = Append(buf, bytes[fd][Len(buf) + 1])
            /\ buf \in Content /\ bytes[fd] \in Content
        BY <1>8, <2>1 DEF ReadPiece, At
      <3>2. /\ buf \in Seq(Text \cup Blob) /\ bytes[fd] \in Seq(Text \cup Blob)
            /\ Len(bytes[fd]) <= 2 /\ Len(buf) \in Nat /\ Len(bytes[fd]) \in Nat
        BY <3>1
      <3>3. bytes[fd][Len(buf) + 1] \in Text \cup Blob
        BY <2>1, <3>2
      <3>4. buf' \in Seq(Text \cup Blob) /\ Len(buf') = Len(buf) + 1
        BY <3>1, <3>2, <3>3
      <3>5. buf' \in Content
        BY <2>1, <3>2, <3>4
      <3> QED
        BY <1>8, <2>1, <3>5 DEF ReadPiece, At
    <2>2. CASE Finish(Decoded(buf), buf, <<>>)
      <3>1. Decoded(buf) \in ReportKind
        BY DEF Decoded
      <3> QED
        BY <1>8, <2>2, <3>1, Finishes DEF ReadPiece
    <2> QED
      BY <1>8, <2>1, <2>2 DEF ReadPiece
  <1>9. CASE ListDir
    BY <1>9 DEF ListDir, At, Present
  <1>10. CASE PrintListing
    BY <1>10 DEF PrintListing, At, Finish
  <1>11. ASSUME NEW n \in Name, StatName(n)
        PROVE  TypeOK'
    BY <1>11 DEF StatName, At, With, File
  <1>12. ASSUME NEW n \in Name, NEW c \in UserContent, UserWrites(n, c)
        PROVE  TypeOK'
    <2>1. /\ DOMAIN known' \subseteq Name /\ \A m \in DOMAIN known' : known'[m] \in Content
          /\ touched' \subseteq Name /\ always' \subseteq ever' /\ ever' \subseteq Name
      BY <1>12, UserOpens DEF UserWrites, Touches, Forget
    <2>2. fd' \in IF pc' \in {"read", "write"} THEN 1..made' ELSE {None}
      BY <1>12, UserOpens DEF UserWrites
    <2> QED
      BY <1>12, <2>1, <2>2, UserOpens DEF UserWrites
  <1>13. ASSUME NEW n \in Name, UserRemoves(n)
        PROVE  TypeOK'
    BY <1>13 DEF UserRemoves, Touches, Forget
  <1>14. ASSUME NEW m \in Name, NEW n \in Name, UserRenames(m, n)
        PROVE  TypeOK'
    BY <1>14 DEF UserRenames, Touches, Forget
  <1>15. CASE UserRemovesDir \/ ContainerDies \/ UNCHANGED vars
    BY <1>15 DEF UserRemovesDir, ContainerDies, Present, vars
  <1> QED
    BY <1>1, <1>2, <1>3, <1>4, <1>5, <1>6, <1>7, <1>8, <1>9, <1>10, <1>11, <1>12, <1>13,
       <1>14, <1>15
    DEF Next, ScriptStep, Environment

\* A script takes the steps of its call and of no other.
LEMMA CallKept == IInv /\ [Next]_vars => CallInv'
  <1> SUFFICES ASSUME IInv, [Next]_vars
               PROVE  CallInv'
    OBVIOUS
  <1> USE DEF IInv, Content, TypeOK, CallInv, ScriptPC, Op, None,
              diskVars, scriptVars, historyVars
  <1>1. ASSUME NEW o \in Op, NEW n \in Name, NEW t \in Text, Begin(o, n, t)
        PROVE  CallInv'
    BY <1>1 DEF Begin, Forget, NoReport, Present
  <1>2. CASE ExecRaises \/ ScriptFails \/ StartScript \/ MakeDirs
    BY <1>2 DEF ExecRaises, ScriptFails, Finish, StartScript, MakeDirs, At
  <1>3. CASE OpenToWrite
    BY <1>3 DEF OpenToWrite, At
  <1>4. CASE WritePiece
    BY <1>4 DEF WritePiece, At, Acknowledge, Finish, With, Written
  <1>5. CASE CheckExists \/ OpenToRead
    BY <1>5 DEF CheckExists, At, Finish, OpenToRead
  <1>6. CASE ReadPiece
    BY <1>6 DEF ReadPiece, At, Finish, Decoded
  <1>7. CASE ListDir \/ PrintListing
    BY <1>7 DEF ListDir, At, Present, PrintListing, Finish
  <1>8. ASSUME NEW n \in Name, StatName(n)
        PROVE  CallInv'
    BY <1>8 DEF StatName, At, With, File
  <1>9. ASSUME NEW n \in Name, NEW c \in UserContent, UserWrites(n, c)
        PROVE  CallInv'
    BY <1>9 DEF UserWrites, Touches, Forget
  <1>10. ASSUME NEW n \in Name, UserRemoves(n)
        PROVE  CallInv'
    BY <1>10 DEF UserRemoves, Touches, Forget
  <1>11. ASSUME NEW m \in Name, NEW n \in Name, UserRenames(m, n)
        PROVE  CallInv'
    BY <1>11 DEF UserRenames, Touches, Forget
  <1>12. CASE UserRemovesDir \/ ContainerDies \/ UNCHANGED vars
    BY <1>12 DEF UserRemovesDir, ContainerDies, Present, vars
  <1> QED
    BY <1>1, <1>2, <1>3, <1>4, <1>5, <1>6, <1>7, <1>8, <1>9, <1>10, <1>11, <1>12
    DEF Next, ScriptStep, Environment

\* Nothing gives an inode a second name.
LEMMA DiskKept == IInv /\ [Next]_vars => DiskInv'
  <1> SUFFICES ASSUME IInv, [Next]_vars
               PROVE  DiskInv'
    OBVIOUS
  <1> USE DEF IInv, Content, TypeOK, CallInv, DiskInv, Ino, None,
              diskVars, scriptVars, historyVars
  <1>1. ASSUME NEW o \in Op, NEW n \in Name, NEW t \in Text, Begin(o, n, t)
        PROVE  DiskInv'
    BY <1>1 DEF Begin, Forget, NoReport, Present
  <1>2. CASE ExecRaises \/ ScriptFails \/ StartScript \/ MakeDirs
    BY <1>2 DEF ExecRaises, ScriptFails, Finish, StartScript, MakeDirs, At
  <1>3. CASE OpenToWrite
    <2>1. /\ \A n \in Name \ {name} : inode'[n] = inode[n] /\ inode[n] # inode'[name]
          /\ inode'[name] \in 1..made' /\ made' \in Nat /\ made <= made' /\ name \in Name
      BY <1>3, Opens
    <2>2. \A m, n \in Name : inode'[m] = inode'[n] /\ inode'[m] # None => m = n
      <3> DiskInv
        OBVIOUS
      <3> PICK k \in Name : k = name
        BY <2>1
      <3> HIDE DEF DiskInv, TypeOK, CallInv, IInv, None
      <3> QED
        BY <2>1, NamesDiffer
    <2>3. \A n \in Name : inode'[n] <= made'
      <3>1. \A n \in Name : inode[n] \in Nat /\ inode[n] <= made /\ made \in Nat
        OBVIOUS
      <3>2. inode'[name] <= made'
        BY <2>1
      <3>3. \A n \in Name \ {name} : inode'[n] <= made'
        BY <2>1, <3>1
      <3> QED
        BY <3>2, <3>3
    <2> QED
      BY <1>3, <2>2, <2>3 DEF OpenToWrite
  <1>4. CASE WritePiece
    BY <1>4 DEF WritePiece, At, Acknowledge, Finish, With, Written
  <1>5. CASE CheckExists \/ OpenToRead
    BY <1>5 DEF CheckExists, At, Finish, OpenToRead
  <1>6. CASE ReadPiece
    BY <1>6 DEF ReadPiece, At, Finish, Decoded
  <1>7. CASE ListDir \/ PrintListing
    BY <1>7 DEF ListDir, At, Present, PrintListing, Finish
  <1>8. ASSUME NEW n \in Name, StatName(n)
        PROVE  DiskInv'
    BY <1>8 DEF StatName, At, With, File
  <1>9. ASSUME NEW n \in Name, NEW c \in UserContent, UserWrites(n, c)
        PROVE  DiskInv'
    <2>1. /\ \A m \in Name \ {n} : inode'[m] = inode[m] /\ inode[m] # inode'[n]
          /\ inode'[n] \in 1..made' /\ made' \in Nat /\ made <= made'
      BY <1>9, UserOpens
    <2>2. \A k, m \in Name : inode'[k] = inode'[m] /\ inode'[k] # None => k = m
      BY <2>1, NamesDiffer
    <2>3. \A m \in Name : inode'[m] <= made'
      <3>1. \A m \in Name : inode[m] \in Nat /\ inode[m] <= made /\ made \in Nat
        OBVIOUS
      <3> QED
        BY <2>1, <3>1
    <2> QED
      BY <1>9, <2>2, <2>3 DEF UserWrites
  <1>10. ASSUME NEW n \in Name, UserRemoves(n)
        PROVE  DiskInv'
    BY <1>10 DEF UserRemoves, Touches, Forget
  <1>11. ASSUME NEW m \in Name, NEW n \in Name, UserRenames(m, n)
        PROVE  DiskInv'
    <2>1. /\ \A k \in Name \ {m, n} : inode'[k] = inode[k] /\ inode[k] # inode[m]
          /\ inode'[m] = None /\ inode'[n] = inode[m]
      BY <1>11 DEF UserRenames
    <2>2. \A j, k \in Name : inode'[j] = inode'[k] /\ inode'[j] # None => j = k
      <3> DiskInv
        OBVIOUS
      <3> HIDE DEF DiskInv, TypeOK, CallInv, IInv, None
      <3>1. \A k \in Name \ {n} :
                inode'[k] = None \/ (inode'[k] = inode[k] /\ inode[k] # inode'[n])
        BY <2>1
      <3> QED
        BY <3>1, NamesDiffer
    <2>3. \A k \in Name : inode'[k] <= made'
      <3>1. \A k \in Name : inode[k] <= made /\ None <= made
        OBVIOUS
      <3> QED
        BY <1>11, <2>1, <3>1 DEF UserRenames
    <2>4. ~dir' => \A k \in Name : inode'[k] = None
      BY <1>11, <2>1 DEF UserRenames
    <2> QED
      BY <2>2, <2>3, <2>4
  <1>12. CASE UserRemovesDir \/ ContainerDies \/ UNCHANGED vars
    BY <1>12 DEF UserRemovesDir, ContainerDies, Present, vars
  <1> QED
    BY <1>1, <1>2, <1>3, <1>4, <1>5, <1>6, <1>7, <1>8, <1>9, <1>10, <1>11, <1>12
    DEF Next, ScriptStep, Environment

\* What is known is not written to.
LEMMA KnownKept == IInv /\ [Next]_vars => KnownInv'
  <1> SUFFICES ASSUME IInv, [Next]_vars
               PROVE  KnownInv'
    OBVIOUS
  <1> USE DEF IInv, Content, TypeOK, CallInv, DiskInv, KnownInv, KnownHolds,
              File, WriteInv, Ino, None,
              diskVars, scriptVars, historyVars
  <1>1. ASSUME NEW o \in Op, NEW n \in Name, NEW t \in Text, Begin(o, n, t)
        PROVE  KnownInv'
    BY <1>1 DEF Begin, Forget, NoReport, Present
  <1>2. CASE ExecRaises \/ ScriptFails \/ StartScript \/ MakeDirs
    BY <1>2 DEF ExecRaises, ScriptFails, Finish, StartScript, MakeDirs, At
  <1>3. CASE OpenToWrite
    BY <1>3, Opens DEF OpenToWrite, At
  <1>4. CASE WritePiece
    <2>1. \A n \in DOMAIN known : inode'[n] = inode[n] /\ bytes'[inode[n]] = bytes[inode[n]]
      BY <1>4, Writes DEF WritePiece, At
    <2>2. CASE Acknowledge /\ name \notin touched /\ buf = <<text>>
      <3>1. inode'[name] # None /\ bytes'[inode'[name]] = <<text, text>>
        BY <1>4, <2>2, Writes DEF WritePiece, At
      <3> QED
        BY <2>1, <2>2, <3>1 DEF Acknowledge, With
    <2>3. CASE known' = known
      BY <2>1, <2>3
    <2>4. buf = <<>> \/ buf = <<text>>
      BY <1>4 DEF WritePiece, At
    <2>5. Len(<<>>) # 1
      OBVIOUS
    <2> QED
      BY <1>4, <2>2, <2>3, <2>4, <2>5 DEF WritePiece, Acknowledge
  <1>5. CASE CheckExists \/ OpenToRead
    BY <1>5 DEF CheckExists, At, Finish, OpenToRead
  <1>6. CASE ReadPiece
    BY <1>6 DEF ReadPiece, At, Finish, Decoded
  <1>7. CASE ListDir \/ PrintListing
    BY <1>7 DEF ListDir, At, Present, PrintListing, Finish
  <1>8. ASSUME NEW n \in Name, StatName(n)
        PROVE  KnownInv'
    BY <1>8 DEF StatName, At, With, File
  <1>9. ASSUME NEW n \in Name, NEW c \in UserContent, UserWrites(n, c)
        PROVE  KnownInv'
    BY <1>9 DEF UserWrites, Touches, Forget
  <1>10. ASSUME NEW n \in Name, UserRemoves(n)
        PROVE  KnownInv'
    BY <1>10 DEF UserRemoves, Touches, Forget
  <1>11. ASSUME NEW m \in Name, NEW n \in Name, UserRenames(m, n)
        PROVE  KnownInv'
    BY <1>11 DEF UserRenames, Touches, Forget
  <1>12. CASE UserRemovesDir \/ ContainerDies \/ UNCHANGED vars
    BY <1>12 DEF UserRemovesDir, ContainerDies, Present, vars
  <1> QED
    BY <1>1, <1>2, <1>3, <1>4, <1>5, <1>6, <1>7, <1>8, <1>9, <1>10, <1>11, <1>12
    DEF Next, ScriptStep, Environment

\* A script that writes has its inode to itself, or under a name that is touched.
LEMMA WriteKept == IInv /\ [Next]_vars => WriteInv'
  <1> SUFFICES ASSUME IInv, [Next]_vars
               PROVE  WriteInv'
    OBVIOUS
  <1> USE DEF IInv, Content, TypeOK, CallInv, DiskInv, KnownInv, KnownHolds,
              File, WriteInv, Ino, None,
              diskVars, scriptVars, historyVars
  <1>1. ASSUME NEW o \in Op, NEW n \in Name, NEW t \in Text, Begin(o, n, t)
        PROVE  WriteInv'
    BY <1>1 DEF Begin, Forget, NoReport, Present
  <1>2. CASE ExecRaises \/ ScriptFails \/ StartScript \/ MakeDirs
    BY <1>2 DEF ExecRaises, ScriptFails, Finish, StartScript, MakeDirs, At
  <1>3. CASE OpenToWrite
    BY <1>3, Opens DEF OpenToWrite, At
  <1>4. CASE WritePiece
    <2>1. CASE Acknowledge
      BY <2>1 DEF Acknowledge, Finish
    <2>2. CASE ~Acknowledge
      <3>1. buf = <<>> /\ buf' = <<text>> /\ UNCHANGED <<text, fd, name, known, touched, inode>>
        BY <1>4, <2>2 DEF WritePiece, At
      <3>2. name \notin touched => bytes'[fd] = <<text>>
        BY <1>4, <3>1, Writes DEF WritePiece
      <3> QED
        BY <1>4, <3>1, <3>2 DEF WritePiece, At
    <2> QED
      BY <2>1, <2>2
  <1>5. CASE CheckExists \/ OpenToRead
    BY <1>5 DEF CheckExists, At, Finish, OpenToRead
  <1>6. CASE ReadPiece
    BY <1>6 DEF ReadPiece, At, Finish, Decoded
  <1>7. CASE ListDir \/ PrintListing
    BY <1>7 DEF ListDir, At, Present, PrintListing, Finish
  <1>8. ASSUME NEW n \in Name, StatName(n)
        PROVE  WriteInv'
    BY <1>8 DEF StatName, At, With, File
  <1>9. ASSUME NEW n \in Name, NEW c \in UserContent, UserWrites(n, c)
        PROVE  WriteInv'
    BY <1>9 DEF UserWrites, Touches, Forget
  <1>10. ASSUME NEW n \in Name, UserRemoves(n)
        PROVE  WriteInv'
    BY <1>10 DEF UserRemoves, Touches, Forget
  <1>11. ASSUME NEW m \in Name, NEW n \in Name, UserRenames(m, n)
        PROVE  WriteInv'
    BY <1>11 DEF UserRenames, Touches, Forget
  <1>12. CASE UserRemovesDir \/ ContainerDies \/ UNCHANGED vars
    BY <1>12 DEF UserRemovesDir, ContainerDies, Present, vars
  <1> QED
    BY <1>1, <1>2, <1>3, <1>4, <1>5, <1>6, <1>7, <1>8, <1>9, <1>10, <1>11, <1>12
    DEF Next, ScriptStep, Environment

\* A file that is known does not change while it is read.
LEMMA ReadKept == IInv /\ [Next]_vars => ReadInv'
  <1> SUFFICES ASSUME IInv, [Next]_vars
               PROVE  ReadInv'
    OBVIOUS
  <1> USE DEF IInv, Content, TypeOK, CallInv, DiskInv, KnownInv, KnownHolds,
              File, ReadInv, Ino, None,
              diskVars, scriptVars, historyVars
  <1>1. ASSUME NEW o \in Op, NEW n \in Name, NEW t \in Text, Begin(o, n, t)
        PROVE  ReadInv'
    BY <1>1 DEF Begin, Forget, NoReport, Present
  <1>2. CASE ExecRaises \/ ScriptFails \/ StartScript \/ MakeDirs
    BY <1>2 DEF ExecRaises, ScriptFails, Finish, StartScript, MakeDirs, At
  <1>3. CASE OpenToWrite
    BY <1>3 DEF OpenToWrite, At
  <1>4. CASE WritePiece
    BY <1>4 DEF WritePiece, At, Acknowledge, Finish, With, Written
  <1>5. CASE CheckExists \/ OpenToRead
    BY <1>5 DEF CheckExists, At, Finish, OpenToRead
  <1>6. CASE ReadPiece
    <2>1. CASE Finish(Decoded(buf), buf, <<>>)
      BY <2>1 DEF Finish
    <2>2. CASE /\ Len(buf) < Len(bytes[fd]) /\ buf' = Append(buf, bytes[fd][Len(buf) + 1])
               /\ UNCHANGED <<pc, name, fd, known, inode, bytes>>
      <3>1. Len(buf') = Len(buf) + 1 /\ Len(buf) \in Nat
        BY <1>6, <2>2 DEF ReadPiece, At
      <3>2. \A i \in 1..Len(buf') : buf'[i] = IF i = Len(buf) + 1 THEN bytes[fd][i] ELSE buf[i]
        BY <1>6, <2>2, <3>1 DEF ReadPiece, At
      <3> QED
        BY <2>2, <3>1, <3>2
    <2> QED
      BY <1>6, <2>1, <2>2 DEF ReadPiece
  <1>7. CASE ListDir \/ PrintListing
    BY <1>7 DEF ListDir, At, Present, PrintListing, Finish
  <1>8. ASSUME NEW n \in Name, StatName(n)
        PROVE  ReadInv'
    BY <1>8 DEF StatName, At, With, File
  <1>9. ASSUME NEW n \in Name, NEW c \in UserContent, UserWrites(n, c)
        PROVE  ReadInv'
    BY <1>9 DEF UserWrites, Touches, Forget
  <1>10. ASSUME NEW n \in Name, UserRemoves(n)
        PROVE  ReadInv'
    BY <1>10 DEF UserRemoves, Touches, Forget
  <1>11. ASSUME NEW m \in Name, NEW n \in Name, UserRenames(m, n)
        PROVE  ReadInv'
    BY <1>11 DEF UserRenames, Touches, Forget
  <1>12. CASE UserRemovesDir \/ ContainerDies \/ UNCHANGED vars
    BY <1>12 DEF UserRemovesDir, ContainerDies, Present, vars
  <1> QED
    BY <1>1, <1>2, <1>3, <1>4, <1>5, <1>6, <1>7, <1>8, <1>9, <1>10, <1>11, <1>12
    DEF Next, ScriptStep, Environment

\* A name that is there all the time is listed or still to be looked at.
LEMMA ListKept == IInv /\ [Next]_vars => ListInv'
  <1> SUFFICES ASSUME IInv, [Next]_vars
               PROVE  ListInv'
    OBVIOUS
  <1> USE DEF IInv, Content, TypeOK, CallInv, DiskInv, KnownInv, KnownHolds,
              File, ListInv, Ino, None,
              diskVars, scriptVars, historyVars
  <1>1. ASSUME NEW o \in Op, NEW n \in Name, NEW t \in Text, Begin(o, n, t)
        PROVE  ListInv'
    BY <1>1 DEF Begin, Forget, NoReport, Present
  <1>2. CASE ExecRaises \/ ScriptFails \/ StartScript \/ MakeDirs
    BY <1>2 DEF ExecRaises, ScriptFails, Finish, StartScript, MakeDirs, At
  <1>3. CASE OpenToWrite
    BY <1>3 DEF OpenToWrite, At
  <1>4. CASE WritePiece
    BY <1>4 DEF WritePiece, At, Acknowledge, Finish, With, Written
  <1>5. CASE CheckExists \/ OpenToRead
    BY <1>5 DEF CheckExists, At, Finish, OpenToRead
  <1>6. CASE ReadPiece
    BY <1>6 DEF ReadPiece, At, Finish, Decoded
  <1>7. CASE ListDir \/ PrintListing
    BY <1>7 DEF ListDir, At, Present, PrintListing, Finish
  <1>8. ASSUME NEW n \in Name, StatName(n)
        PROVE  ListInv'
    BY <1>8 DEF StatName, At, With, File
  <1>9. ASSUME NEW n \in Name, NEW c \in UserContent, UserWrites(n, c)
        PROVE  ListInv'
    BY <1>9 DEF UserWrites, Touches, Forget
  <1>10. ASSUME NEW n \in Name, UserRemoves(n)
        PROVE  ListInv'
    BY <1>10 DEF UserRemoves, Touches, Forget
  <1>11. ASSUME NEW m \in Name, NEW n \in Name, UserRenames(m, n)
        PROVE  ListInv'
    BY <1>11 DEF UserRenames, Touches, Forget
  <1>12. CASE UserRemovesDir \/ ContainerDies \/ UNCHANGED vars
    BY <1>12 DEF UserRemovesDir, ContainerDies, Present, vars
  <1> QED
    BY <1>1, <1>2, <1>3, <1>4, <1>5, <1>6, <1>7, <1>8, <1>9, <1>10, <1>11, <1>12
    DEF Next, ScriptStep, Environment

\* What is reported stays true until the next call.
LEMMA ReportsKept == IInv /\ [Next]_vars => (RoundTrip /\ ListExact)'
  <1> SUFFICES ASSUME IInv, [Next]_vars
               PROVE  (RoundTrip /\ ListExact)'
    OBVIOUS
  <1> USE DEF IInv, Content, TypeOK, CallInv, DiskInv, KnownInv, KnownHolds,
              File, ReadInv, ListInv, RoundTrip, ListExact, Ino, None,
              diskVars, scriptVars, historyVars
  <1>1. ASSUME NEW o \in Op, NEW n \in Name, NEW t \in Text, Begin(o, n, t)
        PROVE  (RoundTrip /\ ListExact)'
    BY <1>1 DEF Begin, Forget, NoReport, Present
  <1>2. CASE ExecRaises \/ ScriptFails \/ StartScript \/ MakeDirs
    BY <1>2 DEF ExecRaises, ScriptFails, Finish, StartScript, MakeDirs, At
  <1>3. CASE OpenToWrite
    BY <1>3 DEF OpenToWrite, At
  <1>4. CASE WritePiece
    BY <1>4 DEF WritePiece, At, Acknowledge, Finish, With, Written
  <1>5. CASE CheckExists \/ OpenToRead
    BY <1>5 DEF CheckExists, At, Finish, OpenToRead
  <1>6. CASE ReadPiece
    <2>1. CASE Len(buf) < Len(bytes[fd])
      BY <1>6, <2>1 DEF ReadPiece, At
    <2>2. CASE ~(Len(buf) < Len(bytes[fd]))
      <3>1. /\ report' = [kind |-> Decoded(buf), data |-> buf, sizes |-> <<>>]
            /\ UNCHANGED <<name, known, always, ever>>
        BY <1>6, <2>2 DEF ReadPiece, Finish
      <3>2. ASSUME name \in DOMAIN known
            PROVE  buf = known[name] /\ Decoded(buf) = "text"
        <4>1. buf = bytes[fd] /\ bytes[fd] = known[name]
          BY <1>6, <2>2, <3>2 DEF ReadPiece, At
        <4>2. \A i \in DOMAIN known[name] : known[name][i] \in Text
          BY <3>2
        <4> QED
          BY <4>1, <4>2 DEF Decoded
      <3>3. \A i \in DOMAIN buf : buf[i] \in Text \cup Blob
        OBVIOUS
      <3> QED
        BY <3>1, <3>2, <3>3 DEF Decoded
    <2> QED
      BY <2>1, <2>2
  <1>7. CASE ListDir \/ PrintListing
    BY <1>7 DEF ListDir, At, Present, PrintListing, Finish
  <1>8. ASSUME NEW n \in Name, StatName(n)
        PROVE  (RoundTrip /\ ListExact)'
    BY <1>8 DEF StatName, At, With, File
  <1>9. ASSUME NEW n \in Name, NEW c \in UserContent, UserWrites(n, c)
        PROVE  (RoundTrip /\ ListExact)'
    BY <1>9 DEF UserWrites, Touches, Forget
  <1>10. ASSUME NEW n \in Name, UserRemoves(n)
        PROVE  (RoundTrip /\ ListExact)'
    BY <1>10 DEF UserRemoves, Touches, Forget
  <1>11. ASSUME NEW m \in Name, NEW n \in Name, UserRenames(m, n)
        PROVE  (RoundTrip /\ ListExact)'
    BY <1>11 DEF UserRenames, Touches, Forget
  <1>12. CASE UserRemovesDir \/ ContainerDies \/ UNCHANGED vars
    BY <1>12 DEF UserRemovesDir, ContainerDies, Present, vars
  <1> QED
    BY <1>1, <1>2, <1>3, <1>4, <1>5, <1>6, <1>7, <1>8, <1>9, <1>10, <1>11, <1>12
    DEF Next, ScriptStep, Environment

\* The invariant always holds.
LEMMA Invariance == Spec => []IInv
  <1>1. IInv /\ [Next]_vars => IInv'
    BY TypesKept, CallKept, DiskKept, KnownKept, WriteKept, ReadKept, ListKept, ReportsKept
    DEF IInv
  <1> QED
    BY <1>1, Initially, PTL DEF Spec

(***************************************************************************)
(* The theorems                                                            *)
(***************************************************************************)

\* The types; a script that reads or writes holds an inode it opened itself.
THEOREM TypeCorrect == Spec => []TypeOK
  <1>1. IInv => TypeOK
    BY DEF IInv
  <1> QED
    BY <1>1, Invariance, PTL

\* What write_file acknowledged is in the file until a client writes there
\* again or user code lays hands on it.
THEOREM WritesAreKept == Spec => []KnownHolds
  <1>1. IInv => KnownHolds
    BY DEF IInv, KnownInv
  <1> QED
    BY <1>1, Invariance, PTL

\* read_file returns what write_file was given, as text, and base64 only for
\* what is not UTF-8.
THEOREM ReadsReturnWrites == Spec => []RoundTrip
  <1>1. IInv => RoundTrip
    BY DEF IInv
  <1> QED
    BY <1>1, Invariance, PTL

\* list_files names what was there throughout, and nothing that never was.
THEOREM ListingsAreExact == Spec => []ListExact
  <1>1. IInv => ListExact
    BY DEF IInv
  <1> QED
    BY <1>1, Invariance, PTL
=============================================================================
