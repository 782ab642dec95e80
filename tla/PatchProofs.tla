------------------------------ MODULE PatchProofs ------------------------------
(***************************************************************************)
(* For all diffs that git prints: what module PatchParser says of the      *)
(* files, the hunks and the names it reads.  For the patch-diff command on *)
(* any such diff and any audit, with every window and cap: what module     *)
(* PatchCorrelation says of the links and of the review items.             *)
(*                                                                         *)
(* The parser's invariant places what is left of the text in the diff that *)
(* was printed - in the cover, before a line of a section of a file, or at *)
(* the end - and says what the records hold once that place is reached.    *)
(* It gives up the place when a piece of a broken line looks like the      *)
(* beginning of a file or hunk (Forged), but never that every record has   *)
(* its types, which is all the correlation needs.  The invariant of the    *)
(* correlation says which pairs of hunk and record the loops have passed,  *)
(* and what they left behind there.                                        *)
(***************************************************************************)
EXTENDS PatchDiff, ListLemmas


--------------------------------------------------------------------------------
(* The text, from a place in it on.                                        *)

Ending(given) == IF given.signature THEN Tagged("-") ELSE <<>>

FilesFrom(given, i) == Joined(Rest(RawFiles(given), i)) \o Ending(given)

HunksFrom(given, i, j) == Joined(Rest(RawHunks(given.files[i]), j)) \o FilesFrom(given, i + 1)

(* A file's section 0 is its header, the others are its hunks. *)
Section(given, i, j) ==
  IF j = 0 THEN RawHeader(given.files[i]) ELSE RawBody(given.files[i].hunks[j])

(* Before line m + 1 of a section. *)
At(given, ls, i, j, m) ==
  /\ i \in DOMAIN given.files /\ j \in 0 .. Len(given.files[i].hunks)
  /\ m \in 0 .. Len(Section(given, i, j))
  /\ ls = Rest(Section(given, i, j), m + 1) \o HunksFrom(given, i, j + 1)

HunkHeader(hunk) ==
  [tag |-> "@@", old |-> hunk.old, new |-> hunk.new,
   oldCount |-> CountTo(hunk.body, Len(hunk.body), OldSide),
   newCount |-> CountTo(hunk.body, Len(hunk.body), NewSide)]

ExtendedLines(file) == IF file.change = "renamed" THEN 2 ELSE 1

LEMMA OneLine ==
  ASSUME NEW l
  PROVE  /\ IsList(<<l>>) /\ Len(<<l>>) = 1 /\ <<l>>[1] = l /\ <<l>> # <<>>
         /\ Tail(<<l>>) = <<>>
<1>1. <<l>> \in Seq({l})
  OBVIOUS
<1>2. IsList(<<l>>)
  BY <1>1, SequenceIsList
<1>3. Tail(<<l>>) = <<>>
  <2>1. Tail(<<l>>) \in Seq({l}) /\ Len(Tail(<<l>>)) = 0
    BY <1>1, HeadTailProperties
  <2>2. QED
    BY <2>1, EmptySeq
<1>4. QED
  BY <1>2, <1>3

LEMMA TwoLines ==
  ASSUME NEW k, NEW l
  PROVE  /\ IsList(<<k>> \o <<l>>) /\ Len(<<k>> \o <<l>>) = 2
         /\ (<<k>> \o <<l>>)[1] = k /\ (<<k>> \o <<l>>)[2] = l
<1>1. /\ IsList(<<k>>) /\ Len(<<k>>) = 1 /\ <<k>>[1] = k
      /\ IsList(<<l>>) /\ Len(<<l>>) = 1 /\ <<l>>[1] = l
  BY OneLine
<1> DEFINE s == <<k>>
           t == <<l>>
<1> HIDE DEF s, t
<1>2. /\ IsList(s \o t) /\ Len(s \o t) = Len(s) + Len(t)
      /\ \A i \in 1 .. Len(s) : (s \o t)[i] = s[i]
      /\ \A i \in 1 .. Len(t) : (s \o t)[Len(s) + i] = t[i]
  <2>1. IsList(s) /\ IsList(t)
    BY <1>1 DEF s, t
  <2>2. QED
    BY <2>1, ListConcat
<1>3. Len(s) = 1 /\ Len(t) = 1 /\ s[1] = k /\ t[1] = l
  BY <1>1 DEF s, t
<1>4. (s \o t)[1] = k /\ (s \o t)[1 + 1] = l /\ Len(s \o t) = 1 + 1
  BY <1>2, <1>3
<1>5. QED
  BY <1>2, <1>4 DEF s, t

LEMMA ExtendedFacts ==
  ASSUME NEW file, IsChangedFile(file)
  PROVE  LET x == Extended(file) IN
         /\ IsList(x) /\ Len(x) = ExtendedLines(file)
         /\ file.change = "added" => x[1] = [tag |-> "new file mode"]
         /\ file.change = "deleted" => x[1] = [tag |-> "deleted file mode"]
         /\ file.change = "modified" => x[1] = [tag |-> "other"]
         /\ file.change = "renamed" =>
              /\ x[1] = [tag |-> "rename from ", path |-> file.old]
              /\ x[2] = [tag |-> "rename to ", path |-> file.new]
<1>1. CASE file.change = "added"
  <2>1. Extended(file) = <<[tag |-> "new file mode"]>>
    BY <1>1 DEF Extended, Tagged
  <2>2. QED
    BY <1>1, <2>1, OneLine DEF ExtendedLines
<1>2. CASE file.change = "deleted"
  <2>1. Extended(file) = <<[tag |-> "deleted file mode"]>>
    BY <1>2 DEF Extended, Tagged
  <2>2. QED
    BY <1>2, <2>1, OneLine DEF ExtendedLines
<1>3. CASE file.change = "modified"
  <2>1. Extended(file) = <<[tag |-> "other"]>>
    BY <1>3 DEF Extended, Tagged
  <2>2. QED
    BY <1>3, <2>1, OneLine DEF ExtendedLines
<1>4. CASE file.change = "renamed"
  <2>1. Extended(file) = <<[tag |-> "rename from ", path |-> file.old]>>
                           \o <<[tag |-> "rename to ", path |-> file.new]>>
    BY <1>4 DEF Extended, WithPath
  <2> DEFINE k == [tag |-> "rename from ", path |-> file.old]
             l == [tag |-> "rename to ", path |-> file.new]
  <2> HIDE DEF k, l
  <2>2. /\ IsList(<<k>> \o <<l>>) /\ Len(<<k>> \o <<l>>) = 2
        /\ (<<k>> \o <<l>>)[1] = k /\ (<<k>> \o <<l>>)[2] = l
    BY TwoLines
  <2>3. Extended(file) = <<k>> \o <<l>> /\ ExtendedLines(file) = 2
    BY <1>4, <2>1 DEF k, l, ExtendedLines
  <2>4. /\ IsList(Extended(file)) /\ Len(Extended(file)) = ExtendedLines(file)
        /\ Extended(file)[1] = k /\ Extended(file)[2] = l
    BY <2>2, <2>3
  <2>5. QED
    BY <1>4, <2>4 DEF k, l
<1>5. QED
  BY <1>1, <1>2, <1>3, <1>4 DEF IsChangedFile

OldName(file) == IF file.change = "added" THEN DevNull ELSE <<"a">> \o file.old
NewName(file) == IF file.change = "deleted" THEN DevNull ELSE <<"b">> \o file.new

LEMMA NamesFacts ==
  ASSUME NEW file
  PROVE  /\ IsList(Names(file))
         /\ file.hunks = <<>> => Names(file) = <<>> /\ Len(Names(file)) = 0
         /\ file.hunks # <<>> =>
              /\ Len(Names(file)) = 2
              /\ Names(file)[1] = [tag |-> "--- ", path |-> OldName(file)]
              /\ Names(file)[2] = [tag |-> "+++ ", path |-> NewName(file)]
<1>1. CASE file.hunks = <<>>
  <2>1. Names(file) = <<>>
    BY <1>1 DEF Names
  <2>2. IsList(<<>>) /\ Len(<<>>) = 0
    BY DEF IsList
  <2>3. QED
    BY <1>1, <2>1, <2>2
<1>2. CASE file.hunks # <<>>
  <2>1. Names(file) = <<[tag |-> "--- ", path |-> OldName(file)]>>
                        \o <<[tag |-> "+++ ", path |-> NewName(file)]>>
    BY <1>2 DEF Names, WithPath, OldName, NewName
  <2> DEFINE k == [tag |-> "--- ", path |-> OldName(file)]
             l == [tag |-> "+++ ", path |-> NewName(file)]
  <2> HIDE DEF k, l
  <2>2. /\ IsList(<<k>> \o <<l>>) /\ Len(<<k>> \o <<l>>) = 2
        /\ (<<k>> \o <<l>>)[1] = k /\ (<<k>> \o <<l>>)[2] = l
    BY TwoLines
  <2>3. Names(file) = <<k>> \o <<l>>
    BY <2>1 DEF k, l
  <2>4. /\ IsList(Names(file)) /\ Len(Names(file)) = 2
        /\ Names(file)[1] = k /\ Names(file)[2] = l
    BY <2>2, <2>3
  <2>5. QED
    BY <1>2, <2>4 DEF k, l
<1>3. QED
  BY <1>1, <1>2

LEMMA HeaderFacts ==
  ASSUME NEW file, IsChangedFile(file)
  PROVE  LET x == RawHeader(file)
             e == ExtendedLines(file)
         IN  /\ IsList(x) /\ e \in {1, 2}
             /\ Len(x) = IF file.hunks = <<>> THEN e ELSE e + 2
             /\ file.change = "added" => x[1] = [tag |-> "new file mode"]
             /\ file.change = "deleted" => x[1] = [tag |-> "deleted file mode"]
             /\ file.change = "modified" => x[1] = [tag |-> "other"]
             /\ file.change = "renamed" =>
                  /\ x[1] = [tag |-> "rename from ", path |-> file.old]
                  /\ x[2] = [tag |-> "rename to ", path |-> file.new]
             /\ file.hunks # <<>> =>
                  /\ x[e + 1] = [tag |-> "--- ", path |-> OldName(file)]
                  /\ x[e + 2] = [tag |-> "+++ ", path |-> NewName(file)]
<1> DEFINE s == Extended(file)
           t == Names(file)
           e == ExtendedLines(file)
<1>1. e \in {1, 2} /\ (file.change = "renamed" => e = 2)
  BY DEF ExtendedLines
<1>2. /\ IsList(s) /\ Len(s) = e
      /\ file.change = "added" => s[1] = [tag |-> "new file mode"]
      /\ file.change = "deleted" => s[1] = [tag |-> "deleted file mode"]
      /\ file.change = "modified" => s[1] = [tag |-> "other"]
      /\ file.change = "renamed" =>
           /\ s[1] = [tag |-> "rename from ", path |-> file.old]
           /\ s[2] = [tag |-> "rename to ", path |-> file.new]
  BY ExtendedFacts
<1>3. /\ IsList(t)
      /\ file.hunks = <<>> => Len(t) = 0
      /\ file.hunks # <<>> =>
           /\ Len(t) = 2
           /\ t[1] = [tag |-> "--- ", path |-> OldName(file)]
           /\ t[2] = [tag |-> "+++ ", path |-> NewName(file)]
  BY NamesFacts
<1>4. RawHeader(file) = s \o t
  BY DEF RawHeader
<1> HIDE DEF s, t, e
<1> DEFINE m == Len(t)
<1>a. IsList(s) /\ IsList(t) /\ Len(s) = e
  BY <1>2, <1>3, Zenon
<1>b. m = IF file.hunks = <<>> THEN 0 ELSE 2
  BY <1>3
<1>5. /\ IsList(s \o t) /\ Len(s \o t) = e + m
      /\ \A i \in 1 .. e : (s \o t)[i] = s[i]
      /\ \A i \in 1 .. m : (s \o t)[e + i] = t[i]
  <2>1. /\ IsList(s \o t) /\ Len(s \o t) = Len(s) + Len(t)
        /\ \A i \in 1 .. Len(s) : (s \o t)[i] = s[i]
        /\ \A i \in 1 .. Len(t) : (s \o t)[Len(s) + i] = t[i]
    <3>1. IsList(s) /\ IsList(t)
      BY <1>a
    <3>2. QED
      BY <3>1, ListConcat
  <2>2. QED
    BY <1>a, <2>1, Zenon DEF m
<1> HIDE DEF m
<1>6. (s \o t)[1] = s[1] /\ (e = 2 => (s \o t)[2] = s[2])
  <2>1. 1 \in 1 .. e /\ (e = 2 => 2 \in 1 .. e)
    BY <1>1
  <2>2. QED
    BY <1>5, <2>1
<1>7. file.hunks # <<>> => (s \o t)[e + 1] = t[1] /\ (s \o t)[e + 2] = t[2]
  <2>1. file.hunks # <<>> => 1 \in 1 .. m /\ 2 \in 1 .. m
    BY <1>b
  <2>2. QED
    BY <1>5, <2>1
<1>8. Len(s \o t) = IF file.hunks = <<>> THEN e ELSE e + 2
  BY <1>1, <1>5, <1>b
<1>9. QED
  BY <1>1, <1>2, <1>3, <1>4, <1>5, <1>6, <1>7, <1>8 DEF e

LEMMA BodyFacts ==
  ASSUME NEW hunk, IsHunk(hunk)
  PROVE  /\ IsList(RawBody(hunk)) /\ Len(RawBody(hunk)) = Len(hunk.body)
         /\ Len(hunk.body) \in Nat /\ DOMAIN hunk.body = 1 .. Len(hunk.body)
         /\ \A k \in 1 .. Len(hunk.body) : RawBody(hunk)[k] = RawLine(hunk.body[k])
<1>1. Len(hunk.body) \in Nat /\ DOMAIN hunk.body = 1 .. Len(hunk.body)
  BY ListFacts DEF IsHunk
<1>2. RawBody(hunk) = [k \in 1 .. Len(hunk.body) |-> RawLine(hunk.body[k])]
  BY <1>1 DEF RawBody
<1>3. IsList(RawBody(hunk)) /\ Len(RawBody(hunk)) = Len(hunk.body)
  BY <1>1, <1>2, MapIsList
<1>4. QED
  BY <1>1, <1>2, <1>3

LEMMA HunkFacts ==
  ASSUME NEW hunk, IsHunk(hunk)
  PROVE  IsList(RawHunk(hunk)) /\ RawHunk(hunk) = <<HunkHeader(hunk)>> \o RawBody(hunk)
<1>1. RawHunk(hunk) = <<HunkHeader(hunk)>> \o RawBody(hunk)
  BY DEF RawHunk, HunkHeader
<1>2. IsList(<<HunkHeader(hunk)>>) /\ IsList(RawBody(hunk))
  BY OneLine, BodyFacts
<1>3. QED
  BY <1>1, <1>2, ListConcat

LEMMA HunksFacts ==
  ASSUME NEW file, IsChangedFile(file)
  PROVE  /\ IsList(RawHunks(file)) /\ Len(RawHunks(file)) = Len(file.hunks)
         /\ Len(file.hunks) \in Nat /\ DOMAIN file.hunks = 1 .. Len(file.hunks)
         /\ \A j \in 1 .. Len(file.hunks) :
              IsHunk(file.hunks[j]) /\ RawHunks(file)[j] = RawHunk(file.hunks[j])
         /\ \A j \in DOMAIN RawHunks(file) : IsList(RawHunks(file)[j])
         /\ IsList(Joined(RawHunks(file)))
<1>1. /\ Len(file.hunks) \in Nat /\ DOMAIN file.hunks = 1 .. Len(file.hunks)
      /\ \A j \in 1 .. Len(file.hunks) : IsHunk(file.hunks[j])
  BY ListFacts DEF IsChangedFile
<1>2. RawHunks(file) = [j \in 1 .. Len(file.hunks) |-> RawHunk(file.hunks[j])]
  BY <1>1 DEF RawHunks
<1>3. /\ IsList(RawHunks(file)) /\ Len(RawHunks(file)) = Len(file.hunks)
      /\ DOMAIN RawHunks(file) = 1 .. Len(file.hunks)
  BY <1>1, <1>2, MapIsList
<1>4. \A j \in 1 .. Len(file.hunks) : RawHunks(file)[j] = RawHunk(file.hunks[j])
  BY <1>2
<1>5. \A j \in DOMAIN RawHunks(file) : IsList(RawHunks(file)[j])
  BY <1>1, <1>3, <1>4, HunkFacts
<1>6. IsList(Joined(RawHunks(file)))
  BY <1>3, <1>5, JoinIsList
<1>7. QED
  BY <1>1, <1>3, <1>4, <1>5, <1>6

LEMMA FileFacts ==
  ASSUME NEW file, IsChangedFile(file)
  PROVE  IsList(RawFile(file))
<1>1. IsList(RawHeader(file)) /\ IsList(Joined(RawHunks(file))) /\ IsList(<<FirstLine(file)>>)
  BY HeaderFacts, HunksFacts, OneLine
<1>2. IsList(RawHeader(file) \o Joined(RawHunks(file)))
  BY <1>1, ListConcat
<1>3. QED
  BY <1>1, <1>2, ListConcat DEF RawFile

LEMMA FilesFacts ==
  ASSUME NEW given, IsDiff(given)
  PROVE  /\ IsList(RawFiles(given)) /\ Len(RawFiles(given)) = Len(given.files)
         /\ Len(given.files) \in Nat /\ DOMAIN given.files = 1 .. Len(given.files)
         /\ \A i \in 1 .. Len(given.files) :
              IsChangedFile(given.files[i]) /\ RawFiles(given)[i] = RawFile(given.files[i])
         /\ \A i \in DOMAIN RawFiles(given) : IsList(RawFiles(given)[i])
         /\ IsList(Ending(given))
<1>1. /\ Len(given.files) \in Nat /\ DOMAIN given.files = 1 .. Len(given.files)
      /\ \A i \in 1 .. Len(given.files) : IsChangedFile(given.files[i])
  BY ListFacts DEF IsDiff
<1>2. RawFiles(given) = [i \in 1 .. Len(given.files) |-> RawFile(given.files[i])]
  BY <1>1 DEF RawFiles
<1>3. /\ IsList(RawFiles(given)) /\ Len(RawFiles(given)) = Len(given.files)
      /\ DOMAIN RawFiles(given) = 1 .. Len(given.files)
  BY <1>1, <1>2, MapIsList
<1>4. \A i \in 1 .. Len(given.files) : RawFiles(given)[i] = RawFile(given.files[i])
  BY <1>2
<1>5. \A i \in DOMAIN RawFiles(given) : IsList(RawFiles(given)[i])
  BY <1>1, <1>3, <1>4, FileFacts
<1>6. IsList(Ending(given))
  <2>1. IsList(<<>>)
    BY DEF IsList
  <2>2. IsList(<<[tag |-> "-"]>>)
    BY OneLine
  <2>3. QED
    BY <2>1, <2>2 DEF Ending, Tagged
<1>7. QED
  BY <1>1, <1>3, <1>4, <1>5, <1>6

(* What follows the last line of a file.                                   *)
LEMMA AfterFile ==
  ASSUME NEW given, IsDiff(given), NEW i \in 0 .. Len(given.files)
  PROVE  /\ IsList(FilesFrom(given, i + 1))
         /\ i = Len(given.files) => FilesFrom(given, i + 1) = Ending(given)
         /\ i < Len(given.files) =>
              /\ FilesFrom(given, i + 1) # <<>>
              /\ FilesFrom(given, i + 1)[1] = FirstLine(given.files[i + 1])
              /\ At(given, Tail(FilesFrom(given, i + 1)), i + 1, 0, 0)
<1> DEFINE n == Len(given.files)
           raw == RawFiles(given)
           rest == Joined(Rest(raw, i + 1))
           end == Ending(given)
<1>1. /\ IsList(raw) /\ Len(raw) = n /\ n \in Nat /\ DOMAIN given.files = 1 .. n
      /\ \A k \in 1 .. n : IsChangedFile(given.files[k]) /\ raw[k] = RawFile(given.files[k])
      /\ \A k \in DOMAIN raw : IsList(raw[k])
      /\ IsList(end)
  BY FilesFacts
<1> HIDE DEF raw, end
<1>2. /\ IsList(rest)
      /\ i + 1 = n + 1 => rest = <<>>
      /\ i + 1 <= n => rest = raw[i + 1] \o Joined(Rest(raw, (i + 1) + 1))
  <2>1. i + 1 \in 1 .. Len(raw) + 1
    BY <1>1
  <2>2. QED
    BY <1>1, <2>1, JoinRest
<1>3. FilesFrom(given, i + 1) = rest \o end
  BY DEF FilesFrom, raw, end
<1>4. IsList(rest \o end)
  BY <1>1, <1>2, ListConcat
<1>5. i = n => rest \o end = end
  BY <1>1, <1>2, ConcatNothing
<1>6. ASSUME i < n
      PROVE  /\ rest \o end # <<>> /\ (rest \o end)[1] = FirstLine(given.files[i + 1])
             /\ At(given, Tail(rest \o end), i + 1, 0, 0)
  <2> DEFINE file == given.files[i + 1]
             header == RawHeader(file)
             hunks == Joined(RawHunks(file))
             more == Joined(Rest(raw, (i + 1) + 1))
             first == <<FirstLine(file)>>
  <2>1. i + 1 \in 1 .. n /\ i + 1 <= n /\ i + 1 \in 0 .. n
    BY <1>1, <1>6
  <2>2. IsChangedFile(file) /\ raw[i + 1] = RawFile(file)
    BY <1>1, <2>1
  <2>3. IsList(header) /\ IsList(hunks)
    BY <2>2, HeaderFacts, HunksFacts
  <2>4. IsList(first) /\ first # <<>> /\ Len(first) = 1 /\ first[1] = FirstLine(file)
    BY OneLine
  <2>5. IsList(more)
    <3>1. (i + 1) + 1 \in 1 .. Len(raw) + 1
      BY <1>1, <2>1
    <3>2. QED
      BY <1>1, <3>1, JoinRest
  <2>6. raw[i + 1] = first \o (header \o hunks)
    BY <2>2 DEF RawFile
  <2>a. FilesFrom(given, (i + 1) + 1) = more \o end
    BY DEF FilesFrom, raw, end
  <2>b. Joined(Rest(RawHunks(file), 0 + 1)) = hunks
    <3>1. /\ IsList(RawHunks(file)) /\ Len(RawHunks(file)) \in Nat
          /\ \A j \in DOMAIN RawHunks(file) : IsList(RawHunks(file)[j])
      BY <2>2, HunksFacts
    <3>2. 1 \in 1 .. Len(RawHunks(file)) + 1 /\ 0 + 1 = 1
      BY <3>1
    <3>3. Joined(Rest(RawHunks(file), 1)) = hunks
      BY <3>1, <3>2, JoinRest
    <3>4. QED
      BY <3>2, <3>3
  <2>c. Rest(header, 0 + 1) = header /\ Len(header) \in Nat
    <3>1. Len(header) \in Nat
      BY <2>3, ListFacts
    <3>2. 1 \in 1 .. Len(header) + 1 /\ 0 + 1 = 1
      BY <3>1
    <3>3. Rest(header, 1) = header
      BY <2>3, <3>2, RestFacts
    <3>4. QED
      BY <3>1, <3>2, <3>3
  <2>d. HunksFrom(given, i + 1, 0 + 1) = hunks \o (more \o end)
    BY <2>a, <2>b DEF HunksFrom
  <2>e. /\ 0 \in 0 .. Len(file.hunks) /\ Section(given, i + 1, 0) = header
        /\ 0 \in 0 .. Len(header) /\ i + 1 \in DOMAIN given.files
    <3>1. Len(file.hunks) \in Nat
      BY <2>2, HunksFacts
    <3>2. QED
      BY <1>1, <2>1, <2>c, <3>1 DEF Section
  <2>f. rest \o end = ((first \o (header \o hunks)) \o more) \o end
    BY <1>2, <2>1, <2>6
  <2> HIDE DEF file, header, hunks, more, first, rest
  <2>g. IsList(header \o hunks) /\ IsList(more \o end)
    BY <1>1, <2>3, <2>5, ListConcat
  <2>h. IsList(first \o (header \o hunks)) /\ IsList((header \o hunks) \o (more \o end))
    BY <2>4, <2>g, ListConcat
  <2>i. ((first \o (header \o hunks)) \o more) \o end = first \o ((header \o hunks) \o (more \o end))
    <3>1. ((first \o (header \o hunks)) \o more) \o end = (first \o (header \o hunks)) \o (more \o end)
      BY <1>1, <2>5, <2>h, ConcatInTurn
    <3>2. (first \o (header \o hunks)) \o (more \o end) = first \o ((header \o hunks) \o (more \o end))
      BY <2>4, <2>g, ConcatInTurn
    <3>3. QED
      BY <3>1, <3>2
  <2>j. (header \o hunks) \o (more \o end) = header \o (hunks \o (more \o end))
    <3> DEFINE u == more \o end
    <3>1. IsList(u)
      BY <2>g
    <3> HIDE DEF u
    <3>2. (header \o hunks) \o u = header \o (hunks \o u)
      BY <2>3, <3>1, ConcatInTurn
    <3>3. QED
      BY <3>2 DEF u
  <2>k. rest \o end = first \o (header \o (hunks \o (more \o end)))
    BY <2>f, <2>i, <2>j
  <2> DEFINE tail == header \o (hunks \o (more \o end))
  <2>l. IsList(tail)
    BY <2>h, <2>j
  <2>m. Tail(first) = <<>>
    BY OneLine DEF first
  <2>n. first \o tail # <<>> /\ (first \o tail)[1] = first[1] /\ Tail(first \o tail) = Tail(first) \o tail
    <3> HIDE DEF tail
    <3>1. QED
      BY <2>4, <2>l, ConcatFirst
  <2>o. Tail(first \o tail) = tail
    <3> HIDE DEF tail
    <3>1. QED
      BY <2>l, <2>m, <2>n, ConcatNothing
  <2>p. At(given, tail, i + 1, 0, 0)
    <3>1. tail = Rest(header, 0 + 1) \o HunksFrom(given, i + 1, 0 + 1)
      BY <2>c, <2>d
    <3> HIDE DEF tail
    <3>2. QED
      BY <2>e, <3>1 DEF At, file
  <2>q. QED
    BY <2>4, <2>k, <2>n, <2>o, <2>p DEF file
<1>7. QED
  BY <1>3, <1>4, <1>5, <1>6 DEF end

(* What follows the last line of a section.                                *)
LEMMA AfterSection ==
  ASSUME NEW given, IsDiff(given), NEW i \in DOMAIN given.files, NEW j \in 0 .. Len(given.files[i].hunks)
  PROVE  /\ IsList(HunksFrom(given, i, j + 1))
         /\ j = Len(given.files[i].hunks) => HunksFrom(given, i, j + 1) = FilesFrom(given, i + 1)
         /\ j < Len(given.files[i].hunks) =>
              /\ HunksFrom(given, i, j + 1) # <<>>
              /\ HunksFrom(given, i, j + 1)[1] = HunkHeader(given.files[i].hunks[j + 1])
              /\ At(given, Tail(HunksFrom(given, i, j + 1)), i, j + 1, 0)
<1> DEFINE file == given.files[i]
           n == Len(file.hunks)
           raw == RawHunks(file)
           rest == Joined(Rest(raw, j + 1))
           end == FilesFrom(given, i + 1)
<1>1. IsChangedFile(file) /\ IsList(end)
  <2>1. i \in 0 .. Len(given.files) /\ i \in 1 .. Len(given.files)
    BY FilesFacts
  <2>2. QED
    BY <2>1, FilesFacts, AfterFile
<1>2. /\ IsList(raw) /\ Len(raw) = n /\ n \in Nat /\ DOMAIN file.hunks = 1 .. n
      /\ \A k \in 1 .. n : IsHunk(file.hunks[k]) /\ raw[k] = RawHunk(file.hunks[k])
      /\ \A k \in DOMAIN raw : IsList(raw[k])
  BY <1>1, HunksFacts
<1> HIDE DEF raw, end
<1>3. /\ IsList(rest)
      /\ j + 1 = n + 1 => rest = <<>>
      /\ j + 1 <= n => rest = raw[j + 1] \o Joined(Rest(raw, (j + 1) + 1))
  <2>1. j + 1 \in 1 .. Len(raw) + 1
    BY <1>2
  <2>2. QED
    BY <1>2, <2>1, JoinRest
<1>4. HunksFrom(given, i, j + 1) = rest \o end
  BY DEF HunksFrom, raw, end
<1>5. IsList(rest \o end)
  BY <1>1, <1>3, ListConcat
<1>6. j = n => rest \o end = end
  BY <1>1, <1>3, ConcatNothing
<1>7. ASSUME j < n
      PROVE  /\ rest \o end # <<>> /\ (rest \o end)[1] = HunkHeader(file.hunks[j + 1])
             /\ At(given, Tail(rest \o end), i, j + 1, 0)
  <2> DEFINE hunk == file.hunks[j + 1]
             body == RawBody(hunk)
             more == Joined(Rest(raw, (j + 1) + 1))
             first == <<HunkHeader(hunk)>>
             tail == body \o (more \o end)
  <2>1. j + 1 \in 1 .. n /\ j + 1 <= n /\ j + 1 \in 0 .. n /\ j + 1 # 0
    BY <1>2, <1>7
  <2>2. IsHunk(hunk) /\ raw[j + 1] = RawHunk(hunk)
    BY <1>2, <2>1
  <2>3. IsList(body) /\ RawHunk(hunk) = first \o body
    BY <2>2, BodyFacts, HunkFacts
  <2>4. IsList(first) /\ first # <<>> /\ Len(first) = 1 /\ first[1] = HunkHeader(hunk)
    BY OneLine
  <2>5. IsList(more)
    <3>1. (j + 1) + 1 \in 1 .. Len(raw) + 1
      BY <1>2, <2>1
    <3>2. QED
      BY <1>2, <3>1, JoinRest
  <2>a. HunksFrom(given, i, (j + 1) + 1) = more \o end
    BY DEF HunksFrom, raw, end
  <2>c. Rest(body, 0 + 1) = body /\ Len(body) \in Nat
    <3>1. Len(body) \in Nat
      BY <2>3, ListFacts
    <3>2. 1 \in 1 .. Len(body) + 1 /\ 0 + 1 = 1
      BY <3>1
    <3>3. Rest(body, 1) = body
      BY <2>3, <3>2, RestFacts
    <3>4. QED
      BY <3>1, <3>2, <3>3
  <2>e. /\ j + 1 \in 0 .. Len(file.hunks) /\ Section(given, i, j + 1) = body
        /\ 0 \in 0 .. Len(body) /\ i \in DOMAIN given.files
    BY <2>1, <2>c DEF Section
  <2>f. rest \o end = ((first \o body) \o more) \o end
    BY <1>3, <2>1, <2>2, <2>3
  <2> HIDE DEF file, hunk, body, more, first, rest
  <2>g. IsList(first \o body) /\ IsList(more \o end)
    BY <1>1, <2>3, <2>4, <2>5, ListConcat
  <2>i. ((first \o body) \o more) \o end = (first \o body) \o (more \o end)
    BY <1>1, <2>5, <2>g, ConcatInTurn
  <2>j. (first \o body) \o (more \o end) = first \o (body \o (more \o end))
    BY <2>3, <2>4, <2>g, ConcatInTurn
  <2>l. IsList(tail)
    BY <2>3, <2>g, ListConcat
  <2>k. rest \o end = first \o tail
    BY <2>f, <2>i, <2>j
  <2>p. At(given, tail, i, j + 1, 0)
    <3>1. tail = Rest(body, 0 + 1) \o HunksFrom(given, i, (j + 1) + 1)
      BY <2>a, <2>c
    <3> HIDE DEF tail
    <3>2. QED
      BY <2>e, <3>1 DEF At, file
  <2> HIDE DEF tail
  <2>m. Tail(first) = <<>>
    BY OneLine DEF first
  <2>n. first \o tail # <<>> /\ (first \o tail)[1] = first[1] /\ Tail(first \o tail) = Tail(first) \o tail
    BY <2>4, <2>l, ConcatFirst
  <2>o. Tail(first \o tail) = tail
    BY <2>l, <2>m, <2>n, ConcatNothing
  <2>q. QED
    BY <2>4, <2>k, <2>n, <2>o, <2>p DEF hunk
<1>8. QED
  BY <1>4, <1>5, <1>6, <1>7 DEF end, file

LEMMA SectionFacts ==
  ASSUME NEW given, IsDiff(given), NEW i \in DOMAIN given.files, NEW j \in 0 .. Len(given.files[i].hunks)
  PROVE  /\ IsChangedFile(given.files[i]) /\ i \in 1 .. Len(given.files) /\ Len(given.files) \in Nat
         /\ IsList(Section(given, i, j)) /\ Len(Section(given, i, j)) \in Nat
         /\ Len(given.files[i].hunks) \in Nat /\ DOMAIN given.files[i].hunks = 1 .. Len(given.files[i].hunks)
         /\ j # 0 => /\ j \in 1 .. Len(given.files[i].hunks) /\ j \in DOMAIN given.files[i].hunks
                     /\ IsHunk(given.files[i].hunks[j])
<1>1. IsChangedFile(given.files[i]) /\ i \in 1 .. Len(given.files) /\ Len(given.files) \in Nat
  BY FilesFacts
<1>2. /\ Len(given.files[i].hunks) \in Nat /\ DOMAIN given.files[i].hunks = 1 .. Len(given.files[i].hunks)
      /\ \A k \in 1 .. Len(given.files[i].hunks) : IsHunk(given.files[i].hunks[k])
  BY <1>1, HunksFacts
<1>3. j # 0 => j \in 1 .. Len(given.files[i].hunks)
  BY <1>2
<1>4. IsList(Section(given, i, j))
  <2>1. CASE j = 0
    BY <1>1, <2>1, HeaderFacts DEF Section
  <2>2. CASE j # 0
    BY <1>2, <1>3, <2>2, BodyFacts DEF Section
  <2>3. QED
    BY <2>1, <2>2
<1>5. QED
  BY <1>1, <1>2, <1>3, <1>4, ListFacts

(* The four kinds of lines that can come next. *)
NextOfSection(given, ls, i, j, m) ==
  /\ m + 1 \in 1 .. Len(Section(given, i, j))
  /\ ls[1] = Section(given, i, j)[m + 1]
  /\ At(given, Tail(ls), i, j, m + 1)

NextHunkAt(given, ls, i, j) ==
  /\ j + 1 \in DOMAIN given.files[i].hunks
  /\ ls[1] = HunkHeader(given.files[i].hunks[j + 1])
  /\ At(given, Tail(ls), i, j + 1, 0)

NextFileAt(given, ls, i) ==
  /\ i + 1 \in DOMAIN given.files
  /\ ls[1] = FirstLine(given.files[i + 1])
  /\ At(given, Tail(ls), i + 1, 0, 0)

SignatureAt(given, ls, i) ==
  i = Len(given.files) /\ given.signature /\ ls[1] = [tag |-> "-"] /\ Tail(ls) = <<>>

SectionRead(given, i, j, m) == m = Len(Section(given, i, j))
FileRead(given, i, j) == j = Len(given.files[i].hunks)

LEMMA AfterLastFile ==
  ASSUME NEW given, IsDiff(given), NEW i \in 0 .. Len(given.files)
  PROVE  LET ls == FilesFrom(given, i + 1) IN
         /\ ls # <<>> => NextFileAt(given, ls, i) \/ SignatureAt(given, ls, i)
         /\ ls = <<>> => i = Len(given.files) /\ ~given.signature
<1> DEFINE ls == FilesFrom(given, i + 1)
<1>1. Len(given.files) \in Nat /\ DOMAIN given.files = 1 .. Len(given.files)
  BY FilesFacts
<1>2. CASE i < Len(given.files)
  <2>1. /\ ls # <<>> /\ ls[1] = FirstLine(given.files[i + 1])
        /\ At(given, Tail(ls), i + 1, 0, 0)
    BY <1>2, AfterFile
  <2>2. i + 1 \in DOMAIN given.files
    BY <1>1, <1>2
  <2>3. QED
    BY <2>1, <2>2 DEF NextFileAt
<1>3. CASE i = Len(given.files)
  <2>1. ls = Ending(given)
    BY <1>3, AfterFile
  <2> HIDE DEF ls
  <2>2. CASE given.signature
    <3>1. ls = <<[tag |-> "-"]>>
      BY <2>1, <2>2 DEF Ending, Tagged
    <3>2. ls # <<>> /\ ls[1] = [tag |-> "-"] /\ Tail(ls) = <<>>
      BY <3>1, OneLine
    <3>3. QED
      BY <1>3, <2>2, <3>2 DEF SignatureAt, ls
  <2>3. CASE ~given.signature
    BY <1>3, <2>1, <2>3 DEF Ending, ls
  <2>4. QED
    BY <2>2, <2>3 DEF IsDiff
<1>4. QED
  BY <1>1, <1>2, <1>3

LEMMA WhatComesNext ==
  ASSUME NEW given, IsDiff(given), NEW ls, NEW i, NEW j, NEW m, At(given, ls, i, j, m)
  PROVE  /\ ls # <<>> =>
              \/ NextOfSection(given, ls, i, j, m)
              \/ SectionRead(given, i, j, m) /\ NextHunkAt(given, ls, i, j)
              \/ SectionRead(given, i, j, m) /\ FileRead(given, i, j) /\ NextFileAt(given, ls, i)
              \/ SectionRead(given, i, j, m) /\ FileRead(given, i, j) /\ SignatureAt(given, ls, i)
         /\ ls = <<>> => /\ SectionRead(given, i, j, m) /\ FileRead(given, i, j)
                         /\ i = Len(given.files) /\ ~given.signature
<1> DEFINE s == Section(given, i, j)
           more == HunksFrom(given, i, j + 1)
           rest == Rest(s, m + 1)
           n == Len(given.files[i].hunks)
<1>1. /\ i \in DOMAIN given.files /\ j \in 0 .. n /\ m \in 0 .. Len(s) /\ ls = rest \o more
  BY DEF At
<1>2. /\ i \in 1 .. Len(given.files) /\ Len(given.files) \in Nat /\ IsList(s) /\ Len(s) \in Nat
      /\ n \in Nat /\ DOMAIN given.files[i].hunks = 1 .. n
  BY <1>1, SectionFacts
<1>3. IsList(more)
  BY <1>1, AfterSection
<1>4. m + 1 \in 1 .. Len(s) + 1
  BY <1>1, <1>2
<1>5. /\ IsList(rest)
      /\ m + 1 = Len(s) + 1 => rest = <<>>
      /\ m + 1 <= Len(s) => rest # <<>> /\ rest[1] = s[m + 1] /\ Tail(rest) = Rest(s, (m + 1) + 1)
  <2> HIDE DEF s
  <2>1. QED
    BY <1>2, <1>4, RestFacts
<1>6. CASE m < Len(s)
  <2>1. m + 1 <= Len(s) /\ m + 1 \in 1 .. Len(s) /\ m + 1 \in 0 .. Len(s)
    BY <1>1, <1>2, <1>6
  <2>2. rest # <<>> /\ rest[1] = s[m + 1] /\ Tail(rest) = Rest(s, (m + 1) + 1)
    BY <1>5, <2>1
  <2>3. ls # <<>> /\ ls[1] = s[m + 1] /\ Tail(ls) = Rest(s, (m + 1) + 1) \o more
    <3> HIDE DEF rest, more, s
    <3>1. rest \o more # <<>> /\ (rest \o more)[1] = rest[1] /\ Tail(rest \o more) = Tail(rest) \o more
      BY <1>3, <1>5, <2>2, ConcatFirst
    <3>2. QED
      BY <1>1, <2>2, <3>1
  <2>4. At(given, Tail(ls), i, j, m + 1)
    BY <1>1, <2>1, <2>3 DEF At
  <2>5. QED
    BY <2>1, <2>3, <2>4 DEF NextOfSection
<1>7. CASE m = Len(s)
  <2>1. SectionRead(given, i, j, m)
    BY <1>7 DEF SectionRead
  <2>2. ls = more
    <3>1. rest = <<>>
      BY <1>5, <1>7
    <3> HIDE DEF rest, more
    <3>2. QED
      BY <1>1, <1>3, <3>1, ConcatNothing
  <2>3. CASE j < n
    <3>1. more # <<>> /\ more[1] = HunkHeader(given.files[i].hunks[j + 1]) /\ At(given, Tail(more), i, j + 1, 0)
      BY <1>1, <2>3, AfterSection
    <3>2. j + 1 \in DOMAIN given.files[i].hunks
      BY <1>1, <1>2, <2>3
    <3>3. QED
      BY <2>1, <2>2, <3>1, <3>2 DEF NextHunkAt
  <2>4. CASE j = n
    <3>1. FileRead(given, i, j)
      BY <2>4 DEF FileRead
    <3>2. ls = FilesFrom(given, i + 1)
      BY <1>1, <2>2, <2>4, AfterSection
    <3>3. i \in 0 .. Len(given.files)
      BY <1>2
    <3>4. /\ ls # <<>> => NextFileAt(given, ls, i) \/ SignatureAt(given, ls, i)
          /\ ls = <<>> => i = Len(given.files) /\ ~given.signature
      BY <3>2, <3>3, AfterLastFile
    <3>5. QED
      BY <2>1, <3>1, <3>4
  <2>5. QED
    BY <1>1, <1>2, <2>3, <2>4
<1>8. QED
  BY <1>1, <1>2, <1>6, <1>7

(* The lines before the first file. *)
Cover(given) == IF given.cover THEN Tagged("other") \o Tagged("---") ELSE <<>>

InCover(given, ls) == \E k \in 1 .. Len(Cover(given)) + 1 : ls = Rest(Cover(given), k) \o FilesFrom(given, 1)

LEMMA CoverFacts ==
  ASSUME NEW given, IsDiff(given)
  PROVE  /\ IsList(Cover(given)) /\ Len(Cover(given)) \in {0, 2}
         /\ \A k \in 1 .. Len(Cover(given)) : Cover(given)[k] \in {[tag |-> "other"], [tag |-> "---"]}
         /\ IsList(FilesFrom(given, 1))
         /\ Text(given) = Cover(given) \o FilesFrom(given, 1)
<1>1. /\ IsList(Cover(given)) /\ Len(Cover(given)) \in {0, 2}
      /\ \A k \in 1 .. Len(Cover(given)) : Cover(given)[k] \in {[tag |-> "other"], [tag |-> "---"]}
  <2>1. CASE given.cover
    <3> DEFINE k == [tag |-> "other"]
               l == [tag |-> "---"]
    <3> HIDE DEF k, l
    <3>1. /\ IsList(<<k>> \o <<l>>) /\ Len(<<k>> \o <<l>>) = 2
          /\ (<<k>> \o <<l>>)[1] = k /\ (<<k>> \o <<l>>)[2] = l
      BY TwoLines
    <3>2. Cover(given) = <<k>> \o <<l>>
      BY <2>1 DEF Cover, Tagged, k, l
    <3>3. IsList(Cover(given)) /\ Len(Cover(given)) = 2 /\ Cover(given)[1] = k /\ Cover(given)[2] = l
      BY <3>1, <3>2
    <3>4. \A x \in 1 .. 2 : x = 1 \/ x = 2
      OBVIOUS
    <3>5. QED
      BY <3>3, <3>4 DEF k, l
  <2>2. CASE ~given.cover
    <3>1. Cover(given) = <<>>
      BY <2>2 DEF Cover
    <3>2. IsList(<<>>) /\ Len(<<>>) = 0
      BY DEF IsList
    <3>3. QED
      BY <3>1, <3>2
  <2>3. QED
    BY <2>1, <2>2 DEF IsDiff
<1>2. /\ IsList(RawFiles(given)) /\ Len(RawFiles(given)) \in Nat
      /\ \A i \in DOMAIN RawFiles(given) : IsList(RawFiles(given)[i])
  BY FilesFacts
<1>3. Joined(Rest(RawFiles(given), 1)) = Joined(RawFiles(given))
  <2>1. 1 \in 1 .. Len(RawFiles(given)) + 1
    BY <1>2
  <2>2. QED
    BY <1>2, <2>1, JoinRest
<1>4. Text(given) = Cover(given) \o FilesFrom(given, 1)
  BY <1>3 DEF Text, Cover, FilesFrom, Ending
<1>5. IsList(FilesFrom(given, 1))
  <2>1. 0 \in 0 .. Len(given.files) /\ 0 + 1 = 1
    BY FilesFacts
  <2>2. IsList(FilesFrom(given, 0 + 1))
    BY <2>1, AfterFile
  <2>3. QED
    BY <2>1, <2>2
<1>6. QED
  BY <1>1, <1>4, <1>5

LEMMA TextIsRead == \A given : IsDiff(given) => InCover(given, Text(given))
<1> SUFFICES ASSUME NEW given, IsDiff(given)
             PROVE  InCover(given, Text(given))
  OBVIOUS
<1>1. IsList(Cover(given)) /\ Len(Cover(given)) \in {0, 2} /\ Text(given) = Cover(given) \o FilesFrom(given, 1)
  BY CoverFacts
<1>2. 1 \in 1 .. Len(Cover(given)) + 1
  BY <1>1
<1>3. Rest(Cover(given), 1) = Cover(given)
  BY <1>1, <1>2, RestFacts
<1>4. QED
  BY <1>1, <1>2, <1>3 DEF InCover

LEMMA WhatComesFirst ==
  ASSUME NEW given, IsDiff(given), NEW ls, InCover(given, ls)
  PROVE  /\ ls # <<>> =>
              \/ ls[1] \in {[tag |-> "other"], [tag |-> "---"]} /\ InCover(given, Tail(ls))
              \/ NextFileAt(given, ls, 0)
              \/ SignatureAt(given, ls, 0)
         /\ ls = <<>> => Len(given.files) = 0 /\ ~given.signature
<1> DEFINE s == Cover(given)
           more == FilesFrom(given, 1)
<1>1. PICK k \in 1 .. Len(s) + 1 : ls = Rest(s, k) \o more
  BY DEF InCover
<1>2. /\ IsList(s) /\ Len(s) \in {0, 2} /\ IsList(more)
      /\ \A x \in 1 .. Len(s) : s[x] \in {[tag |-> "other"], [tag |-> "---"]}
  BY CoverFacts
<1> DEFINE rest == Rest(s, k)
<1> HIDE DEF s
<1>3. /\ IsList(rest)
      /\ k = Len(s) + 1 => rest = <<>>
      /\ k <= Len(s) => rest # <<>> /\ rest[1] = s[k] /\ Tail(rest) = Rest(s, k + 1)
  BY <1>2, RestFacts
<1>4. CASE k <= Len(s)
  <2>1. k \in 1 .. Len(s) /\ k + 1 \in 1 .. Len(s) + 1
    BY <1>2, <1>4
  <2>2. ls # <<>> /\ ls[1] = s[k] /\ Tail(ls) = Rest(s, k + 1) \o more
    <3>1. rest # <<>> /\ rest[1] = s[k] /\ Tail(rest) = Rest(s, k + 1)
      BY <1>3, <1>4
    <3> HIDE DEF rest, more
    <3>2. rest \o more # <<>> /\ (rest \o more)[1] = rest[1] /\ Tail(rest \o more) = Tail(rest) \o more
      BY <1>2, <1>3, <3>1, ConcatFirst
    <3>3. QED
      BY <1>1, <3>1, <3>2 DEF rest
  <2>3. InCover(given, Tail(ls))
    BY <2>1, <2>2 DEF InCover, s
  <2>4. QED
    BY <1>2, <2>1, <2>2, <2>3
<1>5. CASE k = Len(s) + 1
  <2>1. ls = more
    <3>1. rest = <<>>
      BY <1>3, <1>5
    <3> HIDE DEF rest, more
    <3>2. QED
      BY <1>1, <1>2, <3>1, ConcatNothing DEF rest
  <2>2. 0 \in 0 .. Len(given.files) /\ 0 + 1 = 1
    BY FilesFacts
  <2>3. LET l == FilesFrom(given, 0 + 1) IN
        /\ l # <<>> => NextFileAt(given, l, 0) \/ SignatureAt(given, l, 0)
        /\ l = <<>> => 0 = Len(given.files) /\ ~given.signature
    BY <2>2, AfterLastFile
  <2>4. QED
    BY <2>1, <2>2, <2>3
<1>6. QED
  BY <1>2, <1>4, <1>5

--------------------------------------------------------------------------------
(* Names: words of the first line, prefixes and dots.                      *)

(* A word goes up to the first blank. *)
LEMMA FirstWordEnds ==
  ASSUME NEW t, IsList(t), NEW k \in 0 .. Len(t), \A i \in 1 .. k : t[i] # Blank,
         k < Len(t) => t[k + 1] = Blank
  PROVE  FirstWord(t) = SubSeq(t, 1, k)
<1>1. Len(t) \in Nat /\ DOMAIN t = 1 .. Len(t)
  BY ListFacts
<1> DEFINE P == {i \in DOMAIN t : \A j \in 1 .. i : t[j] # Blank}
<1>2. P = 1 .. k
  <2>1. ASSUME NEW i \in P
        PROVE  i \in 1 .. k
    <3>1. i \in 1 .. Len(t) /\ \A j \in 1 .. i : t[j] # Blank
      BY <1>1
    <3>2. CASE i > k
      <4>1. k + 1 \in 1 .. i /\ k < Len(t)
        BY <1>1, <3>1, <3>2
      <4>2. QED
        BY <3>1, <4>1
    <3>3. QED
      BY <1>1, <3>1, <3>2
  <2>2. ASSUME NEW i \in 1 .. k
        PROVE  i \in P
    <3>1. i \in 1 .. Len(t) /\ \A j \in 1 .. i : j \in 1 .. k
      BY <1>1
    <3>2. QED
      BY <1>1, <3>1
  <2> HIDE DEF P
  <2>3. QED
    BY <2>1, <2>2
<1>3. Cardinality(P) = k
  <2>1. Cardinality(1 .. k) = k
    <3>1. 1 \in Int /\ k \in Int /\ k - 1 + 1 = k
      BY <1>1
    <3>2. Cardinality(1 .. k) = IF 1 > k THEN 0 ELSE k - 1 + 1
      BY <3>1, FS_Interval
    <3>3. QED
      BY <1>1, <3>1, <3>2
  <2> HIDE DEF P
  <2>2. QED
    BY <1>2, <2>1
<1>4. FirstWord(t) = SubSeq(t, 1, Cardinality(P))
  BY DEF FirstWord
<1> HIDE DEF P
<1>5. QED
  BY <1>3, <1>4

(* In a line without a second blank, the words are the two names. *)
LEMMA TwoWords ==
  ASSUME NEW s, IsList(s), Blank \notin Elements(s), NEW t, IsList(t), Blank \notin Elements(t)
  PROVE  LET line == s \o <<Blank>> \o t IN
         FirstWord(line) = s /\ FirstWord(OtherWords(line)) = t
<1> DEFINE x == <<Blank>>
           u == s \o x
           line == u \o t
           n == Len(s)
           m == Len(t)
<1>1. IsList(x) /\ Len(x) = 1 /\ x[1] = Blank
  BY OneLine
<1> HIDE DEF x
<1>2. /\ IsList(u) /\ n \in Nat /\ Len(u) = n + 1 /\ DOMAIN s = 1 .. n
      /\ \A i \in 1 .. n : u[i] = s[i]
      /\ u[n + 1] = Blank
  <2>1. /\ IsList(u) /\ n \in Nat /\ Len(u) = n + Len(x) /\ DOMAIN s = 1 .. n
        /\ \A i \in 1 .. n : u[i] = s[i]
        /\ \A i \in 1 .. Len(x) : u[n + i] = x[i]
    BY <1>1, ListConcat
  <2>2. 1 \in 1 .. Len(x)
    BY <1>1
  <2>3. QED
    BY <1>1, <2>1, <2>2
<1>3. SubSeq(u, 1, n) = s
  BY <1>1, PartsOfConcat
<1> HIDE DEF u
<1>4. /\ IsList(line) /\ m \in Nat /\ Len(line) = (n + 1) + m /\ DOMAIN t = 1 .. m
      /\ \A i \in 1 .. n + 1 : line[i] = u[i]
  <2>1. /\ IsList(line) /\ m \in Nat /\ Len(line) = Len(u) + m /\ DOMAIN t = 1 .. m
        /\ \A i \in 1 .. Len(u) : line[i] = u[i]
    BY <1>2, ListConcat
  <2>2. QED
    BY <1>2, <2>1
<1>5. SubSeq(line, (n + 1) + 1, Len(line)) = t
  BY <1>2, PartsOfConcat
<1> HIDE DEF line
<1>6. FirstWord(line) = SubSeq(line, 1, n)
  <2>1. n \in 0 .. Len(line)
    BY <1>2, <1>4
  <2>2. \A i \in 1 .. n : i \in 1 .. n + 1
    BY <1>2
  <2>3. \A i \in 1 .. n : line[i] # Blank
    BY <1>2, <1>4, <2>2 DEF Elements
  <2>4. line[n + 1] = Blank
    BY <1>2, <1>4
  <2> HIDE DEF n
  <2>5. QED
    BY <1>4, <2>1, <2>3, <2>4, FirstWordEnds
<1>7. SubSeq(line, 1, n) = s
  <2> DEFINE part == SubSeq(line, 1, n)
  <2>1. 1 \in 1 .. Len(line) + 1 /\ n \in 0 .. Len(line) /\ 1 <= n + 1 /\ n - 1 + 1 = n
    BY <1>2, <1>4
  <2>2. /\ IsList(part) /\ Len(part) = n - 1 + 1
        /\ \A i \in 1 .. n - 1 + 1 : part[i] = line[1 + i - 1]
    <3> HIDE DEF n
    <3>1. QED
      BY <1>4, <2>1, PartOfList
  <2> HIDE DEF part
  <2>3. \A i \in 1 .. n : 1 + i - 1 = i /\ i \in 1 .. n + 1
    BY <1>2
  <2>4. IsList(part) /\ Len(part) = Len(s) /\ \A i \in 1 .. Len(part) : part[i] = s[i]
    BY <1>2, <1>4, <2>1, <2>2, <2>3
  <2>5. part = s
    BY <2>4, SameList
  <2>6. QED
    BY <2>5 DEF part
<1>8. OtherWords(line) = t
  <2>1. Len(FirstWord(line)) + 2 = (n + 1) + 1
    BY <1>2, <1>6, <1>7
  <2>2. QED
    BY <1>5, <2>1 DEF OtherWords
<1>9. FirstWord(t) = t
  <2>1. m \in 0 .. Len(t) /\ \A i \in 1 .. m : t[i] # Blank
    BY <1>4 DEF Elements
  <2>2. FirstWord(t) = SubSeq(t, 1, m)
    BY <2>1, FirstWordEnds
  <2>3. SubSeq(t, 1, Len(t)) = t
    <3>1. t \in Seq(Elements(t))
      BY DEF IsList
    <3>2. QED
      BY <3>1, SubSeqFull
  <2>4. QED
    BY <2>2, <2>3
<1>10. QED
  BY <1>6, <1>7, <1>8, <1>9 DEF line, u, x

(* Words have what the line has. *)
LEMMA WordFacts ==
  ASSUME NEW t, IsList(t)
  PROVE  /\ IsList(FirstWord(t)) /\ Elements(FirstWord(t)) \subseteq Elements(t)
         /\ IsList(OtherWords(t)) /\ Elements(OtherWords(t)) \subseteq Elements(t)
<1> DEFINE n == Len(t)
           P == {i \in DOMAIN t : \A j \in 1 .. i : t[j] # Blank}
           k == Cardinality(P)
<1>1. n \in Nat /\ DOMAIN t = 1 .. n
  BY ListFacts
<1>2. k \in 0 .. n
  <2>1. P \subseteq 1 .. n
    BY <1>1
  <2> HIDE DEF P
  <2>2. QED
    BY <1>1, <2>1, CountedWithin
<1>3. FirstWord(t) = SubSeq(t, 1, k)
  BY DEF FirstWord
<1> HIDE DEF P, k
<1>4. /\ IsList(SubSeq(t, 1, k)) /\ Len(SubSeq(t, 1, k)) = k - 1 + 1
      /\ Elements(SubSeq(t, 1, k)) \subseteq Elements(t)
  <2>1. 1 \in 1 .. n + 1 /\ k \in 0 .. n /\ 1 <= k + 1
    BY <1>1, <1>2
  <2>2. QED
    BY <1>1, <2>1, PartOfList
<1>5. OtherWords(t) = SubSeq(t, k + 2, n)
  <2>1. Len(FirstWord(t)) + 2 = k + 2
    BY <1>2, <1>3, <1>4
  <2>2. QED
    BY <2>1 DEF OtherWords
<1>6. IsList(SubSeq(t, k + 2, n)) /\ Elements(SubSeq(t, k + 2, n)) \subseteq Elements(t)
  <2>1. CASE k < n
    <3> DEFINE q == k + 2
    <3>1. q \in 1 .. n + 1 /\ n \in 0 .. n /\ q <= n + 1
      BY <1>1, <1>2, <2>1
    <3> HIDE DEF q
    <3>2. IsList(SubSeq(t, q, n)) /\ Elements(SubSeq(t, q, n)) \subseteq Elements(t)
      BY <1>1, <3>1, PartOfList
    <3>3. QED
      BY <3>2 DEF q
  <2>2. CASE k = n
    <3>1. n < k + 2 /\ k + 2 \in Int /\ n \in Int
      BY <1>1, <1>2, <2>2
    <3>2. SubSeq(t, k + 2, n) = <<>>
      BY <3>1, SubSeqEmpty
    <3>3. IsList(<<>>) /\ Elements(<<>>) = {}
      BY DEF IsList, Elements
    <3>4. QED
      BY <3>2, <3>3
  <2>3. k < n \/ k = n
    <3> HIDE DEF n
    <3>1. QED
      BY <1>1, <1>2
  <2>4. QED
    BY <2>1, <2>2, <2>3, Zenon
<1>7. QED
  BY <1>3, <1>4, <1>5, <1>6

LEMMA UnprefixedFacts ==
  ASSUME NEW raw, IsList(raw)
  PROVE  IsList(Unprefixed(raw)) /\ Elements(Unprefixed(raw)) \subseteq Elements(raw)
<1>1. CASE Len(raw) > 1 /\ raw[1] \in {"a", "b"} /\ raw[2] # Blank
  <2>1. raw \in Seq(Elements(raw))
    BY DEF IsList
  <2>2. raw # <<>>
    BY <1>1
  <2>3. Tail(raw) \in Seq(Elements(raw))
    BY <2>1, <2>2, HeadTailProperties
  <2> DEFINE t == Tail(raw)
  <2>4. Unprefixed(raw) = t
    BY <1>1 DEF Unprefixed, InPrefix
  <2>5. t \in Seq(Elements(raw))
    BY <2>3
  <2> HIDE DEF t
  <2>6. IsList(t)
    BY <2>5, SequenceIsList
  <2>7. Elements(t) \subseteq Elements(raw)
    <3>1. \A i \in DOMAIN t : t[i] \in Elements(raw)
      BY <2>5
    <3>2. QED
      BY <3>1 DEF Elements
  <2>8. QED
    BY <2>4, <2>6, <2>7
<1>2. CASE ~(Len(raw) > 1 /\ raw[1] \in {"a", "b"} /\ raw[2] # Blank)
  <2>1. Unprefixed(raw) = raw
    BY <1>2 DEF Unprefixed, InPrefix
  <2>2. QED
    BY <2>1
<1>3. QED
  BY <1>1, <1>2

LEMMA StrippedFacts ==
  ASSUME NEW raw, IsList(raw)
  PROVE  /\ IsList(Stripped(raw)) /\ Elements(Stripped(raw)) \subseteq Elements(raw)
         /\ Dots(Unprefixed(raw)) = {} => Stripped(raw) = Unprefixed(raw)
<1> DEFINE p == Unprefixed(raw)
           k == Cardinality(Dots(p))
           n == Len(p)
<1>1. IsList(p) /\ Elements(p) \subseteq Elements(raw)
  BY UnprefixedFacts
<1>2. Stripped(raw) = SubSeq(p, k + 1, n)
  BY DEF Stripped
<1> HIDE DEF p
<1>3. n \in Nat /\ DOMAIN p = 1 .. n
  BY <1>1, ListFacts
<1>4. k \in 0 .. n
  <2>1. Dots(p) \subseteq 1 .. n
    BY <1>3 DEF Dots
  <2>2. QED
    BY <1>3, <2>1, CountedWithin
<1>5. IsList(SubSeq(p, k + 1, n)) /\ Elements(SubSeq(p, k + 1, n)) \subseteq Elements(p)
  <2>1. k + 1 \in 1 .. n + 1 /\ n \in 0 .. n /\ k + 1 <= n + 1
    BY <1>3, <1>4
  <2> HIDE DEF k
  <2>2. QED
    BY <1>1, <2>1, PartOfList
<1>6. Dots(p) = {} => SubSeq(p, k + 1, n) = p
  <2>1. p \in Seq(Elements(p))
    BY <1>1 DEF IsList
  <2>2. SubSeq(p, 1, n) = p
    BY <2>1, SubSeqFull
  <2>3. Cardinality({}) = 0
    BY FS_EmptySet
  <2>4. QED
    BY <2>2, <2>3
<1>7. QED
  BY <1>1, <1>2, <1>5, <1>6 DEF p

LEMMA OutsideIsSuspicious ==
  ASSUME NEW path, IsList(path), Outside(path)
  PROVE  Suspicious(path)
<1>1. \E i \in DOMAIN path : path[i] \in {Root, ".."}
  BY DEF Outside, IsAbsolute
<1>2. QED
  BY <1>1 DEF Suspicious, Elements

LEMMA RefusedIsSuspicious ==
  ASSUME NEW raw, IsList(raw), NonLocal(raw)
  PROVE  Suspicious(raw)
<1>1. IsList(Stripped(raw)) /\ Elements(Stripped(raw)) \subseteq Elements(raw)
  BY StrippedFacts
<1>2. Outside(Stripped(raw))
  BY DEF NonLocal
<1>3. Suspicious(Stripped(raw))
  BY <1>1, <1>2, OutsideIsSuspicious
<1>4. QED
  BY <1>1, <1>3 DEF Suspicious

LEMMA AcceptedIsInside ==
  ASSUME NEW raw, ~NonLocal(raw)
  PROVE  ~Outside(NormalizedPath(raw))
<1>1. CASE raw = DevNull
  <2>1. NormalizedPath(raw) = <<>>
    BY <1>1 DEF NormalizedPath, NoPath
  <2>2. DOMAIN <<>> = {}
    OBVIOUS
  <2>3. ~Outside(<<>>)
    BY <2>2 DEF Outside, IsAbsolute
  <2>4. QED
    BY <2>1, <2>3
<1>2. CASE raw # DevNull
  BY <1>2 DEF NormalizedPath, NonLocal
<1>3. QED
  BY <1>1, <1>2

LEMMA NamesAreNotRoot ==
  /\ Root # "a" /\ Root # "b" /\ Blank # "a" /\ Blank # "b" /\ Root # Blank
  /\ "a" # ".." /\ "b" # ".." /\ Blank # ".."
BY DEF Root, Blank

LEMMA NameIsWhole ==
  ASSUME NEW name, IsName(name)
  PROVE  /\ name # DevNull /\ Dots(name) = {} /\ Len(name) \in Nat /\ Len(name) > 0
         /\ name # NoPath
<1>1. IsList(name) /\ name # <<>> /\ \A i \in DOMAIN name : name[i] # Root /\ name[i] # "."
  BY DEF IsName, Elements
<1>2. Len(name) \in Nat /\ DOMAIN name = 1 .. Len(name)
  BY <1>1, ListFacts
<1>3. Len(name) > 0
  <2>1. name \in Seq(Elements(name))
    BY <1>1 DEF IsList
  <2>2. Len(name) # 0
    BY <1>1, <2>1, EmptySeq
  <2>3. QED
    BY <1>2, <2>2
<1>4. name # DevNull
  <2>1. DevNull[1] = Root
    BY DEF DevNull
  <2>2. 1 \in DOMAIN name
    BY <1>2, <1>3
  <2>3. QED
    BY <1>1, <2>1, <2>2
<1>5. Dots(name) = {}
  <2>1. ASSUME NEW i \in Dots(name)
        PROVE  FALSE
    <3>1. i \in 1 .. Len(name) /\ \A j \in 1 .. i : name[j] = "."
      BY <1>2 DEF Dots
    <3>2. 1 \in 1 .. i /\ 1 \in DOMAIN name
      BY <1>2, <3>1
    <3>3. QED
      BY <1>1, <3>1, <3>2
  <2>2. QED
    BY <2>1
<1>6. QED
  BY <1>1, <1>2, <1>3, <1>4, <1>5 DEF NoPath

(* With git's prefix, a name becomes itself. *)
LEMMA PrefixedName ==
  ASSUME NEW name, IsName(name), NEW x \in {"a", "b"}
  PROVE  NormalizedPath(<<x>> \o name) = name
<1> DEFINE first == <<x>>
           raw == first \o name
<1>1. IsList(name) /\ name[1] # Blank
  BY DEF IsName
<1>2. Dots(name) = {} /\ Len(name) \in Nat /\ Len(name) > 0
  BY NameIsWhole
<1>3. IsList(first) /\ Len(first) = 1 /\ first[1] = x /\ Tail(first) = <<>> /\ first # <<>>
  BY OneLine
<1> HIDE DEF first
<1>4. /\ IsList(raw) /\ Len(raw) = 1 + Len(name)
      /\ raw[1] = x /\ raw[2] = name[1]
  <2>1. /\ IsList(raw) /\ Len(raw) = Len(first) + Len(name)
        /\ \A i \in 1 .. Len(first) : raw[i] = first[i]
        /\ \A i \in 1 .. Len(name) : raw[Len(first) + i] = name[i]
    <3>1. IsList(first) /\ IsList(name)
      BY <1>1, <1>3
    <3>2. QED
      BY <3>1, ListConcat
  <2>2. 1 \in 1 .. Len(first) /\ 1 \in 1 .. Len(name) /\ 1 + 1 = 2
    BY <1>2, <1>3
  <2>3. raw[1] = first[1] /\ raw[1 + 1] = name[1]
    BY <1>3, <2>1, <2>2
  <2>4. QED
    BY <1>3, <2>1, <2>2, <2>3
<1>5. Tail(raw) = name
  <2>1. Tail(raw) = Tail(first) \o name
    BY <1>1, <1>3, ConcatFirst
  <2>2. <<>> \o name = name
    BY <1>1, ConcatNothing
  <2>3. QED
    BY <1>3, <2>1, <2>2
<1> HIDE DEF raw
<1>6. Unprefixed(raw) = name
  <2>1. Len(raw) > 1
    BY <1>2, <1>4
  <2>2. QED
    BY <1>1, <1>4, <1>5, <2>1 DEF Unprefixed, InPrefix
<1>7. raw # DevNull
  <2>1. DevNull[1] = Root
    BY DEF DevNull
  <2>2. QED
    BY <1>4, <2>1, NamesAreNotRoot
<1>8. Stripped(raw) = name
  BY <1>2, <1>4, <1>6, StrippedFacts
<1>9. QED
  BY <1>7, <1>8 DEF NormalizedPath, raw, first

(* Without one, it loses a first component that looks like it. *)
LEMMA BareName ==
  ASSUME NEW name, IsName(name)
  PROVE  NormalizedPath(name) = IF InPrefix(name) THEN Tail(name) ELSE name
<1> DEFINE p == Unprefixed(name)
<1>1. IsList(name) /\ name # DevNull /\ "." \notin Elements(name)
  BY NameIsWhole DEF IsName
<1>2. p = IF InPrefix(name) THEN Tail(name) ELSE name
  BY DEF Unprefixed, InPrefix
<1>3. IsList(p) /\ "." \notin Elements(p)
  BY <1>1, UnprefixedFacts
<1> HIDE DEF p
<1>4. Dots(p) = {}
  <2>1. ASSUME NEW i \in Dots(p)
        PROVE  FALSE
    <3>1. i \in 1 .. Len(p) /\ DOMAIN p = 1 .. Len(p) /\ Len(p) \in Nat /\ \A j \in 1 .. i : p[j] = "."
      BY <1>3, ListFacts DEF Dots
    <3>2. i \in 1 .. i
      BY <3>1
    <3>3. QED
      BY <1>3, <3>1, <3>2 DEF Elements
  <2>2. QED
    BY <2>1
<1>5. Stripped(name) = p
  BY <1>1, <1>4, StrippedFacts DEF p
<1>6. QED
  BY <1>1, <1>2, <1>5 DEF NormalizedPath

--------------------------------------------------------------------------------
(* The lines of a hunk, as far as they are read.                           *)

LEMMA ReplaceLast ==
  ASSUME NEW s, IsList(s), s # <<>>, NEW x
  PROVE  LET t == [s EXCEPT ![Len(s)] = x] IN
         /\ IsList(t) /\ Len(t) = Len(s) /\ Len(s) \in Nat /\ Len(s) > 0
         /\ DOMAIN s = 1 .. Len(s) /\ DOMAIN t = 1 .. Len(s)
         /\ t[Len(s)] = x /\ \A i \in 1 .. Len(s) - 1 : t[i] = s[i]
         /\ t # <<>>
<1> DEFINE n == Len(s)
           t == [s EXCEPT ![n] = x]
<1>1. n \in Nat /\ DOMAIN s = 1 .. n /\ n > 0
  <2>1. s \in Seq(Elements(s))
    BY DEF IsList
  <2>2. n \in Nat /\ DOMAIN s = 1 .. n
    BY ListFacts
  <2>3. n # 0
    BY <2>1, EmptySeq
  <2>4. QED
    BY <2>2, <2>3
<1> HIDE DEF n
<1>2. t = [i \in 1 .. n |-> IF i = n THEN x ELSE s[i]]
  BY <1>1
<1>3. IsList(t) /\ Len(t) = n /\ DOMAIN t = 1 .. n
  <2> DEFINE S == {IF i = n THEN x ELSE s[i] : i \in 1 .. n}
  <2>1. t \in [1 .. n -> S]
    BY <1>2
  <2> HIDE DEF t, S
  <2>2. QED
    BY <1>1, <2>1, FunctionIsList
<1>4. t[n] = x /\ \A i \in 1 .. n - 1 : t[i] = s[i]
  <2>1. n \in 1 .. n /\ \A i \in 1 .. n - 1 : i \in 1 .. n /\ i # n
    BY <1>1
  <2>2. QED
    BY <1>2, <2>1
<1>5. t # <<>>
  <2>1. Len(<<>>) = 0
    OBVIOUS
  <2> HIDE DEF t
  <2>2. QED
    BY <1>1, <1>3, <2>1
<1>6. QED
  BY <1>1, <1>3, <1>4, <1>5 DEF n

(* One line more is counted if it is on the side. *)
LEMMA CountOne ==
  ASSUME NEW body, NEW signs, NEW m \in Nat
  PROVE  /\ CountTo(body, m, signs) \in Nat
         /\ CountTo(body, 0, signs) = 0
         /\ CountTo(body, m + 1, signs) =
              IF body[m + 1].sign \in signs THEN CountTo(body, m, signs) + 1 ELSE CountTo(body, m, signs)
<1> DEFINE P(n) == {i \in 1 .. n : body[i].sign \in signs}
<1>1. IsFiniteSet(P(m)) /\ Cardinality(P(m)) \in Nat
  <2>1. IsFiniteSet(1 .. m)
    BY FS_Interval
  <2>2. P(m) \subseteq 1 .. m
    OBVIOUS
  <2> HIDE DEF P
  <2>3. QED
    BY <2>1, <2>2, FS_Subset, FS_CardinalityType
<1>2. m + 1 \notin P(m) /\ 1 .. m + 1 = (1 .. m) \cup {m + 1}
  OBVIOUS
<1>3. ASSUME body[m + 1].sign \in signs
      PROVE  CountTo(body, m + 1, signs) = CountTo(body, m, signs) + 1
  <2>1. P(m + 1) = P(m) \cup {m + 1}
    BY <1>2, <1>3
  <2> HIDE DEF P
  <2>2. Cardinality(P(m) \cup {m + 1}) = Cardinality(P(m)) + 1
    BY <1>1, <1>2, FS_AddElement
  <2>3. Cardinality(P(m + 1)) = Cardinality(P(m)) + 1
    BY <2>1, <2>2
  <2>4. QED
    BY <2>3 DEF CountTo, P
<1>4. ASSUME body[m + 1].sign \notin signs
      PROVE  CountTo(body, m + 1, signs) = CountTo(body, m, signs)
  <2>1. P(m + 1) = P(m)
    BY <1>2, <1>4
  <2>2. QED
    BY <2>1 DEF CountTo
<1>5. CountTo(body, 0, signs) = 0
  <2>1. P(0) = {}
    OBVIOUS
  <2>2. CountTo(body, 0, signs) = Cardinality({})
    BY <2>1 DEF CountTo
  <2>3. QED
    BY <2>2, FS_EmptySet
<1>6. CountTo(body, m, signs) \in Nat
  BY <1>1 DEF CountTo
<1>7. QED
  BY <1>3, <1>4, <1>5, <1>6

LEMMA CountGrows ==
  ASSUME NEW body, NEW signs, NEW n \in Nat, NEW m \in 0 .. n
  PROVE  CountTo(body, m, signs) <= CountTo(body, n, signs)
<1> DEFINE P(k) == {i \in 1 .. k : body[i].sign \in signs}
<1>1. IsFiniteSet(P(n))
  <2>1. IsFiniteSet(1 .. n)
    BY FS_Interval
  <2>2. P(n) \subseteq 1 .. n
    OBVIOUS
  <2> HIDE DEF P
  <2>3. QED
    BY <2>1, <2>2, FS_Subset
<1>2. P(m) \subseteq P(n)
  OBVIOUS
<1> HIDE DEF P
<1>3. Cardinality(P(m)) <= Cardinality(P(n))
  BY <1>1, <1>2, FS_Subset
<1>4. QED
  BY <1>3 DEF CountTo, P

(* AreNumbers, for the first m lines of the body. *)
NumbersTo(list, body, m, start, sign, side) ==
  /\ Len(list) = CountTo(body, m, {sign})
  /\ \A i \in 1 .. m : body[i].sign = sign =>
       list[CountTo(body, i, {sign})] = start + CountTo(body, i - 1, side)

LEMMA NumberAppended ==
  ASSUME NEW list, IsList(list), NEW body, NEW m \in Nat, NEW start, NEW sign, NEW side,
         NumbersTo(list, body, m, start, sign, side), body[m + 1].sign = sign,
         NEW number, number = start + CountTo(body, m, side)
  PROVE  NumbersTo(Append(list, number), body, m + 1, start, sign, side)
<1> DEFINE n == Len(list)
           new == Append(list, number)
           C(i) == CountTo(body, i, {sign})
<1>1. /\ n \in Nat /\ Len(new) = n + 1
      /\ \A i \in 1 .. n : new[i] = list[i]
      /\ new[n + 1] = number
  BY ListAppend
<1>2. n = C(m)
  BY DEF NumbersTo
<1>3. C(m + 1) = C(m) + 1
  BY CountOne
<1> HIDE DEF new, n
<1>4. ASSUME NEW i \in 1 .. m + 1, body[i].sign = sign
      PROVE  new[C(i)] = start + CountTo(body, i - 1, side)
  <2>1. CASE i = m + 1
    <3>1. i - 1 = m
      BY <2>1
    <3>2. C(i) = n + 1
      BY <1>2, <1>3, <2>1
    <3> HIDE DEF C
    <3>3. QED
      BY <1>1, <3>1, <3>2
  <2>2. CASE i # m + 1
    <3>1. i \in 1 .. m /\ i \in 0 .. m /\ i - 1 \in Nat /\ (i - 1) + 1 = i
      BY <2>2
    <3>2. list[C(i)] = start + CountTo(body, i - 1, side)
      BY <1>4, <3>1 DEF NumbersTo
    <3>3. C(i) <= n
      BY <1>2, <3>1, CountGrows
    <3>4. C(i) = C(i - 1) + 1 /\ C(i - 1) \in Nat
      <4>1. /\ CountTo(body, i - 1, {sign}) \in Nat
            /\ CountTo(body, (i - 1) + 1, {sign}) =
                 IF body[(i - 1) + 1].sign \in {sign} THEN CountTo(body, i - 1, {sign}) + 1
                                                      ELSE CountTo(body, i - 1, {sign})
        BY <3>1, CountOne
      <4>2. QED
        BY <1>4, <3>1, <4>1
    <3> HIDE DEF C
    <3>5. C(i) \in 1 .. n
      BY <1>1, <3>3, <3>4
    <3>6. QED
      BY <1>1, <3>2, <3>5
  <2>3. QED
    BY <2>1, <2>2
<1>5. Len(new) = C(m + 1)
  BY <1>1, <1>2, <1>3
<1>6. QED
  BY <1>4, <1>5 DEF NumbersTo, new

LEMMA NumbersStay ==
  ASSUME NEW list, NEW body, NEW m \in Nat, NEW start, NEW sign, NEW side,
         NumbersTo(list, body, m, start, sign, side), body[m + 1].sign # sign
  PROVE  NumbersTo(list, body, m + 1, start, sign, side)
<1>1. CountTo(body, m + 1, {sign}) = CountTo(body, m, {sign})
  BY CountOne
<1>2. \A i \in 1 .. m + 1 : body[i].sign = sign => i \in 1 .. m
  OBVIOUS
<1>3. QED
  BY <1>1, <1>2 DEF NumbersTo

LEMMA NoNumbers ==
  ASSUME NEW body, NEW start, NEW sign, NEW side
  PROVE  NumbersTo(<<>>, body, 0, start, sign, side)
<1>1. CountTo(body, 0, {sign}) = 0 /\ Len(<<>>) = 0 /\ 0 \in Nat
  BY CountOne
<1>2. QED
  BY <1>1 DEF NumbersTo

(* The parser's record of a hunk. *)
IsHunkRecord(x) ==
  /\ x = [old |-> x.old, new |-> x.new, oldCount |-> x.oldCount, newCount |-> x.newCount,
          added |-> x.added, removed |-> x.removed]
  /\ IsList(x.added) /\ IsList(x.removed) /\ x.new \in Nat /\ x.newCount \in Nat
  /\ \A k \in DOMAIN x.added : x.added[k] \in Nat

(* What a line can move the counter of the new version by. *)
Moving == NewSide \cup {"broken"}

AddedInside(x, hunk) ==
  LET last == hunk.new + CountTo(hunk.body, Len(hunk.body), Moving) - 1 IN
  /\ \A k \in DOMAIN x.added : x.added[k] \in hunk.new .. last
  /\ IsInjective(x.added)

(* The record once m lines of the hunk's body are read. *)
Counters(hunk, m, old, new) ==
  /\ new \in Nat /\ new <= hunk.new + CountTo(hunk.body, m, Moving)
  /\ old \in Nat
  /\ PlainHunk(hunk) => /\ new = hunk.new + CountTo(hunk.body, m, NewSide)
                        /\ old = hunk.old + CountTo(hunk.body, m, OldSide)

AddedTo(list, hunk, m, new) ==
  /\ IsList(list)
  /\ \A k \in DOMAIN list : list[k] \in Nat /\ list[k] >= hunk.new /\ list[k] < new
  /\ new >= hunk.new
  /\ IsInjective(list)
  /\ PlainHunk(hunk) => NumbersTo(list, hunk.body, m, hunk.new, "+", NewSide)

RemovedTo(list, hunk, m) ==
  /\ IsList(list)
  /\ PlainHunk(hunk) => NumbersTo(list, hunk.body, m, hunk.old, "-", OldSide)

HunkUpTo(x, hunk, m, old, new) ==
  /\ x = [old |-> hunk.old, new |-> hunk.new,
          oldCount |-> CountTo(hunk.body, Len(hunk.body), OldSide),
          newCount |-> CountTo(hunk.body, Len(hunk.body), NewSide),
          added |-> x.added, removed |-> x.removed]
  /\ Counters(hunk, m, old, new)
  /\ AddedTo(x.added, hunk, m, new)
  /\ RemovedTo(x.removed, hunk, m)

(* What a line of the body starts with. *)
AnyTag == BodyTags \cup NameTags \cup ModeTags \cup {"diff --git ", "@@"}

LEMMA TagFacts ==
  ASSUME NEW hunk, IsHunk(hunk), NEW m \in 1 .. Len(hunk.body)
  PROVE  LET sign == hunk.body[m].sign
             tag == RawTag(hunk.body[m])
         IN  /\ IsBodyLine(hunk.body[m])
             /\ sign \in {" ", "-", "+", "no newline", "broken"} /\ tag \in AnyTag
             /\ tag \in {" ", "-", "+", "no newline"} => sign \in {tag, "broken"}
             /\ PlainHunk(hunk) => sign = tag
<1>1. m \in DOMAIN hunk.body
  BY BodyFacts
<1> DEFINE line == hunk.body[m]
<1>2. IsBodyLine(line)
  BY <1>1 DEF IsHunk
<1> HIDE DEF line
<1>3. line.sign \in {" ", "-", "+", "no newline", "broken"} /\ (line.sign = "broken" => IsPiece(line))
  BY <1>2 DEF IsBodyLine
<1>4. \/ line.sign = "broken" /\ RawTag(line) = line.begins
      \/ /\ line.sign # "broken"
         /\ RawTag(line) \in {"--- ", "---", "+++ ", "+++", "other", line.sign}
  BY DEF RawTag
<1>5. line.sign = "broken" => line.begins \in AnyTag
  BY <1>3 DEF IsPiece, AnyTag
<1>6. RawTag(line) \in AnyTag
  BY <1>3, <1>4, <1>5 DEF AnyTag, BodyTags, NameTags
<1>7. RawTag(line) \in {" ", "-", "+", "no newline"} => line.sign \in {RawTag(line), "broken"}
  BY <1>4
<1>8. PlainHunk(hunk) => line.sign = RawTag(line)
  BY <1>1 DEF PlainHunk, line
<1>9. QED
  BY <1>2, <1>3, <1>6, <1>7, <1>8 DEF line

LEMMA SidesCounted ==
  ASSUME NEW hunk, IsHunk(hunk), NEW m \in Nat, m + 1 \in 1 .. Len(hunk.body)
  PROVE  LET body == hunk.body
             sign == body[m + 1].sign
         IN  /\ CountTo(body, m + 1, NewSide) =
                  IF sign \in {" ", "+"} THEN CountTo(body, m, NewSide) + 1 ELSE CountTo(body, m, NewSide)
             /\ CountTo(body, m + 1, OldSide) =
                  IF sign \in {" ", "-"} THEN CountTo(body, m, OldSide) + 1 ELSE CountTo(body, m, OldSide)
             /\ CountTo(body, m + 1, Moving) =
                  IF sign \in {" ", "+", "broken"} THEN CountTo(body, m, Moving) + 1
                                                   ELSE CountTo(body, m, Moving)
<1> DEFINE body == hunk.body
           sign == body[m + 1].sign
<1> HIDE DEF body
<1>1. /\ CountTo(body, m + 1, NewSide) =
           IF sign \in NewSide THEN CountTo(body, m, NewSide) + 1 ELSE CountTo(body, m, NewSide)
      /\ CountTo(body, m + 1, OldSide) =
           IF sign \in OldSide THEN CountTo(body, m, OldSide) + 1 ELSE CountTo(body, m, OldSide)
      /\ CountTo(body, m + 1, Moving) =
           IF sign \in Moving THEN CountTo(body, m, Moving) + 1 ELSE CountTo(body, m, Moving)
  <2>1. \A signs : CountTo(body, m + 1, signs) =
                     IF sign \in signs THEN CountTo(body, m, signs) + 1 ELSE CountTo(body, m, signs)
    BY CountOne
  <2>2. QED
    BY <2>1
<1>2. NewSide = {" ", "+"} /\ OldSide = {" ", "-"} /\ Moving = {" ", "+", "broken"}
  BY DEF NewSide, OldSide, Moving
<1>3. QED
  BY <1>1, <1>2 DEF body

(* The counters after a line of the body, for each beginning of it. *)
LEMMA CountersMove ==
  ASSUME NEW hunk, IsHunk(hunk), NEW m \in Nat, m + 1 \in 1 .. Len(hunk.body), NEW old, NEW new,
         Counters(hunk, m, old, new)
  PROVE  LET tag == RawTag(hunk.body[m + 1]) IN
         /\ tag = "+" => Counters(hunk, m + 1, old, new + 1)
         /\ tag = "-" => Counters(hunk, m + 1, old + 1, new)
         /\ tag = " " => Counters(hunk, m + 1, old + 1, new + 1)
         /\ tag \notin {"+", "-", " "} => Counters(hunk, m + 1, old, new)
<1> DEFINE tag == RawTag(hunk.body[m + 1])
           sign == hunk.body[m + 1].sign
           n0 == CountTo(hunk.body, m, NewSide)
           n1 == CountTo(hunk.body, m + 1, NewSide)
           o0 == CountTo(hunk.body, m, OldSide)
           o1 == CountTo(hunk.body, m + 1, OldSide)
           w0 == CountTo(hunk.body, m, Moving)
           w1 == CountTo(hunk.body, m + 1, Moving)
           start == hunk.new
           first == hunk.old
           plain == PlainHunk(hunk)
<1>1. /\ tag \in {" ", "-", "+", "no newline"} => sign \in {tag, "broken"}
      /\ plain => sign = tag
  BY TagFacts
<1>a. n0 \in Nat /\ o0 \in Nat /\ w0 \in Nat
  BY CountOne
<1>2. /\ n1 = IF sign \in {" ", "+"} THEN n0 + 1 ELSE n0
      /\ o1 = IF sign \in {" ", "-"} THEN o0 + 1 ELSE o0
      /\ w1 = IF sign \in {" ", "+", "broken"} THEN w0 + 1 ELSE w0
  BY SidesCounted
<1>3. /\ new \in Nat /\ new <= start + w0 /\ old \in Nat
      /\ plain => new = start + n0 /\ old = first + o0
  BY DEF Counters
<1>4. start \in Nat /\ first \in Nat
  BY DEF IsHunk
<1>5. \A a, b : Counters(hunk, m + 1, a, b) <=>
                  /\ b \in Nat /\ b <= start + w1 /\ a \in Nat
                  /\ plain => b = start + n1 /\ a = first + o1
  BY DEF Counters
<1> HIDE DEF tag, sign, n0, n1, o0, o1, w0, w1, start, first, plain
<1>b. tag \in {" ", "+"} => w1 = w0 + 1
  <2>1. tag \in {" ", "+"} => sign \in {" ", "+", "broken"}
    BY <1>1
  <2>2. QED
    BY <1>2, <2>1
<1>c. w1 \in Nat /\ w0 \in Nat /\ w0 <= w1
  <2>1. w1 = w0 + 1 \/ w1 = w0
    BY <1>2
  <2>2. QED
    BY <1>a, <2>1
<1>d. new \in Nat /\ new <= start + w0 /\ old \in Nat
  BY <1>3
<1>6. ASSUME tag = "+"
      PROVE  Counters(hunk, m + 1, old, new + 1)
  <2>1. new + 1 \in Nat /\ new + 1 <= start + w1
    <3>1. w1 = w0 + 1
      BY <1>b, <1>6
    <3>2. QED
      BY <1>c, <1>d, <1>4, <3>1
  <2>2. plain => n1 = n0 + 1 /\ o1 = o0
    BY <1>1, <1>2, <1>6
  <2>3. plain => new + 1 = start + n1 /\ old = first + o1
    BY <1>a, <1>3, <1>4, <2>2
  <2>4. QED
    BY <1>3, <1>5, <2>1, <2>3
<1>7. ASSUME tag = "-"
      PROVE  Counters(hunk, m + 1, old + 1, new)
  <2>1. old + 1 \in Nat /\ new <= start + w1
    BY <1>c, <1>d, <1>4
  <2>2. plain => n1 = n0 /\ o1 = o0 + 1
    BY <1>1, <1>2, <1>7
  <2>3. plain => new = start + n1 /\ old + 1 = first + o1
    BY <1>a, <1>3, <1>4, <2>2
  <2>4. QED
    BY <1>3, <1>5, <2>1, <2>3
<1>8. ASSUME tag = " "
      PROVE  Counters(hunk, m + 1, old + 1, new + 1)
  <2>1. new + 1 \in Nat /\ old + 1 \in Nat /\ new + 1 <= start + w1
    <3>1. w1 = w0 + 1
      BY <1>b, <1>8
    <3>2. QED
      BY <1>c, <1>d, <1>4, <3>1
  <2>2. plain => n1 = n0 + 1 /\ o1 = o0 + 1
    BY <1>1, <1>2, <1>8
  <2>3. plain => new + 1 = start + n1 /\ old + 1 = first + o1
    BY <1>a, <1>3, <1>4, <2>2
  <2>4. QED
    BY <1>5, <2>1, <2>3
<1>9. ASSUME tag \notin {"+", "-", " "}
      PROVE  Counters(hunk, m + 1, old, new)
  <2>1. plain => n1 = n0 /\ o1 = o0
    BY <1>1, <1>2, <1>9
  <2>2. new <= start + w1
    BY <1>c, <1>d, <1>4
  <2>3. plain => new = start + n1 /\ old = first + o1
    BY <1>3, <2>1
  <2>4. QED
    BY <1>3, <1>5, <2>2, <2>3
<1>10. QED
  BY <1>6, <1>7, <1>8, <1>9 DEF tag

LEMMA AddedMove ==
  ASSUME NEW hunk, IsHunk(hunk), NEW m \in Nat, m + 1 \in 1 .. Len(hunk.body), NEW old, NEW new,
         Counters(hunk, m, old, new), NEW list, AddedTo(list, hunk, m, new)
  PROVE  LET tag == RawTag(hunk.body[m + 1]) IN
         /\ tag = "+" => AddedTo(Append(list, new), hunk, m + 1, new + 1)
         /\ tag = " " => AddedTo(list, hunk, m + 1, new + 1)
         /\ tag \notin {"+", " "} => AddedTo(list, hunk, m + 1, new)
<1> DEFINE tag == RawTag(hunk.body[m + 1])
           sign == hunk.body[m + 1].sign
           added == Append(list, new)
           n == Len(list)
<1>1. PlainHunk(hunk) => sign = tag
  BY TagFacts
<1>2. /\ new \in Nat /\ hunk.new \in Nat
      /\ PlainHunk(hunk) => new = hunk.new + CountTo(hunk.body, m, NewSide)
  BY DEF Counters, IsHunk
<1>3. /\ IsList(list) /\ new >= hunk.new /\ IsInjective(list)
      /\ \A k \in DOMAIN list : list[k] \in Nat /\ list[k] >= hunk.new /\ list[k] < new
      /\ PlainHunk(hunk) => NumbersTo(list, hunk.body, m, hunk.new, "+", NewSide)
  BY DEF AddedTo
<1>4. /\ IsList(added) /\ n \in Nat /\ DOMAIN list = 1 .. n /\ DOMAIN added = 1 .. n + 1
      /\ \A i \in 1 .. n : added[i] = list[i]
      /\ added[n + 1] = new
  BY <1>3, ListAppend
<1>5. ASSUME PlainHunk(hunk), sign = "+"
      PROVE  NumbersTo(added, hunk.body, m + 1, hunk.new, "+", NewSide)
  BY <1>2, <1>3, <1>5, NumberAppended
<1>6. ASSUME PlainHunk(hunk), sign # "+"
      PROVE  NumbersTo(list, hunk.body, m + 1, hunk.new, "+", NewSide)
  BY <1>3, <1>6, NumbersStay
<1> HIDE DEF tag, sign, added, n
<1>7. ASSUME tag = "+"
      PROVE  AddedTo(added, hunk, m + 1, new + 1)
  <2>1. \A k \in DOMAIN added : added[k] \in Nat /\ added[k] >= hunk.new /\ added[k] < new + 1
    <3>1. ASSUME NEW k \in 1 .. n + 1
          PROVE  added[k] \in Nat /\ added[k] >= hunk.new /\ added[k] < new + 1
      <4>1. CASE k = n + 1
        BY <1>2, <1>3, <1>4, <4>1
      <4>2. CASE k # n + 1
        <5>1. k \in 1 .. n
          BY <1>4, <4>2
        <5>2. list[k] \in Nat /\ list[k] >= hunk.new /\ list[k] < new /\ added[k] = list[k]
          BY <1>3, <1>4, <5>1
        <5>3. QED
          BY <1>2, <5>2
      <4>3. QED
        BY <4>1, <4>2
    <3>2. QED
      BY <1>4, <3>1
  <2>2. IsInjective(added)
    <3>1. ASSUME NEW k \in 1 .. n + 1, NEW l \in 1 .. n + 1, added[k] = added[l]
          PROVE  k = l
      <4>1. CASE k \in 1 .. n /\ l \in 1 .. n
        <5>1. list[k] = list[l] /\ k \in DOMAIN list /\ l \in DOMAIN list
          BY <1>4, <3>1, <4>1
        <5>2. QED
          BY <1>3, <5>1 DEF IsInjective
      <4>2. ASSUME NEW i \in 1 .. n
            PROVE  added[n + 1] # added[i]
        <5>1. added[i] = list[i] /\ list[i] \in Nat /\ list[i] < new /\ added[n + 1] = new
          BY <1>3, <1>4
        <5>2. list[i] # new
          BY <1>2, <5>1
        <5>3. QED
          BY <5>1, <5>2
      <4>3. k \in 1 .. n \/ k = n + 1
        BY <1>4
      <4>a. l \in 1 .. n \/ l = n + 1
        BY <1>4
      <4>4. QED
        BY <3>1, <4>1, <4>2, <4>3, <4>a
    <3>2. QED
      BY <1>4, <3>1 DEF IsInjective
  <2>3. new + 1 >= hunk.new
    BY <1>2, <1>3
  <2>4. PlainHunk(hunk) => NumbersTo(added, hunk.body, m + 1, hunk.new, "+", NewSide)
    BY <1>1, <1>5, <1>7
  <2>5. QED
    BY <1>4, <2>1, <2>2, <2>3, <2>4 DEF AddedTo
<1>8. ASSUME tag = " "
      PROVE  AddedTo(list, hunk, m + 1, new + 1)
  <2>1. \A k \in DOMAIN list : list[k] \in Nat /\ list[k] >= hunk.new /\ list[k] < new + 1
    BY <1>2, <1>3
  <2>2. new + 1 >= hunk.new
    BY <1>2, <1>3
  <2>3. PlainHunk(hunk) => NumbersTo(list, hunk.body, m + 1, hunk.new, "+", NewSide)
    BY <1>1, <1>6, <1>8
  <2>4. QED
    BY <1>3, <2>1, <2>2, <2>3 DEF AddedTo
<1>9. ASSUME tag \notin {"+", " "}
      PROVE  AddedTo(list, hunk, m + 1, new)
  <2>1. PlainHunk(hunk) => NumbersTo(list, hunk.body, m + 1, hunk.new, "+", NewSide)
    BY <1>1, <1>6, <1>9
  <2>2. QED
    BY <1>3, <2>1 DEF AddedTo
<1>10. QED
  BY <1>7, <1>8, <1>9 DEF tag, added

LEMMA RemovedMove ==
  ASSUME NEW hunk, IsHunk(hunk), NEW m \in Nat, m + 1 \in 1 .. Len(hunk.body), NEW old, NEW new,
         Counters(hunk, m, old, new), NEW list, RemovedTo(list, hunk, m)
  PROVE  LET tag == RawTag(hunk.body[m + 1]) IN
         /\ tag = "-" => RemovedTo(Append(list, old), hunk, m + 1)
         /\ tag # "-" => RemovedTo(list, hunk, m + 1)
<1> DEFINE tag == RawTag(hunk.body[m + 1])
           sign == hunk.body[m + 1].sign
<1>1. PlainHunk(hunk) => sign = tag
  BY TagFacts
<1>2. PlainHunk(hunk) => old = hunk.old + CountTo(hunk.body, m, OldSide)
  BY DEF Counters
<1>3. /\ IsList(list) /\ IsList(Append(list, old))
      /\ PlainHunk(hunk) => NumbersTo(list, hunk.body, m, hunk.old, "-", OldSide)
  BY ListAppend DEF RemovedTo
<1>4. ASSUME PlainHunk(hunk), sign = "-"
      PROVE  NumbersTo(Append(list, old), hunk.body, m + 1, hunk.old, "-", OldSide)
  BY <1>2, <1>3, <1>4, NumberAppended
<1>5. ASSUME PlainHunk(hunk), sign # "-"
      PROVE  NumbersTo(list, hunk.body, m + 1, hunk.old, "-", OldSide)
  BY <1>3, <1>5, NumbersStay
<1> HIDE DEF tag, sign
<1>6. tag = "-" => RemovedTo(Append(list, old), hunk, m + 1)
  BY <1>1, <1>3, <1>4 DEF RemovedTo
<1>7. tag # "-" => RemovedTo(list, hunk, m + 1)
  BY <1>1, <1>3, <1>5 DEF RemovedTo
<1>8. QED
  BY <1>6, <1>7 DEF tag

(* What the record of a hunk keeps, whatever is added to its lists. *)
LEMMA RecordFacts ==
  ASSUME NEW x, IsHunkRecord(x), NEW number
  PROVE  /\ LET y == [x EXCEPT !.added = Append(@, number)] IN
            y = [old |-> x.old, new |-> x.new, oldCount |-> x.oldCount, newCount |-> x.newCount,
                 added |-> Append(x.added, number), removed |-> x.removed]
         /\ LET z == [x EXCEPT !.removed = Append(@, number)] IN
            z = [old |-> x.old, new |-> x.new, oldCount |-> x.oldCount, newCount |-> x.newCount,
                 added |-> x.added, removed |-> Append(x.removed, number)]
<1>1. PICK a, b, c1, c2, d1, d2 : x = [old |-> a, new |-> b, oldCount |-> c1, newCount |-> c2,
                                     added |-> d1, removed |-> d2]
  BY DEF IsHunkRecord
<1>2. /\ x.old = a /\ x.new = b /\ x.oldCount = c1 /\ x.newCount = c2
      /\ x.added = d1 /\ x.removed = d2
  BY <1>1
<1> DEFINE e == Append(x.added, number)
           f1 == Append(x.removed, number)
<1> HIDE DEF e, f1
<1>3. /\ [x EXCEPT !.added = e] = [old |-> a, new |-> b, oldCount |-> c1, newCount |-> c2,
                                   added |-> e, removed |-> d2]
      /\ [x EXCEPT !.removed = f1] = [old |-> a, new |-> b, oldCount |-> c1, newCount |-> c2,
                                      added |-> d1, removed |-> f1]
  BY <1>1
<1>4. QED
  BY <1>2, <1>3, Zenon DEF e, f1

LEMMA AddedIsRecorded ==
  ASSUME NEW x, IsHunkRecord(x), NEW number \in Nat
  PROVE  IsHunkRecord([x EXCEPT !.added = Append(@, number)])
<1> DEFINE y == [x EXCEPT !.added = Append(@, number)]
           e == Append(x.added, number)
           n == Len(x.added)
<1>1. /\ IsList(x.added) /\ IsList(x.removed) /\ x.new \in Nat /\ x.newCount \in Nat
      /\ \A k \in DOMAIN x.added : x.added[k] \in Nat
  BY DEF IsHunkRecord
<1>2. /\ IsList(e) /\ n \in Nat /\ DOMAIN x.added = 1 .. n /\ DOMAIN e = 1 .. n + 1
      /\ \A k \in 1 .. n : e[k] = x.added[k]
      /\ e[n + 1] = number
  BY <1>1, ListAppend
<1>3. y = [old |-> x.old, new |-> x.new, oldCount |-> x.oldCount, newCount |-> x.newCount,
           added |-> e, removed |-> x.removed]
  BY RecordFacts
<1> HIDE DEF y, e, n
<1>4. \A k \in 1 .. n + 1 : e[k] \in Nat
  <2>1. \A k \in 1 .. n + 1 : k \in 1 .. n \/ k = n + 1
    BY <1>2
  <2>2. QED
    BY <1>1, <1>2, <2>1
<1>5. /\ y.old = x.old /\ y.new = x.new /\ y.oldCount = x.oldCount /\ y.newCount = x.newCount
      /\ y.added = e /\ y.removed = x.removed
  BY <1>3
<1>6. y = [old |-> y.old, new |-> y.new, oldCount |-> y.oldCount, newCount |-> y.newCount,
           added |-> y.added, removed |-> y.removed]
  BY <1>3, <1>5, Zenon
<1>7. IsHunkRecord(y)
  BY <1>1, <1>2, <1>4, <1>5, <1>6 DEF IsHunkRecord
<1>8. QED
  BY <1>7 DEF y

LEMMA RemovedIsRecorded ==
  ASSUME NEW x, IsHunkRecord(x), NEW number
  PROVE  LET z == [x EXCEPT !.removed = Append(@, number)] IN
         IsHunkRecord(z) /\ z.added = x.added
<1> DEFINE z == [x EXCEPT !.removed = Append(@, number)]
           e == Append(x.removed, number)
<1>1. /\ IsList(x.added) /\ IsList(x.removed) /\ x.new \in Nat /\ x.newCount \in Nat
      /\ \A k \in DOMAIN x.added : x.added[k] \in Nat
  BY DEF IsHunkRecord
<1>2. IsList(e)
  BY <1>1, ListAppend
<1>3. z = [old |-> x.old, new |-> x.new, oldCount |-> x.oldCount, newCount |-> x.newCount,
           added |-> x.added, removed |-> e]
  BY RecordFacts
<1> HIDE DEF z, e
<1>4. /\ z.old = x.old /\ z.new = x.new /\ z.oldCount = x.oldCount /\ z.newCount = x.newCount
      /\ z.added = x.added /\ z.removed = e
  BY <1>3
<1>5. z = [old |-> z.old, new |-> z.new, oldCount |-> z.oldCount, newCount |-> z.newCount,
           added |-> z.added, removed |-> z.removed]
  BY <1>3, <1>4, Zenon
<1>6. IsHunkRecord(z)
  BY <1>1, <1>2, <1>4, <1>5 DEF IsHunkRecord
<1>7. QED
  BY <1>4, <1>6 DEF z

(* The record of a hunk that is read, and of one that is left. *)
HunkDone(x, hunk) ==
  /\ IsHunkRecord(x) /\ AddedInside(x, hunk)
  /\ PlainHunk(hunk) => Exact(x, hunk)

NewHunkRecord(line) ==
  [old |-> line.old, new |-> line.new, oldCount |-> line.oldCount, newCount |-> line.newCount,
   added |-> <<>>, removed |-> <<>>]

LEMMA HunkStarts ==
  ASSUME NEW hunk, IsHunk(hunk)
  PROVE  HunkUpTo(NewHunkRecord(HunkHeader(hunk)), hunk, 0, hunk.old, hunk.new)
<1> DEFINE line == HunkHeader(hunk)
           x == NewHunkRecord(line)
<1>1. /\ line.old = hunk.old /\ line.new = hunk.new
      /\ line.oldCount = CountTo(hunk.body, Len(hunk.body), OldSide)
      /\ line.newCount = CountTo(hunk.body, Len(hunk.body), NewSide)
  BY DEF HunkHeader
<1> HIDE DEF line
<1>2. x = [old |-> hunk.old, new |-> hunk.new,
           oldCount |-> CountTo(hunk.body, Len(hunk.body), OldSide),
           newCount |-> CountTo(hunk.body, Len(hunk.body), NewSide),
           added |-> <<>>, removed |-> <<>>]
  BY <1>1 DEF NewHunkRecord
<1>3. x.added = <<>> /\ x.removed = <<>>
  BY <1>2
<1> HIDE DEF x
<1>4. hunk.old \in Nat /\ hunk.new \in Nat /\ 0 \in Nat
  BY DEF IsHunk
<1>5. /\ CountTo(hunk.body, 0, NewSide) = 0 /\ CountTo(hunk.body, 0, OldSide) = 0
      /\ CountTo(hunk.body, 0, Moving) = 0
  BY <1>4, CountOne
<1>6. Counters(hunk, 0, hunk.old, hunk.new)
  <2> DEFINE new == hunk.new
             old == hunk.old
  <2>1. new + 0 = new /\ old + 0 = old /\ new <= new + 0
    BY <1>4
  <2>2. QED
    BY <1>4, <1>5, <2>1 DEF Counters
<1>7. IsList(<<>>) /\ DOMAIN <<>> = {}
  BY DEF IsList
<1>8. AddedTo(<<>>, hunk, 0, hunk.new)
  <2>1. NumbersTo(<<>>, hunk.body, 0, hunk.new, "+", NewSide)
    BY NoNumbers
  <2>2. IsInjective(<<>>)
    BY <1>7 DEF IsInjective
  <2>3. hunk.new >= hunk.new
    BY <1>4
  <2>4. QED
    BY <1>7, <2>1, <2>2, <2>3 DEF AddedTo
<1>9. RemovedTo(<<>>, hunk, 0)
  BY <1>7, NoNumbers DEF RemovedTo
<1>10. QED
  BY <1>2, <1>3, <1>6, <1>8, <1>9 DEF HunkUpTo, x, line

LEMMA HunkFields ==
  ASSUME NEW hunk, IsHunk(hunk), NEW x, NEW m, NEW old, NEW new, HunkUpTo(x, hunk, m, old, new)
  PROVE  /\ x.old = hunk.old /\ x.new = hunk.new
         /\ x.newCount = CountTo(hunk.body, Len(hunk.body), NewSide)
         /\ x = [old |-> x.old, new |-> x.new, oldCount |-> x.oldCount, newCount |-> x.newCount,
                 added |-> x.added, removed |-> x.removed]
         /\ IsHunkRecord(x)
<1> DEFINE a == x.added
           b == x.removed
           i == CountTo(hunk.body, Len(hunk.body), OldSide)
           k == CountTo(hunk.body, Len(hunk.body), NewSide)
<1>1. x = [old |-> hunk.old, new |-> hunk.new, oldCount |-> i, newCount |-> k, added |-> a, removed |-> b]
  BY DEF HunkUpTo
<1>2. IsList(a) /\ IsList(b) /\ \A n \in DOMAIN a : a[n] \in Nat
  BY DEF HunkUpTo, AddedTo, RemovedTo
<1> HIDE DEF a, b, i, k
<1>3. /\ x.old = hunk.old /\ x.new = hunk.new /\ x.oldCount = i /\ x.newCount = k
      /\ x.added = a /\ x.removed = b
  BY <1>1
<1>4. x = [old |-> x.old, new |-> x.new, oldCount |-> x.oldCount, newCount |-> x.newCount,
           added |-> x.added, removed |-> x.removed]
  BY <1>1, <1>3, Zenon
<1>5. hunk.new \in Nat /\ k \in Nat
  <2>1. hunk.new \in Nat /\ Len(hunk.body) \in Nat
    BY BodyFacts DEF IsHunk
  <2>2. QED
    BY <2>1, CountOne DEF k
<1>6. QED
  BY <1>2, <1>3, <1>4, <1>5 DEF IsHunkRecord, k

LEMMA HunkStaysInside ==
  ASSUME NEW hunk, IsHunk(hunk), NEW x, NEW m \in 0 .. Len(hunk.body), NEW old, NEW new,
         HunkUpTo(x, hunk, m, old, new)
  PROVE  AddedInside(x, hunk)
<1> DEFINE some == CountTo(hunk.body, m, Moving)
           all == CountTo(hunk.body, Len(hunk.body), Moving)
           start == hunk.new
           list == x.added
<1>2. Len(hunk.body) \in Nat /\ m \in Nat
  BY BodyFacts
<1>3. some <= all /\ some \in Nat /\ all \in Nat
  BY <1>2, CountGrows, CountOne
<1>4. new \in Nat /\ new <= start + some
  BY DEF HunkUpTo, Counters
<1>5. /\ \A k \in DOMAIN list : list[k] \in Nat /\ list[k] >= start /\ list[k] < new
      /\ IsInjective(list)
  BY DEF HunkUpTo, AddedTo
<1>6. start \in Nat
  BY DEF IsHunk
<1> HIDE DEF some, all, start, list
<1>7. ASSUME NEW k \in DOMAIN list
      PROVE  list[k] \in start .. start + all - 1
  <2> DEFINE n == list[k]
  <2>1. n \in Nat /\ n >= start /\ n < new
    BY <1>5
  <2> HIDE DEF n
  <2>2. n \in start .. start + all - 1
    BY <1>3, <1>4, <1>6, <2>1
  <2>3. QED
    BY <2>2 DEF n
<1>8. /\ \A k \in DOMAIN list : list[k] \in start .. start + all - 1
      /\ IsInjective(list)
  BY <1>5, <1>7
<1>9. QED
  BY <1>8, Zenon DEF AddedInside, list, all, start

LEMMA HunkEnds ==
  ASSUME NEW hunk, IsHunk(hunk), NEW x, NEW old, NEW new,
         HunkUpTo(x, hunk, Len(hunk.body), old, new)
  PROVE  HunkDone(x, hunk)
<1> DEFINE m == Len(hunk.body)
<1>1. m \in Nat /\ DOMAIN hunk.body = 1 .. m /\ m \in 0 .. m
  BY BodyFacts
<1>2. IsHunkRecord(x) /\ x.old = hunk.old /\ x.new = hunk.new
  BY HunkFields
<1>3. AddedInside(x, hunk)
  BY <1>1, HunkStaysInside
<1>4. ASSUME PlainHunk(hunk)
      PROVE  Exact(x, hunk)
  <2>1. NumbersTo(x.added, hunk.body, m, hunk.new, "+", NewSide)
    BY <1>4 DEF HunkUpTo, AddedTo
  <2>2. NumbersTo(x.removed, hunk.body, m, hunk.old, "-", OldSide)
    BY <1>4 DEF HunkUpTo, RemovedTo
  <2>3. \A list, start, sign, side :
          NumbersTo(list, hunk.body, m, start, sign, side) => AreNumbers(list, hunk.body, start, sign, side)
    BY <1>1 DEF NumbersTo, AreNumbers
  <2>4. QED
    BY <1>2, <2>1, <2>2, <2>3 DEF Exact
<1>5. QED
  BY <1>2, <1>3, <1>4 DEF HunkDone

(* The record after a line of the body, for each beginning of it. *)
LEMMA HunkMoves ==
  ASSUME NEW hunk, IsHunk(hunk), NEW m \in Nat, m + 1 \in 1 .. Len(hunk.body), NEW old, NEW new,
         NEW x, HunkUpTo(x, hunk, m, old, new)
  PROVE  LET tag == RawTag(hunk.body[m + 1]) IN
         /\ tag = "+" => HunkUpTo([x EXCEPT !.added = Append(@, new)], hunk, m + 1, old, new + 1)
         /\ tag = "-" => HunkUpTo([x EXCEPT !.removed = Append(@, old)], hunk, m + 1, old + 1, new)
         /\ tag = " " => HunkUpTo(x, hunk, m + 1, old + 1, new + 1)
         /\ tag \notin {"+", "-", " "} => HunkUpTo(x, hunk, m + 1, old, new)
<1> DEFINE tag == RawTag(hunk.body[m + 1])
           a == x.added
           b == x.removed
           i == CountTo(hunk.body, Len(hunk.body), OldSide)
           k == CountTo(hunk.body, Len(hunk.body), NewSide)
           S(added, removed) == [old |-> hunk.old, new |-> hunk.new, oldCount |-> i, newCount |-> k,
                                 added |-> added, removed |-> removed]
           y == [x EXCEPT !.added = Append(@, new)]
           z == [x EXCEPT !.removed = Append(@, old)]
<1>1. x = S(a, b) /\ Counters(hunk, m, old, new) /\ AddedTo(a, hunk, m, new) /\ RemovedTo(b, hunk, m)
  BY DEF HunkUpTo
<1>2. y = S(Append(a, new), b) /\ y.added = Append(a, new) /\ y.removed = b
  <2> HIDE DEF a, b, i, k
  <2>1. x.added = a
    BY DEF a
  <2>2. QED
    BY <1>1, <2>1
<1>3. z = S(a, Append(b, old)) /\ z.added = a /\ z.removed = Append(b, old)
  <2> HIDE DEF a, b, i, k
  <2>1. x.removed = b
    BY DEF b
  <2>2. QED
    BY <1>1, <2>1
<1> HIDE DEF tag, y, z
<1>4. /\ tag = "+" => Counters(hunk, m + 1, old, new + 1)
      /\ tag = "-" => Counters(hunk, m + 1, old + 1, new)
      /\ tag = " " => Counters(hunk, m + 1, old + 1, new + 1)
      /\ tag \notin {"+", "-", " "} => Counters(hunk, m + 1, old, new)
  BY <1>1, CountersMove DEF tag
<1>5. /\ tag = "+" => AddedTo(Append(a, new), hunk, m + 1, new + 1)
      /\ tag = " " => AddedTo(a, hunk, m + 1, new + 1)
      /\ tag \notin {"+", " "} => AddedTo(a, hunk, m + 1, new)
  BY <1>1, AddedMove DEF tag
<1>6. /\ tag = "-" => RemovedTo(Append(b, old), hunk, m + 1)
      /\ tag # "-" => RemovedTo(b, hunk, m + 1)
  BY <1>1, RemovedMove DEF tag
<1>7. \A p, q, t : p = S(p.added, p.removed) /\ Counters(hunk, m + 1, q, t)
                     /\ AddedTo(p.added, hunk, m + 1, t) /\ RemovedTo(p.removed, hunk, m + 1)
                   => HunkUpTo(p, hunk, m + 1, q, t)
  BY DEF HunkUpTo
<1> HIDE DEF S
<1>8. y = S(y.added, y.removed) /\ z = S(z.added, z.removed) /\ x = S(x.added, x.removed)
  BY <1>1, <1>2, <1>3, Zenon
<1>9. tag = "+" => HunkUpTo(y, hunk, m + 1, old, new + 1)
  BY <1>2, <1>4, <1>5, <1>6, <1>7, <1>8
<1>10. tag = "-" => HunkUpTo(z, hunk, m + 1, old + 1, new)
  BY <1>3, <1>4, <1>5, <1>6, <1>7, <1>8
<1>11. tag = " " => HunkUpTo(x, hunk, m + 1, old + 1, new + 1)
  BY <1>4, <1>5, <1>6, <1>7, <1>8
<1>12. tag \notin {"+", "-", " "} => HunkUpTo(x, hunk, m + 1, old, new)
  BY <1>4, <1>5, <1>6, <1>7, <1>8
<1>13. QED
  BY <1>9, <1>10, <1>11, <1>12 DEF tag, y, z

--------------------------------------------------------------------------------
(* The header of a file, as far as it is read.                             *)

FileShape(rec) == rec = [old |-> rec.old, new |-> rec.new, hint |-> rec.hint, hunks |-> rec.hunks]

OldIs(file) == IF file.hunks # <<>> /\ file.change = "added" THEN NoPath ELSE Recorded(file, file.old)
NewIs(file) == IF file.hunks # <<>> /\ file.change = "deleted" THEN NoPath ELSE Recorded(file, file.new)

(* From which line on a name is known: the names of the renamed file are   *)
(* written over by those before the hunks.                                 *)
BareNames(file) == file.change = "renamed" /\ file.hunks = <<>>
FirstNames(file) == file.change # "renamed" /\ Blank \notin Elements(file.old)

OldKnown(file, m) ==
  \/ file.hunks # <<>> /\ m > ExtendedLines(file)
  \/ file.hunks = <<>> /\ BareNames(file) /\ m >= 1
  \/ file.hunks = <<>> /\ FirstNames(file)

NewKnown(file, m) ==
  \/ file.hunks # <<>> /\ m > ExtendedLines(file) + 1
  \/ file.hunks = <<>> /\ BareNames(file) /\ m >= 2
  \/ file.hunks = <<>> /\ FirstNames(file)

HintAt(file, m) == IF m = 0 \/ file.change = "modified" THEN "none" ELSE file.change

HeaderUpTo(rec, file, m) ==
  /\ rec.hint = HintAt(file, m)
  /\ OldKnown(file, m) => rec.old = OldIs(file)
  /\ NewKnown(file, m) => rec.new = NewIs(file)

(* What a line of the header does, or one that looks like it. *)
WithOld(rec, path) == [rec EXCEPT !.old = NormalizedPath(path)]
WithNew(rec, path) == [rec EXCEPT !.new = NormalizedPath(path)]
WithHint(rec, hint) == [rec EXCEPT !.hint = hint]

LEMMA ShapeFacts ==
  ASSUME NEW rec, FileShape(rec), NEW path, NEW hint
  PROVE  /\ LET y == WithOld(rec, path) IN
            /\ FileShape(y) /\ y.old = NormalizedPath(path) /\ y.new = rec.new
            /\ y.hint = rec.hint /\ y.hunks = rec.hunks
         /\ LET y == WithNew(rec, path) IN
            /\ FileShape(y) /\ y.old = rec.old /\ y.new = NormalizedPath(path)
            /\ y.hint = rec.hint /\ y.hunks = rec.hunks
         /\ LET y == WithHint(rec, hint) IN
            /\ FileShape(y) /\ y.old = rec.old /\ y.new = rec.new
            /\ y.hint = hint /\ y.hunks = rec.hunks
<1>1. PICK a, b, g, l : rec = [old |-> a, new |-> b, hint |-> g, hunks |-> l]
  BY DEF FileShape
<1> DEFINE n == NormalizedPath(path)
<1>2. /\ WithOld(rec, path) = [old |-> n, new |-> b, hint |-> g, hunks |-> l]
      /\ WithNew(rec, path) = [old |-> a, new |-> n, hint |-> g, hunks |-> l]
      /\ WithHint(rec, hint) = [old |-> a, new |-> b, hint |-> hint, hunks |-> l]
  <2> HIDE DEF n
  <2>1. [rec EXCEPT !.old = n] = [old |-> n, new |-> b, hint |-> g, hunks |-> l]
    BY <1>1
  <2>2. [rec EXCEPT !.new = n] = [old |-> a, new |-> n, hint |-> g, hunks |-> l]
    BY <1>1
  <2>3. [rec EXCEPT !.hint = hint] = [old |-> a, new |-> b, hint |-> hint, hunks |-> l]
    BY <1>1
  <2>4. QED
    BY <2>1, <2>2, <2>3 DEF WithOld, WithNew, WithHint, n
<1> HIDE DEF n
<1>3. \A y, p, q, s, t : y = [old |-> p, new |-> q, hint |-> s, hunks |-> t] =>
        FileShape(y) /\ y.old = p /\ y.new = q /\ y.hint = s /\ y.hunks = t
  BY DEF FileShape
<1>4. rec.old = a /\ rec.new = b /\ rec.hint = g /\ rec.hunks = l
  BY <1>1
<1>5. QED
  BY <1>2, <1>3, <1>4 DEF n

(* The next line of the header, by its beginning. *)
AfterLine(rec, line) ==
  CASE line.tag = "new file mode"     -> WithHint(rec, "added")
    [] line.tag = "deleted file mode" -> WithHint(rec, "deleted")
    [] line.tag = "rename from "      -> WithHint(WithOld(rec, line.path), "renamed")
    [] line.tag = "rename to "        -> WithHint(WithNew(rec, line.path), "renamed")
    [] line.tag = "--- "              -> WithOld(rec, line.path)
    [] line.tag = "+++ "              -> WithNew(rec, line.path)
    [] OTHER                          -> rec

LEMMA AfterLineKeeps ==
  ASSUME NEW rec, FileShape(rec), NEW line
  PROVE  FileShape(AfterLine(rec, line)) /\ AfterLine(rec, line).hunks = rec.hunks
<1> DEFINE path == line.path
<1>1. \A r1, hint : FileShape(r1) => FileShape(WithHint(r1, hint)) /\ WithHint(r1, hint).hunks = r1.hunks
  <2>1. ASSUME NEW r1, NEW hint, FileShape(r1)
        PROVE  FileShape(WithHint(r1, hint)) /\ WithHint(r1, hint).hunks = r1.hunks
    <3>1. PICK x : x = path
      OBVIOUS
    <3>2. QED
      BY <2>1, ShapeFacts
  <2>2. QED
    BY <2>1
<1>2. /\ FileShape(WithOld(rec, path)) /\ WithOld(rec, path).hunks = rec.hunks
      /\ FileShape(WithNew(rec, path)) /\ WithNew(rec, path).hunks = rec.hunks
  BY ShapeFacts
<1>3. AfterLine(rec, line) \in {WithHint(rec, "added"), WithHint(rec, "deleted"),
                                WithHint(WithOld(rec, path), "renamed"),
                                WithHint(WithNew(rec, path), "renamed"),
                                WithOld(rec, path), WithNew(rec, path), rec}
  BY DEF AfterLine
<1>4. QED
  BY <1>1, <1>2, <1>3

LEMMA NamesAreRead ==
  ASSUME NEW file, IsChangedFile(file)
  PROVE  /\ BareNames(file) => NormalizedPath(file.old) = OldIs(file) /\ NormalizedPath(file.new) = NewIs(file)
         /\ file.hunks # <<>> => NormalizedPath(OldName(file)) = OldIs(file)
         /\ file.hunks # <<>> => NormalizedPath(NewName(file)) = NewIs(file)
<1>1. IsName(file.old) /\ IsName(file.new)
  BY DEF IsChangedFile
<1>2. ASSUME BareNames(file)
      PROVE  NormalizedPath(file.old) = OldIs(file) /\ NormalizedPath(file.new) = NewIs(file)
  <2>1. \A name \in {file.old, file.new} : NormalizedPath(name) = Recorded(file, name)
    BY <1>1, <1>2, BareName DEF BareNames, Recorded
  <2>2. OldIs(file) = Recorded(file, file.old) /\ NewIs(file) = Recorded(file, file.new)
    BY <1>2 DEF BareNames, OldIs, NewIs
  <2>3. QED
    BY <2>1, <2>2
<1>3. NormalizedPath(DevNull) = NoPath
  BY DEF NormalizedPath
<1>4. NormalizedPath(<<"a">> \o file.old) = file.old /\ NormalizedPath(<<"b">> \o file.new) = file.new
  BY <1>1, PrefixedName
<1>5. ASSUME file.hunks # <<>>
      PROVE  NormalizedPath(OldName(file)) = OldIs(file)
  <2>1. CASE file.change = "added"
    BY <1>3, <1>5, <2>1 DEF OldName, OldIs
  <2>2. CASE file.change # "added"
    BY <1>4, <1>5, <2>2 DEF OldName, OldIs, Recorded
  <2>3. QED
    BY <2>1, <2>2
<1>6. ASSUME file.hunks # <<>>
      PROVE  NormalizedPath(NewName(file)) = NewIs(file)
  <2>1. CASE file.change = "deleted"
    BY <1>3, <1>6, <2>1 DEF NewName, NewIs
  <2>2. CASE file.change # "deleted"
    BY <1>4, <1>6, <2>2 DEF NewName, NewIs, Recorded
  <2>3. QED
    BY <2>1, <2>2
<1>7. QED
  BY <1>2, <1>5, <1>6

LEMMA HeaderMoves ==
  ASSUME NEW file, IsChangedFile(file), NEW rec, FileShape(rec), NEW m \in Nat,
         m + 1 \in 1 .. Len(RawHeader(file)), HeaderUpTo(rec, file, m)
  PROVE  LET line == RawHeader(file)[m + 1]
             y == AfterLine(rec, line)
         IN  /\ line.tag \in {"new file mode", "deleted file mode", "rename from ", "rename to ",
                              "--- ", "+++ ", "other"}
             /\ FileShape(y) /\ y.hunks = rec.hunks
             /\ HeaderUpTo(y, file, m + 1)
<1> DEFINE header == RawHeader(file)
           line == header[m + 1]
           y == AfterLine(rec, line)
           e == ExtendedLines(file)
           Tags == {"new file mode", "deleted file mode", "rename from ", "rename to ",
                    "--- ", "+++ ", "other"}
           Goal == /\ line.tag \in Tags
                   /\ FileShape(y) /\ y.hunks = rec.hunks
                   /\ HeaderUpTo(y, file, m + 1)
<1>1. /\ e \in {1, 2} /\ (e = IF file.change = "renamed" THEN 2 ELSE 1)
      /\ Len(header) = IF file.hunks = <<>> THEN e ELSE e + 2
  BY HeaderFacts DEF ExtendedLines
<1>c. file.change = "added" => header[1] = [tag |-> "new file mode"]
  BY HeaderFacts
<1>d. file.change = "deleted" => header[1] = [tag |-> "deleted file mode"]
  BY HeaderFacts
<1>e. file.change = "modified" => header[1] = [tag |-> "other"]
  BY HeaderFacts
<1>f. file.change = "renamed" =>
        /\ header[1] = [tag |-> "rename from ", path |-> file.old]
        /\ header[2] = [tag |-> "rename to ", path |-> file.new]
  BY HeaderFacts
<1>g. file.hunks # <<>> =>
        /\ header[e + 1] = [tag |-> "--- ", path |-> OldName(file)]
        /\ header[e + 2] = [tag |-> "+++ ", path |-> NewName(file)]
  BY HeaderFacts
<1>2. file.change \in {"added", "deleted", "renamed", "modified"}
  BY DEF IsChangedFile
<1>3. /\ BareNames(file) => NormalizedPath(file.old) = OldIs(file) /\ NormalizedPath(file.new) = NewIs(file)
      /\ file.hunks # <<>> => NormalizedPath(OldName(file)) = OldIs(file)
      /\ file.hunks # <<>> => NormalizedPath(NewName(file)) = NewIs(file)
  BY NamesAreRead
<1>4. /\ rec.hint = HintAt(file, m)
      /\ OldKnown(file, m) => rec.old = OldIs(file)
      /\ NewKnown(file, m) => rec.new = NewIs(file)
  BY DEF HeaderUpTo
<1>a. m + 1 <= Len(header)
  OBVIOUS
<1>5. (m = 0 \/ (m = 1 /\ file.change = "renamed")) \/ (file.hunks # <<>> /\ (m = e \/ m = e + 1))
  <2> DEFINE n == Len(header)
  <2>1. n = (IF file.hunks = <<>> THEN e ELSE e + 2) /\ m + 1 <= n
    BY <1>1, <1>a
  <2> HIDE DEF header, n, e
  <2>2. QED
    BY <1>1, <2>1
<1>6. (BareNames(file) => file.change = "renamed") /\ (FirstNames(file) => file.change # "renamed")
  BY DEF BareNames, FirstNames
<1> HIDE DEF header, y, Goal, line
<1>h. SUFFICES Goal
  BY DEF Goal, y, header, line
<1>7. CASE m = 0 /\ file.change # "renamed"
  <2>1. e = 1 /\ m + 1 = 1
    BY <1>1, <1>7
  <2>2. /\ OldKnown(file, m + 1) => OldKnown(file, m)
        /\ NewKnown(file, m + 1) => NewKnown(file, m)
    <3> HIDE DEF e
    <3>1. \A k \in {0, 1} : OldKnown(file, k) => FirstNames(file) /\ file.hunks = <<>>
      BY <1>6, <1>7, <2>1 DEF OldKnown, e
    <3>2. \A k \in {0, 1} : NewKnown(file, k) => FirstNames(file) /\ file.hunks = <<>>
      BY <1>6, <1>7, <2>1 DEF NewKnown, e
    <3>3. QED
      BY <1>7, <2>1, <3>1, <3>2 DEF OldKnown, NewKnown
  <2>3. HintAt(file, m + 1) = (IF file.change = "modified" THEN "none" ELSE file.change) /\ HintAt(file, m) = "none"
    BY <1>7 DEF HintAt
  <2>4. ASSUME NEW hint, y = WithHint(rec, hint), HintAt(file, m + 1) = hint
        PROVE  FileShape(y) /\ y.hunks = rec.hunks /\ HeaderUpTo(y, file, m + 1)
    <3>1. FileShape(y) /\ y.old = rec.old /\ y.new = rec.new /\ y.hint = hint /\ y.hunks = rec.hunks
      BY <2>4, ShapeFacts
    <3>2. QED
      BY <1>4, <2>2, <2>4, <3>1 DEF HeaderUpTo
  <2>5. CASE file.change = "added"
    <3>a. line = [tag |-> "new file mode"]
      BY <1>c, <2>1, <2>5 DEF line
    <3>1. line.tag = "new file mode"
      BY <3>a
    <3>2. y = WithHint(rec, "added")
      BY <3>1 DEF y, AfterLine
    <3>3. QED
      BY <2>3, <2>4, <2>5, <3>1, <3>2 DEF Goal
  <2>6. CASE file.change = "deleted"
    <3>a. line = [tag |-> "deleted file mode"]
      BY <1>d, <2>1, <2>6 DEF line
    <3>1. line.tag = "deleted file mode"
      BY <3>a
    <3>2. y = WithHint(rec, "deleted")
      BY <3>1 DEF y, AfterLine
    <3>3. QED
      BY <2>3, <2>4, <2>6, <3>1, <3>2 DEF Goal
  <2>7. CASE file.change = "modified"
    <3>1. line.tag = "other"
      BY <1>e, <2>1, <2>7 DEF line
    <3>2. y = rec
      BY <3>1 DEF y, AfterLine
    <3>3. HeaderUpTo(y, file, m + 1)
      BY <1>4, <2>2, <2>3, <2>7, <3>2 DEF HeaderUpTo
    <3>4. QED
      BY <3>1, <3>2, <3>3 DEF Goal
  <2>8. QED
    BY <1>2, <1>7, <2>5, <2>6, <2>7
<1>8. CASE m = 0 /\ file.change = "renamed"
  <2>1. m + 1 = 1 /\ e = 2
    BY <1>1, <1>8
  <2>a. line = [tag |-> "rename from ", path |-> file.old]
    BY <1>f, <1>8, <2>1 DEF line
  <2>2. line.tag = "rename from " /\ line.path = file.old
    BY <2>a
  <2>3. y = WithHint(WithOld(rec, file.old), "renamed")
    BY <2>2 DEF y, AfterLine
  <2>4. /\ FileShape(y) /\ y.old = NormalizedPath(file.old) /\ y.new = rec.new
        /\ y.hint = "renamed" /\ y.hunks = rec.hunks
    <3> DEFINE z == WithOld(rec, file.old)
    <3>1. FileShape(z) /\ z.old = NormalizedPath(file.old) /\ z.new = rec.new /\ z.hunks = rec.hunks
      BY ShapeFacts
    <3> HIDE DEF z
    <3>2. y = WithHint(z, "renamed")
      BY <2>3 DEF z
    <3>3. QED
      BY <3>1, <3>2, ShapeFacts
  <2>5. HintAt(file, m + 1) = "renamed"
    BY <1>8 DEF HintAt
  <2>6. OldKnown(file, m + 1) => BareNames(file)
    BY <1>6, <1>8, <2>1 DEF OldKnown, e
  <2>7. ~NewKnown(file, m + 1)
    BY <1>6, <1>8, <2>1 DEF NewKnown, e
  <2>8. HeaderUpTo(y, file, m + 1)
    BY <1>3, <1>6, <2>4, <2>5, <2>6, <2>7 DEF HeaderUpTo
  <2>9. QED
    BY <2>2, <2>4, <2>8 DEF Goal
<1>9. CASE m = 1 /\ file.change = "renamed"
  <2>1. m + 1 = 2 /\ e = 2
    BY <1>1, <1>9
  <2>a. line = [tag |-> "rename to ", path |-> file.new]
    BY <1>f, <1>9, <2>1 DEF line
  <2>2. line.tag = "rename to " /\ line.path = file.new
    BY <2>a
  <2>3. y = WithHint(WithNew(rec, file.new), "renamed")
    BY <2>2 DEF y, AfterLine
  <2>4. /\ FileShape(y) /\ y.old = rec.old /\ y.new = NormalizedPath(file.new)
        /\ y.hint = "renamed" /\ y.hunks = rec.hunks
    <3> DEFINE z == WithNew(rec, file.new)
    <3>1. FileShape(z) /\ z.new = NormalizedPath(file.new) /\ z.old = rec.old /\ z.hunks = rec.hunks
      BY ShapeFacts
    <3> HIDE DEF z
    <3>2. y = WithHint(z, "renamed")
      BY <2>3 DEF z
    <3>3. QED
      BY <3>1, <3>2, ShapeFacts
  <2>5. HintAt(file, m + 1) = "renamed"
    BY <1>9 DEF HintAt
  <2>6. OldKnown(file, m + 1) => OldKnown(file, m)
    BY <1>6, <1>9, <2>1 DEF OldKnown, e
  <2>7. NewKnown(file, m + 1) => BareNames(file)
    BY <1>6, <1>9, <2>1 DEF NewKnown, e
  <2>8. HeaderUpTo(y, file, m + 1)
    BY <1>3, <1>4, <1>6, <2>4, <2>5, <2>6, <2>7 DEF HeaderUpTo
  <2>9. QED
    BY <2>2, <2>4, <2>8 DEF Goal
<1>b. ASSUME m # 0
      PROVE  HintAt(file, m + 1) = HintAt(file, m)
  BY <1>b DEF HintAt
<1>10. CASE file.hunks # <<>> /\ m = e
  <2>a. m # 0
    BY <1>1, <1>10
  <2>b. line = [tag |-> "--- ", path |-> OldName(file)]
    BY <1>g, <1>10 DEF line
  <2>1. line.tag = "--- " /\ line.path = OldName(file)
    BY <2>b
  <2>2. y = WithOld(rec, OldName(file))
    BY <2>1 DEF y, AfterLine
  <2>3. /\ FileShape(y) /\ y.old = OldIs(file) /\ y.new = rec.new
        /\ y.hint = rec.hint /\ y.hunks = rec.hunks
    BY <1>3, <1>10, <2>2, ShapeFacts
  <2>4. ~NewKnown(file, m + 1)
    BY <1>1, <1>10 DEF NewKnown
  <2>5. HeaderUpTo(y, file, m + 1)
    BY <1>4, <1>b, <2>a, <2>3, <2>4 DEF HeaderUpTo
  <2>6. QED
    BY <2>1, <2>3, <2>5 DEF Goal
<1>11. CASE file.hunks # <<>> /\ m = e + 1
  <2>1. m # 0 /\ m + 1 = e + 2
    BY <1>1, <1>11
  <2>a. line = [tag |-> "+++ ", path |-> NewName(file)]
    BY <1>g, <1>11, <2>1 DEF line
  <2>2. line.tag = "+++ " /\ line.path = NewName(file)
    BY <2>a
  <2>3. y = WithNew(rec, NewName(file))
    BY <2>2 DEF y, AfterLine
  <2>4. /\ FileShape(y) /\ y.new = NewIs(file) /\ y.old = rec.old
        /\ y.hint = rec.hint /\ y.hunks = rec.hunks
    BY <1>3, <1>11, <2>3, ShapeFacts
  <2>5. OldKnown(file, m)
    BY <1>1, <1>11 DEF OldKnown
  <2>6. HeaderUpTo(y, file, m + 1)
    BY <1>4, <1>b, <2>1, <2>4, <2>5 DEF HeaderUpTo
  <2>7. QED
    BY <2>2, <2>4, <2>6 DEF Goal
<1>12. QED
  BY <1>5, <1>7, <1>8, <1>9, <1>10, <1>11

NewFileRecord(line) ==
  [old |-> NormalizedPath(FirstWord(line.path)),
   new |-> NormalizedPath(FirstWord(OtherWords(line.path))),
   hint |-> "none", hunks |-> <<>>]

HasPart(x, list) == x \in Elements(list)

LEMMA NoBlankWithPrefix ==
  ASSUME NEW name, IsList(name), Blank \notin Elements(name), NEW x \in {"a", "b"}
  PROVE  IsList(<<x>> \o name) /\ Blank \notin Elements(<<x>> \o name)
<1>1. IsList(<<x>>) /\ Elements(<<x>>) = {x}
  BY OneLine DEF Elements
<1>2. Elements(<<x>> \o name) = Elements(<<x>>) \cup Elements(name)
  <2> DEFINE first == <<x>>
  <2>1. IsList(first)
    BY <1>1
  <2> HIDE DEF first
  <2>2. Elements(first \o name) = Elements(first) \cup Elements(name)
    BY <2>1, ElementsOfConcat
  <2>3. QED
    BY <2>2 DEF first
<1>3. IsList(<<x>> \o name)
  <2> DEFINE first == <<x>>
  <2>1. IsList(first)
    BY <1>1
  <2> HIDE DEF first
  <2>2. IsList(first \o name)
    BY <2>1, ListConcat
  <2>3. QED
    BY <2>2 DEF first
<1>4. QED
  BY <1>1, <1>2, <1>3, NamesAreNotRoot

LEMMA HeaderStarts ==
  ASSUME NEW file, IsChangedFile(file)
  PROVE  LET rec == NewFileRecord(FirstLine(file)) IN
         FileShape(rec) /\ rec.hunks = <<>> /\ HeaderUpTo(rec, file, 0)
<1> DEFINE line == FirstLine(file)
           s == FirstWord(line.path)
           t == FirstWord(OtherWords(line.path))
           rec == NewFileRecord(line)
<1>1. line.path = (<<"a">> \o file.old) \o <<Blank>> \o (<<"b">> \o file.new)
  BY DEF FirstLine
<1>2. IsName(file.old) /\ IsName(file.new) /\ (file.change # "renamed" => file.old = file.new)
  BY DEF IsChangedFile
<1>3. rec = [old |-> NormalizedPath(s), new |-> NormalizedPath(t), hint |-> "none", hunks |-> <<>>]
  BY DEF NewFileRecord
<1>4. ASSUME FirstNames(file)
      PROVE  NormalizedPath(s) = file.old /\ NormalizedPath(t) = file.new
  <2> DEFINE p == <<"a">> \o file.old
             q == <<"b">> \o file.new
  <2>1. Blank \notin Elements(file.old) /\ Blank \notin Elements(file.new)
    BY <1>2, <1>4 DEF FirstNames
  <2>2. IsList(file.old) /\ IsList(file.new)
    BY <1>2 DEF IsName
  <2>3. IsList(p) /\ Blank \notin Elements(p) /\ IsList(q) /\ Blank \notin Elements(q)
    BY <2>1, <2>2, NoBlankWithPrefix
  <2>4. line.path = p \o <<Blank>> \o q
    BY <1>1
  <2>a. NormalizedPath(p) = file.old /\ NormalizedPath(q) = file.new
    BY <1>2, PrefixedName
  <2> HIDE DEF p, q, line
  <2>5. s = p /\ t = q
    BY <2>3, <2>4, TwoWords
  <2>6. QED
    BY <2>5, <2>a
<1> HIDE DEF s, t, rec, line
<1>5. rec.old = NormalizedPath(s) /\ rec.new = NormalizedPath(t) /\ rec.hint = "none" /\ rec.hunks = <<>>
  BY <1>3
<1>6. FileShape(rec)
  BY <1>3, <1>5 DEF FileShape
<1>7. HintAt(file, 0) = "none"
  BY DEF HintAt
<1>8. (OldKnown(file, 0) => FirstNames(file) /\ file.hunks = <<>>) /\ (NewKnown(file, 0) => FirstNames(file) /\ file.hunks = <<>>)
  BY DEF OldKnown, NewKnown, ExtendedLines
<1>9. file.hunks = <<>> /\ FirstNames(file) => OldIs(file) = file.old /\ NewIs(file) = file.new
  BY DEF OldIs, NewIs, Recorded, FirstNames
<1>10. HeaderUpTo(rec, file, 0)
  BY <1>4, <1>5, <1>7, <1>8, <1>9 DEF HeaderUpTo
<1>11. QED
  BY <1>5, <1>6, <1>10 DEF rec, line

HeaderDone(rec, file) ==
  Named(file) => IsRecordOf(rec, file.change, Recorded(file, file.old), Recorded(file, file.new))

LEMMA HeaderEnds ==
  ASSUME NEW file, IsChangedFile(file), NEW rec, HeaderUpTo(rec, file, Len(RawHeader(file)))
  PROVE  HeaderDone(rec, file)
<1> DEFINE m == Len(RawHeader(file))
           e == ExtendedLines(file)
<1>1. e \in {1, 2} /\ m = (IF file.hunks = <<>> THEN e ELSE e + 2)
  BY HeaderFacts
<1>2. e = IF file.change = "renamed" THEN 2 ELSE 1
  BY DEF ExtendedLines
<1>3. ASSUME Named(file)
      PROVE  OldKnown(file, m) /\ NewKnown(file, m)
  <2> HIDE DEF m, e
  <2>1. CASE file.hunks # <<>>
    <3>1. m > e /\ m > e + 1
      BY <1>1, <2>1
    <3>2. QED
      BY <2>1, <3>1 DEF OldKnown, NewKnown, e
  <2>2. CASE file.hunks = <<>> /\ file.change = "renamed"
    <3>1. m >= 1 /\ m >= 2
      BY <1>1, <1>2, <2>2
    <3>2. BareNames(file)
      BY <1>3, <2>2 DEF Named, BareNames
    <3>3. QED
      BY <2>2, <3>1, <3>2 DEF OldKnown, NewKnown
  <2>3. CASE file.hunks = <<>> /\ file.change # "renamed"
    <3>1. FirstNames(file)
      BY <1>3, <2>3 DEF Named, FirstNames
    <3>2. QED
      BY <2>3, <3>1 DEF OldKnown, NewKnown
  <2>4. QED
    BY <2>1, <2>2, <2>3
<1>4. rec.hint = IF file.change = "modified" THEN "none" ELSE file.change
  <2>1. m # 0
    BY <1>1
  <2>2. QED
    BY <2>1 DEF HeaderUpTo, HintAt
<1>5. ASSUME Named(file)
      PROVE  IsRecordOf(rec, file.change, Recorded(file, file.old), Recorded(file, file.new))
  <2>1. rec.old = OldIs(file) /\ rec.new = NewIs(file)
    BY <1>3, <1>5 DEF HeaderUpTo
  <2>2. /\ file.change # "added" => rec.old = Recorded(file, file.old)
        /\ file.change # "deleted" => rec.new = Recorded(file, file.new)
    BY <2>1 DEF OldIs, NewIs
  <2>3. ChangeType(rec) = file.change
    <3>1. CASE file.change = "modified"
      <4>1. rec.hint = "none" /\ rec.old = file.old /\ rec.new = file.new /\ file.old = file.new
        BY <1>4, <2>2, <3>1 DEF IsChangedFile, Recorded
      <4>2. file.old # NoPath
        BY NameIsWhole DEF IsChangedFile
      <4> DEFINE hint == rec.hint
                 old == rec.old
                 new == rec.new
      <4>3. hint = "none" /\ old # NoPath /\ new # NoPath /\ old = new
        BY <4>1, <4>2
      <4> HIDE DEF hint, old, new
      <4>4. ChangeType(rec) = IF hint # "none" THEN hint
                              ELSE IF old = NoPath THEN "added"
                              ELSE IF new = NoPath THEN "deleted"
                              ELSE IF old # new THEN "renamed"
                              ELSE "modified"
        BY Zenon DEF ChangeType, hint, old, new
      <4>5. ChangeType(rec) = "modified"
        BY <4>3, <4>4
      <4>6. QED
        BY <3>1, <4>5
    <3>2. CASE file.change # "modified"
      <4>1. file.change # "none"
        BY DEF IsChangedFile
      <4>2. rec.hint = file.change /\ rec.hint # "none"
        BY <1>4, <3>2, <4>1
      <4>3. ChangeType(rec) = rec.hint
        BY <4>2 DEF ChangeType
      <4>4. QED
        BY <4>2, <4>3
    <3>3. QED
      BY <3>1, <3>2
  <2>4. QED
    BY <2>2, <2>3 DEF IsRecordOf
<1>6. QED
  BY <1>5 DEF HeaderDone

--------------------------------------------------------------------------------
(* The records, as far as the text is read.                                *)

Exempt(given, i, j) ==
  given.signature /\ i = Len(given.files) /\ j = Len(given.files[i].hunks)

PlainUpTo(file, j) == \A k \in 1 .. j : PlainHunk(file.hunks[k])

(* A file that is left. *)
Finished(given, rec, i) ==
  LET file == given.files[i] IN
  /\ FileShape(rec) /\ IsList(rec.hunks) /\ Len(rec.hunks) = Len(file.hunks)
  /\ \A j \in 1 .. Len(file.hunks) :
       /\ IsHunkRecord(rec.hunks[j]) /\ AddedInside(rec.hunks[j], file.hunks[j])
       /\ PlainHunk(file.hunks[j]) /\ ~Exempt(given, i, j) => Exact(rec.hunks[j], file.hunks[j])
  /\ PlainUpTo(file, Len(file.hunks)) => HeaderDone(rec, file)

(* The file that is read, before line m + 1 of section j. *)
ReadTo(rec, file, j, m, old, new) ==
  /\ FileShape(rec) /\ IsList(rec.hunks) /\ Len(rec.hunks) = j
  /\ \A k \in 1 .. j - 1 : HunkDone(rec.hunks[k], file.hunks[k])
  /\ j = 0 => HeaderUpTo(rec, file, m)
  /\ j # 0 => HunkUpTo(rec.hunks[j], file.hunks[j], m, old, new)
  /\ j # 0 /\ PlainUpTo(file, j) => HeaderDone(rec, file)

(* The hunks of a file in which a section is read. *)
LEMMA SectionEnds ==
  ASSUME NEW given, IsDiff(given), NEW i \in DOMAIN given.files,
         NEW j \in 0 .. Len(given.files[i].hunks), NEW rec, NEW m, NEW old, NEW new,
         ReadTo(rec, given.files[i], j, m, old, new), SectionRead(given, i, j, m)
  PROVE  LET file == given.files[i] IN
         /\ \A k \in 1 .. j : HunkDone(rec.hunks[k], file.hunks[k])
         /\ PlainUpTo(file, j) => HeaderDone(rec, file)
<1> DEFINE file == given.files[i]
<1>1. /\ IsChangedFile(file) /\ Len(file.hunks) \in Nat
      /\ j # 0 => j \in 1 .. Len(file.hunks) /\ IsHunk(file.hunks[j])
  BY SectionFacts
<1>2. m = Len(Section(given, i, j))
  BY DEF SectionRead
<1>3. /\ \A k \in 1 .. j - 1 : HunkDone(rec.hunks[k], file.hunks[k])
      /\ j = 0 => HeaderUpTo(rec, file, m)
      /\ j # 0 => HunkUpTo(rec.hunks[j], file.hunks[j], m, old, new)
      /\ j # 0 /\ PlainUpTo(file, j) => HeaderDone(rec, file)
  BY DEF ReadTo
<1>4. CASE j = 0
  <2>1. m = Len(RawHeader(file))
    BY <1>2, <1>4 DEF Section
  <2>2. HeaderDone(rec, file)
    BY <1>1, <1>3, <1>4, <2>1, HeaderEnds
  <2>3. \A k \in 1 .. j : FALSE
    BY <1>4
  <2>4. QED
    BY <2>2, <2>3
<1>5. CASE j # 0
  <2>1. m = Len(file.hunks[j].body)
    BY <1>1, <1>2, <1>5, BodyFacts DEF Section
  <2>2. HunkUpTo(rec.hunks[j], file.hunks[j], Len(file.hunks[j].body), old, new)
    BY <1>3, <1>5, <2>1
  <2>3. HunkDone(rec.hunks[j], file.hunks[j])
    BY <1>1, <1>5, <2>2, HunkEnds
  <2>4. \A k \in 1 .. j : k \in 1 .. j - 1 \/ k = j
    BY <1>1
  <2>5. QED
    BY <1>3, <1>5, <2>3, <2>4
<1>6. QED
  BY <1>4, <1>5

LEMMA FileEnds ==
  ASSUME NEW given, IsDiff(given), NEW i \in DOMAIN given.files,
         NEW j \in 0 .. Len(given.files[i].hunks), NEW rec, NEW m, NEW old, NEW new,
         ReadTo(rec, given.files[i], j, m, old, new), SectionRead(given, i, j, m), FileRead(given, i, j)
  PROVE  Finished(given, rec, i)
<1> DEFINE file == given.files[i]
<1>1. j = Len(file.hunks)
  BY DEF FileRead
<1>2. /\ \A k \in 1 .. j : HunkDone(rec.hunks[k], file.hunks[k])
      /\ PlainUpTo(file, j) => HeaderDone(rec, file)
  BY SectionEnds
<1>3. FileShape(rec) /\ IsList(rec.hunks) /\ Len(rec.hunks) = j
  BY DEF ReadTo
<1>4. QED
  BY <1>1, <1>2, <1>3 DEF Finished, HunkDone

(* A line of the header. *)
LEMMA HeaderStep ==
  ASSUME NEW given, IsDiff(given), NEW ls, NEW i, NEW m, At(given, ls, i, 0, m),
         NextOfSection(given, ls, i, 0, m), NEW rec, NEW old, NEW new,
         ReadTo(rec, given.files[i], 0, m, old, new)
  PROVE  /\ ls[1].tag \in {"new file mode", "deleted file mode", "rename from ", "rename to ",
                           "--- ", "+++ ", "other"}
         /\ ReadTo(AfterLine(rec, ls[1]), given.files[i], 0, m + 1, old, new)
<1> DEFINE file == given.files[i]
           y == AfterLine(rec, ls[1])
<1>1. i \in DOMAIN given.files /\ 0 \in 0 .. Len(file.hunks) /\ m \in 0 .. Len(Section(given, i, 0))
  BY DEF At
<1>2. IsChangedFile(file) /\ Len(Section(given, i, 0)) \in Nat
  BY <1>1, SectionFacts
<1>3. Section(given, i, 0) = RawHeader(file)
  BY DEF Section
<1>4. m \in Nat /\ m + 1 \in 1 .. Len(RawHeader(file)) /\ ls[1] = RawHeader(file)[m + 1]
  BY <1>1, <1>2, <1>3 DEF NextOfSection
<1>5. FileShape(rec) /\ IsList(rec.hunks) /\ Len(rec.hunks) = 0 /\ HeaderUpTo(rec, file, m)
  BY DEF ReadTo
<1>6. /\ ls[1].tag \in {"new file mode", "deleted file mode", "rename from ", "rename to ",
                        "--- ", "+++ ", "other"}
      /\ FileShape(y) /\ y.hunks = rec.hunks
      /\ HeaderUpTo(y, file, m + 1)
  <2> DEFINE line == RawHeader(file)[m + 1]
             z == AfterLine(rec, line)
  <2>1. /\ line.tag \in {"new file mode", "deleted file mode", "rename from ", "rename to ",
                         "--- ", "+++ ", "other"}
        /\ FileShape(z) /\ z.hunks = rec.hunks
        /\ HeaderUpTo(z, file, m + 1)
    BY <1>2, <1>4, <1>5, HeaderMoves
  <2>2. ls[1] = line
    BY <1>4
  <2> HIDE DEF line
  <2>3. QED
    BY <2>1, <2>2, Zenon
<1> HIDE DEF y
<1>7. \A k \in 1 .. 0 - 1 : FALSE
  OBVIOUS
<1>8. ReadTo(y, file, 0, m + 1, old, new)
  BY <1>5, <1>6, <1>7 DEF ReadTo
<1>9. QED
  BY <1>6, <1>8 DEF y

(* The first line of a hunk. *)
WithHunks(rec, list) == [rec EXCEPT !.hunks = list]

LEMMA HunkStep ==
  ASSUME NEW given, IsDiff(given), NEW ls, NEW i, NEW j, NEW m, At(given, ls, i, j, m),
         SectionRead(given, i, j, m), NextHunkAt(given, ls, i, j), NEW rec, NEW old, NEW new,
         ReadTo(rec, given.files[i], j, m, old, new)
  PROVE  /\ ls[1].tag = "@@"
         /\ ReadTo(WithHunks(rec, Append(rec.hunks, NewHunkRecord(ls[1]))),
                   given.files[i], j + 1, 0, ls[1].old, ls[1].new)
<1> DEFINE file == given.files[i]
           hunk == file.hunks[j + 1]
           list == Append(rec.hunks, NewHunkRecord(ls[1]))
           y == WithHunks(rec, list)
<1>1. i \in DOMAIN given.files /\ j \in 0 .. Len(file.hunks)
  BY DEF At
<1>2. Len(file.hunks) \in Nat /\ DOMAIN file.hunks = 1 .. Len(file.hunks)
  BY <1>1, SectionFacts
<1>3. j + 1 \in DOMAIN file.hunks /\ ls[1] = HunkHeader(hunk)
  BY DEF NextHunkAt
<1>4. IsHunk(hunk)
  BY <1>1, <1>2, <1>3, SectionFacts, HunksFacts
<1>5. ls[1].tag = "@@" /\ ls[1].old = hunk.old /\ ls[1].new = hunk.new
  <2> DEFINE line == ls[1]
  <2>1. line = HunkHeader(hunk)
    BY <1>3
  <2> HIDE DEF line, hunk
  <2>2. line.tag = "@@" /\ line.old = hunk.old /\ line.new = hunk.new
    BY <2>1 DEF HunkHeader
  <2>3. QED
    BY <2>2 DEF line, hunk
<1>6. HunkUpTo(NewHunkRecord(ls[1]), hunk, 0, ls[1].old, ls[1].new)
  BY <1>3, <1>4, <1>5, HunkStarts
<1>7. /\ \A k \in 1 .. j : HunkDone(rec.hunks[k], file.hunks[k])
      /\ PlainUpTo(file, j) => HeaderDone(rec, file)
  BY <1>1, SectionEnds
<1>8. FileShape(rec) /\ IsList(rec.hunks) /\ Len(rec.hunks) = j
  BY DEF ReadTo
<1>9. /\ IsList(list) /\ Len(list) = j + 1
      /\ \A k \in 1 .. j : list[k] = rec.hunks[k]
      /\ list[j + 1] = NewHunkRecord(ls[1])
  BY <1>8, ListAppend
<1>10. /\ FileShape(y) /\ y.hunks = list
       /\ y.old = rec.old /\ y.new = rec.new /\ y.hint = rec.hint
  <2> HIDE DEF list
  <2>1. PICK a, b, g, l : rec = [old |-> a, new |-> b, hint |-> g, hunks |-> l]
    BY <1>8 DEF FileShape
  <2>2. y = [old |-> a, new |-> b, hint |-> g, hunks |-> list]
    BY <2>1 DEF WithHunks
  <2> HIDE DEF y
  <2>3. y.old = a /\ y.new = b /\ y.hint = g /\ y.hunks = list
    BY <2>2
  <2>4. rec.old = a /\ rec.new = b /\ rec.hint = g
    BY <2>1
  <2>5. QED
    BY <2>2, <2>3, <2>4 DEF FileShape
<1> HIDE DEF y, list
<1>11. j + 1 # 0 /\ (j + 1) - 1 = j /\ j \in Nat
  BY <1>1, <1>2
<1>12. \A k \in 1 .. j : HunkDone(y.hunks[k], file.hunks[k])
  BY <1>7, <1>9, <1>10
<1>13. HunkUpTo(y.hunks[j + 1], file.hunks[j + 1], 0, ls[1].old, ls[1].new)
  BY <1>6, <1>9, <1>10
<1>14. PlainUpTo(file, j + 1) => HeaderDone(y, file)
  <2>1. \A k \in 1 .. j : k \in 1 .. j + 1
    BY <1>11
  <2>2. PlainUpTo(file, j + 1) => PlainUpTo(file, j)
    BY <2>1 DEF PlainUpTo
  <2>3. HeaderDone(rec, file) => HeaderDone(y, file)
    <3>1. ChangeType(y) = ChangeType(rec)
      BY <1>10 DEF ChangeType
    <3>2. QED
      BY <1>10, <3>1 DEF HeaderDone, IsRecordOf
  <2>4. QED
    BY <1>7, <2>2, <2>3
<1> DEFINE n == j + 1
<1>15. /\ FileShape(y) /\ IsList(y.hunks) /\ Len(y.hunks) = n
       /\ \A k \in 1 .. n - 1 : HunkDone(y.hunks[k], file.hunks[k])
       /\ n # 0
       /\ HunkUpTo(y.hunks[n], file.hunks[n], 0, ls[1].old, ls[1].new)
       /\ PlainUpTo(file, n) => HeaderDone(y, file)
  BY <1>9, <1>10, <1>11, <1>12, <1>13, <1>14
<1> HIDE DEF n
<1>16. ReadTo(y, file, n, 0, ls[1].old, ls[1].new)
  BY <1>15 DEF ReadTo
<1>17. QED
  BY <1>5, <1>16 DEF y, list, n

(* A line of a hunk. *)
LastHunkWith(rec, x) == WithHunks(rec, [rec.hunks EXCEPT ![Len(rec.hunks)] = x])
LastOf(rec) == rec.hunks[Len(rec.hunks)]
Adds(rec, new) == LastHunkWith(rec, [LastOf(rec) EXCEPT !.added = Append(@, new)])
Removes(rec, old) == LastHunkWith(rec, [LastOf(rec) EXCEPT !.removed = Append(@, old)])

LEMMA HunksReplaced ==
  ASSUME NEW rec, FileShape(rec), NEW list
  PROVE  LET y == WithHunks(rec, list) IN
         /\ FileShape(y) /\ y.hunks = list
         /\ y.old = rec.old /\ y.new = rec.new /\ y.hint = rec.hint
         /\ \A file : HeaderDone(rec, file) => HeaderDone(y, file)
<1> DEFINE y == WithHunks(rec, list)
<1>1. PICK a, b, g, l : rec = [old |-> a, new |-> b, hint |-> g, hunks |-> l]
  BY DEF FileShape
<1>2. y = [old |-> a, new |-> b, hint |-> g, hunks |-> list]
  BY <1>1 DEF WithHunks
<1> HIDE DEF y
<1>3. y.old = a /\ y.new = b /\ y.hint = g /\ y.hunks = list
  BY <1>2
<1>4. rec.old = a /\ rec.new = b /\ rec.hint = g
  BY <1>1
<1>5. y.old = rec.old /\ y.new = rec.new /\ y.hint = rec.hint
  BY <1>3, <1>4
<1>6. ChangeType(y) = ChangeType(rec)
  BY <1>5 DEF ChangeType
<1>7. \A file : HeaderDone(rec, file) => HeaderDone(y, file)
  BY <1>5, <1>6 DEF HeaderDone, IsRecordOf
<1>8. FileShape(y)
  BY <1>2, <1>3 DEF FileShape
<1>9. QED
  BY <1>3, <1>5, <1>7, <1>8 DEF y

LEMMA LastHunkChanges ==
  ASSUME NEW file, NEW j \in Nat, j # 0, NEW rec, NEW m, NEW old, NEW new,
         ReadTo(rec, file, j, m, old, new),
         NEW x, NEW n, NEW o, NEW q, HunkUpTo(x, file.hunks[j], n, o, q)
  PROVE  ReadTo(LastHunkWith(rec, x), file, j, n, o, q)
<1> DEFINE list == [rec.hunks EXCEPT ![Len(rec.hunks)] = x]
           y == WithHunks(rec, list)
<1>1. /\ FileShape(rec) /\ IsList(rec.hunks) /\ Len(rec.hunks) = j
      /\ \A k \in 1 .. j - 1 : HunkDone(rec.hunks[k], file.hunks[k])
      /\ PlainUpTo(file, j) => HeaderDone(rec, file)
  BY DEF ReadTo
<1>2. rec.hunks # <<>>
  <2>1. Len(<<>>) = 0
    OBVIOUS
  <2>2. QED
    BY <1>1, <2>1
<1>3. IsList(list) /\ Len(list) = j /\ list[j] = x /\ \A k \in 1 .. j - 1 : list[k] = rec.hunks[k]
  BY <1>1, <1>2, ReplaceLast
<1> HIDE DEF list
<1>4. FileShape(y) /\ y.hunks = list /\ (HeaderDone(rec, file) => HeaderDone(y, file))
  BY <1>1, HunksReplaced
<1> HIDE DEF y
<1>5. \A k \in 1 .. j - 1 : HunkDone(y.hunks[k], file.hunks[k])
  BY <1>1, <1>3, <1>4
<1>6. HunkUpTo(y.hunks[j], file.hunks[j], n, o, q)
  BY <1>3, <1>4
<1>7. ReadTo(y, file, j, n, o, q)
  BY <1>1, <1>3, <1>4, <1>5, <1>6 DEF ReadTo
<1>8. QED
  BY <1>7 DEF y, list, LastHunkWith

(* The names change, but the hunk is not plain. *)
LEMMA NamesChange ==
  ASSUME NEW file, NEW j \in Nat, j # 0, ~PlainHunk(file.hunks[j]), NEW rec, NEW m, NEW old, NEW new,
         ReadTo(rec, file, j, m, old, new),
         NEW y, FileShape(y), y.hunks = rec.hunks,
         NEW n, NEW o, NEW q, HunkUpTo(rec.hunks[j], file.hunks[j], n, o, q)
  PROVE  ReadTo(y, file, j, n, o, q)
<1>1. /\ IsList(rec.hunks) /\ Len(rec.hunks) = j
      /\ \A k \in 1 .. j - 1 : HunkDone(rec.hunks[k], file.hunks[k])
  BY DEF ReadTo
<1>2. ~PlainUpTo(file, j)
  <2>1. j \in 1 .. j
    OBVIOUS
  <2>2. QED
    BY <2>1 DEF PlainUpTo
<1>3. QED
  BY <1>1, <1>2 DEF ReadTo

LEMMA BodyLine ==
  ASSUME NEW given, IsDiff(given), NEW ls, NEW i, NEW j, j # 0, NEW m, At(given, ls, i, j, m),
         NextOfSection(given, ls, i, j, m)
  PROVE  LET body == given.files[i].hunks[j].body IN
         /\ m \in Nat /\ m + 1 \in 1 .. Len(body) /\ m + 1 \in DOMAIN body
         /\ ls[1] = RawLine(body[m + 1])
<1> DEFINE file == given.files[i]
           hunk == file.hunks[j]
<1>1. i \in DOMAIN given.files /\ j \in 0 .. Len(file.hunks) /\ m \in 0 .. Len(Section(given, i, j))
  BY DEF At
<1>2. IsHunk(hunk) /\ Len(file.hunks) \in Nat /\ Len(Section(given, i, j)) \in Nat
  BY <1>1, SectionFacts
<1>3. Section(given, i, j) = RawBody(hunk)
  BY DEF Section
<1>4. m \in Nat /\ m + 1 \in 1 .. Len(RawBody(hunk)) /\ ls[1] = RawBody(hunk)[m + 1]
  BY <1>1, <1>2, <1>3 DEF NextOfSection
<1>5. Len(RawBody(hunk)) = Len(hunk.body) /\ DOMAIN hunk.body = 1 .. Len(hunk.body)
  BY <1>2, BodyFacts
<1>6. m + 1 \in DOMAIN hunk.body
  BY <1>4, <1>5
<1>7. RawBody(hunk)[m + 1] = RawLine(hunk.body[m + 1])
  BY <1>6 DEF RawBody
<1>8. QED
  BY <1>4, <1>5, <1>6, <1>7

LEMMA BodyStep ==
  ASSUME NEW given, IsDiff(given), ~Forged(given), NEW ls, NEW i, NEW j, j # 0, NEW m,
         At(given, ls, i, j, m), NextOfSection(given, ls, i, j, m), NEW rec, NEW old, NEW new,
         ReadTo(rec, given.files[i], j, m, old, new)
  PROVE  LET file == given.files[i]
             tag == ls[1].tag
         IN  /\ tag \in BodyTags \cup NameTags \cup ModeTags
             /\ tag = "+" => ReadTo(Adds(rec, new), file, j, m + 1, old, new + 1)
             /\ tag = "-" => ReadTo(Removes(rec, old), file, j, m + 1, old + 1, new)
             /\ tag = " " => ReadTo(rec, file, j, m + 1, old + 1, new + 1)
             /\ tag \in NameTags \cup ModeTags => ReadTo(AfterLine(rec, ls[1]), file, j, m + 1, old, new)
             /\ tag \in {"---", "+++", "no newline", "other"} => ReadTo(rec, file, j, m + 1, old, new)
<1> DEFINE file == given.files[i]
           hunk == file.hunks[j]
           tag == RawTag(hunk.body[m + 1])
           sign == hunk.body[m + 1].sign
           x == rec.hunks[j]
           y == AfterLine(rec, ls[1])
<1>1. i \in DOMAIN given.files /\ j \in 0 .. Len(file.hunks) /\ m \in 0 .. Len(Section(given, i, j))
  BY DEF At
<1>2. /\ IsHunk(hunk) /\ Len(file.hunks) \in Nat /\ Len(Section(given, i, j)) \in Nat /\ j \in Nat
      /\ j \in DOMAIN file.hunks
  BY <1>1, SectionFacts, HunksFacts DEF IsDiff
<1>4. m \in Nat /\ m + 1 \in 1 .. Len(hunk.body) /\ m + 1 \in DOMAIN hunk.body
      /\ ls[1] = RawLine(hunk.body[m + 1])
  BY BodyLine
<1>5. /\ FileShape(rec) /\ Len(rec.hunks) = j /\ HunkUpTo(x, hunk, m, old, new)
  BY DEF ReadTo
<1>a. tag \in AnyTag /\ sign \in {" ", "-", "+", "no newline", "broken"} /\ (PlainHunk(hunk) => sign = tag)
  BY <1>2, <1>4, TagFacts
<1>b. tag \notin {"diff --git ", "@@"}
  BY <1>1, <1>2, <1>4 DEF Forged
<1>6. tag \in BodyTags \cup NameTags \cup ModeTags
  BY <1>a, <1>b DEF AnyTag
<1>c. tag \in NameTags \cup ModeTags => ~PlainHunk(hunk) /\ tag \notin {"+", "-", " "}
  BY <1>a DEF NameTags, ModeTags
<1>7. /\ tag = "+" => HunkUpTo([x EXCEPT !.added = Append(@, new)], hunk, m + 1, old, new + 1)
      /\ tag = "-" => HunkUpTo([x EXCEPT !.removed = Append(@, old)], hunk, m + 1, old + 1, new)
      /\ tag = " " => HunkUpTo(x, hunk, m + 1, old + 1, new + 1)
      /\ tag \notin {"+", "-", " "} => HunkUpTo(x, hunk, m + 1, old, new)
  BY <1>2, <1>4, <1>5, HunkMoves
<1>8. LastOf(rec) = x
  BY <1>5 DEF LastOf
<1>9. ls[1].tag = tag
  <2> DEFINE line == ls[1]
             source == hunk.body[m + 1]
  <2>1. line = RawLine(source) /\ RawTag(source) # "@@"
    BY <1>4, <1>b
  <2> HIDE DEF line, source, hunk, file
  <2>2. line.tag = RawTag(source)
    BY <2>1 DEF RawLine
  <2>3. QED
    BY <2>2 DEF line, source
<1>d. FileShape(y) /\ y.hunks = rec.hunks
  BY <1>5, AfterLineKeeps
<1> HIDE DEF tag, sign, x, y, file
<1>10. tag = "+" => ReadTo(Adds(rec, new), file, j, m + 1, old, new + 1)
  BY <1>2, <1>7, <1>8, LastHunkChanges DEF Adds, file
<1>11. tag = "-" => ReadTo(Removes(rec, old), file, j, m + 1, old + 1, new)
  BY <1>2, <1>7, <1>8, LastHunkChanges DEF Removes, file
<1>12. ASSUME NEW o, NEW q, HunkUpTo(x, hunk, m + 1, o, q)
       PROVE  ReadTo(rec, file, j, m + 1, o, q)
  BY <1>12 DEF ReadTo, file, x
<1>13. ASSUME tag \in NameTags \cup ModeTags
       PROVE  ReadTo(y, file, j, m + 1, old, new)
  <2>1. HunkUpTo(rec.hunks[j], file.hunks[j], m + 1, old, new) /\ ~PlainHunk(file.hunks[j])
    BY <1>7, <1>13, <1>c DEF x
  <2>2. ReadTo(rec, file, j, m, old, new)
    BY DEF file
  <2>3. QED
    BY <1>2, <1>d, <2>1, <2>2, NamesChange
<1>15. /\ tag = " " => ReadTo(rec, file, j, m + 1, old + 1, new + 1)
       /\ tag \in {"---", "+++", "no newline", "other"} => ReadTo(rec, file, j, m + 1, old, new)
  BY <1>7, <1>12
<1>16. QED
  BY <1>6, <1>9, <1>10, <1>11, <1>13, <1>15 DEF file, y

(* The signature of a mail, after the last hunk of the last file. *)
LEMMA SignatureEnds ==
  ASSUME NEW given, IsDiff(given), NEW ls, NEW i, NEW j, NEW m, At(given, ls, i, j, m),
         SectionRead(given, i, j, m), FileRead(given, i, j), SignatureAt(given, ls, i), NEW rec, NEW old, NEW new,
         ReadTo(rec, given.files[i], j, m, old, new)
  PROVE  /\ j = 0 => Finished(given, rec, i)
         /\ j # 0 => Finished(given, Removes(rec, old), i)
<1> DEFINE file == given.files[i]
           x == rec.hunks[j]
           z == [x EXCEPT !.removed = Append(@, old)]
           list == [rec.hunks EXCEPT ![Len(rec.hunks)] = z]
           y == WithHunks(rec, list)
<1>1. i \in DOMAIN given.files /\ j \in 0 .. Len(file.hunks) /\ j = Len(file.hunks)
  BY DEF At, FileRead
<1>2. j = 0 => Finished(given, rec, i)
  BY <1>1, FileEnds
<1>3. Exempt(given, i, j)
  BY <1>1 DEF SignatureAt, Exempt
<1>4. /\ \A k \in 1 .. j : HunkDone(rec.hunks[k], file.hunks[k])
      /\ PlainUpTo(file, j) => HeaderDone(rec, file)
  BY <1>1, SectionEnds
<1>5. /\ FileShape(rec) /\ IsList(rec.hunks) /\ Len(rec.hunks) = j
  BY DEF ReadTo
<1>6. ASSUME j # 0
      PROVE  Finished(given, y, i)
  <2>1. j \in Nat /\ j \in 1 .. j
    BY <1>1, <1>6, SectionFacts
  <2>2. rec.hunks # <<>>
    <3>1. Len(<<>>) = 0
      OBVIOUS
    <3>2. QED
      BY <1>5, <1>6, <3>1
  <2>3. IsList(list) /\ Len(list) = j /\ list[j] = z /\ \A k \in 1 .. j - 1 : list[k] = rec.hunks[k]
    <3> HIDE DEF z
    <3>1. QED
      BY <1>5, <2>2, ReplaceLast
  <2>4. IsHunkRecord(x) /\ AddedInside(x, file.hunks[j])
    BY <1>4, <2>1 DEF HunkDone
  <2>5. IsHunkRecord(z) /\ AddedInside(z, file.hunks[j])
    <3> HIDE DEF x
    <3>1. IsHunkRecord(z) /\ z.added = x.added
      BY <2>4, RemovedIsRecorded
    <3> HIDE DEF z
    <3>2. QED
      BY <2>4, <3>1 DEF AddedInside
  <2> HIDE DEF list, z
  <2>6. FileShape(y) /\ y.hunks = list /\ (HeaderDone(rec, file) => HeaderDone(y, file))
    BY <1>5, HunksReplaced
  <2> HIDE DEF y
  <2>7. ASSUME NEW k \in 1 .. Len(file.hunks)
        PROVE  /\ IsHunkRecord(y.hunks[k]) /\ AddedInside(y.hunks[k], file.hunks[k])
               /\ PlainHunk(file.hunks[k]) /\ ~Exempt(given, i, k) => Exact(y.hunks[k], file.hunks[k])
    <3>1. CASE k = j
      BY <1>3, <2>3, <2>5, <2>6, <3>1
    <3>2. CASE k # j
      <4>1. k \in 1 .. j - 1 /\ k \in 1 .. j
        BY <1>1, <2>1, <3>2
      <4>2. y.hunks[k] = rec.hunks[k]
        BY <2>3, <2>6, <4>1
      <4>3. HunkDone(rec.hunks[k], file.hunks[k])
        BY <1>4, <4>1
      <4>4. QED
        BY <4>2, <4>3 DEF HunkDone
    <3>3. QED
      BY <3>1, <3>2
  <2>8. QED
    BY <1>1, <1>4, <2>3, <2>6, <2>7 DEF Finished
<1>7. j # 0 => Removes(rec, old) = y
  BY <1>5 DEF Removes, LastOf, LastHunkWith
<1>8. QED
  BY <1>2, <1>6, <1>7

LEMMA FileBegins ==
  ASSUME NEW file, IsChangedFile(file), NEW old, NEW new
  PROVE  ReadTo(NewFileRecord(FirstLine(file)), file, 0, 0, old, new)
<1> DEFINE rec == NewFileRecord(FirstLine(file))
<1>1. FileShape(rec) /\ rec.hunks = <<>> /\ HeaderUpTo(rec, file, 0)
  BY HeaderStarts
<1> HIDE DEF rec
<1>2. IsList(<<>>) /\ Len(<<>>) = 0 /\ \A k \in 1 .. 0 - 1 : FALSE
  BY DEF IsList
<1>3. ReadTo(rec, file, 0, 0, old, new)
  BY <1>1, <1>2 DEF ReadTo
<1>4. QED
  BY <1>3 DEF rec

--------------------------------------------------------------------------------
(* The parser's steps.                                                     *)

LEMMA TagDecides ==
  ASSUME parsing = "reading", lines # <<>>, ParserNext, ~Refuse
  PROVE  /\ lines' = Tail(lines) /\ diff' = diff /\ parsing' = parsing
         /\ Line.tag = "diff --git " => StartFile
         /\ ~InsideFile /\ Line.tag # "diff --git " => Ignore
         /\ InsideFile /\ Line.tag \in {"new file mode", "deleted file mode"} => FileMode
         /\ InsideFile /\ Line.tag \in {"rename from ", "rename to "} => RenameLine
         /\ InsideFile /\ Line.tag \in {"--- ", "+++ "} => NameLine
         /\ InsideFile /\ Line.tag = "@@" => HunkLine
         /\ InsideFile /\ ~InsideHunk /\ Line.tag \in {"+", "-", " "} => Ignore
         /\ InsideFile /\ Line.tag \in {"+++", "---", "no newline", "other"} => Ignore
         /\ InsideHunk /\ Line.tag = "+" => AddedLine
         /\ InsideHunk /\ Line.tag = "-" => RemovedLine
         /\ InsideHunk /\ Line.tag = " " => ContextLine
<1> DEFINE tag == Line.tag
<1>1. StartFile => Reads({"diff --git "}) /\ tag = "diff --git "
  BY DEF StartFile, Reads
<1>2. FileMode => Reads({"new file mode", "deleted file mode"}) /\ InsideFile
                  /\ tag \in {"new file mode", "deleted file mode"}
  BY DEF FileMode, Reads, ModeTags
<1>3. RenameLine => Reads({"rename from ", "rename to "}) /\ InsideFile /\ tag \in {"rename from ", "rename to "}
  BY DEF RenameLine, Reads
<1>4. NameLine => Reads({"--- ", "+++ "}) /\ InsideFile /\ tag \in {"--- ", "+++ "}
  BY DEF NameLine, Reads
<1>5. HunkLine => Reads({"@@"}) /\ InsideFile /\ tag = "@@"
  BY DEF HunkLine, Reads
<1>6. AddedLine => Reads({"+"}) /\ InsideHunk /\ tag = "+"
  BY DEF AddedLine, Reads
<1>7. RemovedLine => Reads({"-"}) /\ InsideHunk /\ tag = "-"
  BY DEF RemovedLine, Reads
<1>8. ContextLine => Reads({" "}) /\ InsideHunk /\ tag = " "
  BY DEF ContextLine, Reads
<1>9. Ignore => /\ \/ ~InsideFile /\ Reads({tag} \ {"diff --git "}) /\ tag # "diff --git "
                   \/ /\ InsideFile /\ ~InsideHunk /\ Reads({"+", "-", " ", "+++", "---", "no newline", "other"})
                      /\ tag \in {"+", "-", " ", "+++", "---", "no newline", "other"}
                   \/ InsideHunk /\ Reads({"+++", "---", "no newline", "other"}) /\ tag \in {"+++", "---", "no newline", "other"}
  BY DEF Ignore, Reads, BodyTags
<1>10. ~Finish
  BY DEF Finish
<1>11. \A tags : Reads(tags) => lines' = Tail(lines) /\ diff' = diff /\ parsing' = parsing
  BY DEF Reads
<1>12. InsideHunk => InsideFile
  BY DEF InsideHunk
<1> HIDE DEF tag
<1>13. \/ StartFile \/ FileMode \/ RenameLine \/ NameLine \/ HunkLine
       \/ AddedLine \/ RemovedLine \/ ContextLine \/ Ignore
  BY <1>10 DEF ParserNext
<1>14. lines' = Tail(lines) /\ diff' = diff /\ parsing' = parsing
  BY <1>1, <1>2, <1>3, <1>4, <1>5, <1>6, <1>7, <1>8, <1>9, <1>11, <1>13
<1>15. CASE ~InsideFile
  BY <1>1, <1>2, <1>3, <1>4, <1>5, <1>6, <1>7, <1>8, <1>9, <1>12, <1>13, <1>14, <1>15 DEF tag
<1>16. CASE InsideFile /\ ~InsideHunk
  BY <1>1, <1>2, <1>3, <1>4, <1>5, <1>6, <1>7, <1>8, <1>9, <1>13, <1>14, <1>16 DEF tag
<1>17. CASE InsideHunk
  BY <1>1, <1>2, <1>3, <1>4, <1>5, <1>6, <1>7, <1>8, <1>9, <1>12, <1>13, <1>14, <1>17 DEF tag
<1>18. QED
  BY <1>12, <1>15, <1>16, <1>17

WithLast(list, rec) == [list EXCEPT ![Len(list)] = rec]

LEMMA SameLast ==
  ASSUME NEW list, IsList(list), list # <<>>
  PROVE  WithLast(list, list[Len(list)]) = list
<1> DEFINE t == WithLast(list, list[Len(list)])
<1>1. /\ IsList(t) /\ Len(t) = Len(list) /\ Len(list) \in Nat /\ Len(list) > 0
      /\ t[Len(list)] = list[Len(list)] /\ \A i \in 1 .. Len(list) - 1 : t[i] = list[i]
  BY ReplaceLast DEF WithLast
<1> HIDE DEF t
<1>2. \A i \in 1 .. Len(list) : t[i] = list[i]
  <2>1. \A i \in 1 .. Len(list) : i \in 1 .. Len(list) - 1 \/ i = Len(list)
    BY <1>1
  <2>2. QED
    BY <1>1, <2>1
<1>3. t = list
  BY <1>1, <1>2, SameList
<1>4. QED
  BY <1>3 DEF t

(* What a step makes of the current record and the counters. *)
LEMMA LineIsRead ==
  ASSUME parsing = "reading", lines # <<>>, ParserNext, ~Refuse, IsList(parsed), parsed # <<>>,
         FileShape(parsed[Len(parsed)]), IsList(parsed[Len(parsed)].hunks)
  PROVE  LET tag == Line.tag
             rec == parsed[Len(parsed)]
             inside == Len(rec.hunks) > 0
             same == oldLine' = oldLine /\ newLine' = newLine
         IN  /\ tag \in {"new file mode", "deleted file mode", "rename from ", "rename to ", "--- ", "+++ "}
                  => parsed' = WithLast(parsed, AfterLine(rec, Line)) /\ same
             /\ tag \in {"---", "+++", "no newline", "other"} => parsed' = WithLast(parsed, rec) /\ same
             /\ tag = "@@" => /\ parsed' = WithLast(parsed, WithHunks(rec, Append(rec.hunks, NewHunkRecord(Line))))
                              /\ oldLine' = Line.old /\ newLine' = Line.new
             /\ tag \in {"+", "-", " "} /\ ~inside => parsed' = WithLast(parsed, rec) /\ same
             /\ tag = "+" /\ inside => /\ parsed' = WithLast(parsed, Adds(rec, newLine))
                                       /\ oldLine' = oldLine /\ newLine' = newLine + 1
             /\ tag = "-" /\ inside => /\ parsed' = WithLast(parsed, Removes(rec, oldLine))
                                       /\ oldLine' = oldLine + 1 /\ newLine' = newLine
             /\ tag = " " /\ inside => /\ parsed' = WithLast(parsed, rec)
                                       /\ oldLine' = oldLine + 1 /\ newLine' = newLine + 1
<1> DEFINE tag == Line.tag
           rec == parsed[Len(parsed)]
           inside == Len(rec.hunks) > 0
           same == oldLine' = oldLine /\ newLine' = newLine
<1>1. InsideFile
  BY DEF InsideFile
<1>2. InsideHunk <=> inside
  BY <1>1 DEF InsideHunk, CurrentHunk, Current
<1>3. /\ tag \in {"new file mode", "deleted file mode"} => FileMode
      /\ tag \in {"rename from ", "rename to "} => RenameLine
      /\ tag \in {"--- ", "+++ "} => NameLine
      /\ tag = "@@" => HunkLine
      /\ ~inside /\ tag \in {"+", "-", " "} => Ignore
      /\ tag \in {"+++", "---", "no newline", "other"} => Ignore
      /\ inside /\ tag = "+" => AddedLine
      /\ inside /\ tag = "-" => RemovedLine
      /\ inside /\ tag = " " => ContextLine
  BY <1>1, <1>2, TagDecides
<1>4. WithLast(parsed, rec) = parsed
  BY SameLast
<1>5. ASSUME Ignore
      PROVE  parsed' = WithLast(parsed, rec) /\ same
  BY <1>4, <1>5 DEF Ignore
<1>6. ASSUME tag \in {"new file mode", "deleted file mode"}
      PROVE  parsed' = WithLast(parsed, AfterLine(rec, Line)) /\ same
  <2>1. FileMode
    BY <1>3, <1>6
  <2> DEFINE hint == IF tag = "new file mode" THEN "added" ELSE "deleted"
  <2>2. AfterLine(rec, Line) = WithHint(rec, hint)
    <3>1. tag = "new file mode" \/ tag = "deleted file mode"
      BY <1>6
    <3>2. QED
      BY <3>1 DEF AfterLine
  <2>3. parsed' = [parsed EXCEPT ![Len(parsed)].hint = hint] /\ same
    BY <2>1 DEF FileMode, Current
  <2> HIDE DEF hint
  <2>4. [parsed EXCEPT ![Len(parsed)].hint = hint] = WithLast(parsed, WithHint(rec, hint))
    BY Zenon DEF WithLast, WithHint
  <2>5. QED
    BY <2>2, <2>3, <2>4
<1>7. ASSUME tag \in {"rename from ", "rename to "}
      PROVE  parsed' = WithLast(parsed, AfterLine(rec, Line)) /\ same
  <2>1. RenameLine
    BY <1>3, <1>7
  <2> DEFINE y == [rec EXCEPT !.old = NormalizedPath(Line.path), !.hint = "renamed"]
             z == [rec EXCEPT !.new = NormalizedPath(Line.path), !.hint = "renamed"]
  <2>2. parsed' = WithLast(parsed, IF tag = "rename from " THEN y ELSE z) /\ same
    BY <2>1, Zenon DEF RenameLine, Current, WithLast
  <2>3. PICK a, b, g, l : rec = [old |-> a, new |-> b, hint |-> g, hunks |-> l]
    BY DEF FileShape
  <2> DEFINE n == NormalizedPath(Line.path)
  <2> HIDE DEF rec, n
  <2>4. y = [[rec EXCEPT !.old = n] EXCEPT !.hint = "renamed"]
    BY <2>3 DEF n
  <2>5. z = [[rec EXCEPT !.new = n] EXCEPT !.hint = "renamed"]
    BY <2>3 DEF n
  <2> HIDE DEF y, z
  <2>6. y = WithHint(WithOld(rec, Line.path), "renamed") /\ z = WithHint(WithNew(rec, Line.path), "renamed")
    BY <2>4, <2>5, Zenon DEF WithHint, WithOld, WithNew, n
  <2>7. CASE tag = "rename from "
    <3>1. AfterLine(rec, Line) = WithHint(WithOld(rec, Line.path), "renamed")
      BY <2>7 DEF AfterLine
    <3>2. QED
      BY <2>2, <2>6, <2>7, <3>1
  <2>8. CASE tag = "rename to "
    <3>1. AfterLine(rec, Line) = WithHint(WithNew(rec, Line.path), "renamed")
      BY <2>8 DEF AfterLine
    <3>2. QED
      BY <2>2, <2>6, <2>8, <3>1
  <2>9. QED
    BY <1>7, <2>7, <2>8
<1>8. ASSUME tag \in {"--- ", "+++ "}
      PROVE  parsed' = WithLast(parsed, AfterLine(rec, Line)) /\ same
  <2>1. NameLine
    BY <1>3, <1>8
  <2>2. parsed' = WithLast(parsed, IF tag = "--- " THEN WithOld(rec, Line.path) ELSE WithNew(rec, Line.path)) /\ same
    BY <2>1, Zenon DEF NameLine, Current, WithLast, WithOld, WithNew
  <2>3. CASE tag = "--- "
    <3>1. AfterLine(rec, Line) = WithOld(rec, Line.path)
      BY <2>3 DEF AfterLine
    <3>2. QED
      BY <2>2, <2>3, <3>1
  <2>4. CASE tag = "+++ "
    <3>1. AfterLine(rec, Line) = WithNew(rec, Line.path)
      BY <2>4 DEF AfterLine
    <3>2. QED
      BY <2>2, <2>4, <3>1
  <2>5. QED
    BY <1>8, <2>3, <2>4
<1>9. ASSUME tag = "@@"
      PROVE  /\ parsed' = WithLast(parsed, WithHunks(rec, Append(rec.hunks, NewHunkRecord(Line))))
             /\ oldLine' = Line.old /\ newLine' = Line.new
  <2>1. HunkLine
    BY <1>3, <1>9
  <2>2. QED
    BY <2>1, Zenon DEF HunkLine, Current, WithLast, WithHunks, NewHunkRecord
<1>10. ASSUME tag = "+", inside
       PROVE  /\ parsed' = WithLast(parsed, Adds(rec, newLine))
              /\ oldLine' = oldLine /\ newLine' = newLine + 1
  <2>1. AddedLine
    BY <1>3, <1>10
  <2>2. QED
    BY <2>1, Zenon DEF AddedLine, Current, CurrentHunk, WithLast, Adds, LastHunkWith, LastOf, WithHunks
<1>11. ASSUME tag = "-", inside
       PROVE  /\ parsed' = WithLast(parsed, Removes(rec, oldLine))
              /\ oldLine' = oldLine + 1 /\ newLine' = newLine
  <2>1. RemovedLine
    BY <1>3, <1>11
  <2>2. QED
    BY <2>1, Zenon DEF RemovedLine, Current, CurrentHunk, WithLast, Removes, LastHunkWith, LastOf, WithHunks
<1>12. ASSUME tag = " ", inside
       PROVE  /\ parsed' = WithLast(parsed, rec)
              /\ oldLine' = oldLine + 1 /\ newLine' = newLine + 1
  <2>1. ContextLine
    BY <1>3, <1>12
  <2>2. QED
    BY <1>4, <2>1 DEF ContextLine
<1>13. tag \in {"---", "+++", "no newline", "other"} => parsed' = WithLast(parsed, rec) /\ same
  BY <1>3, <1>5
<1>14. tag \in {"+", "-", " "} /\ ~inside => parsed' = WithLast(parsed, rec) /\ same
  BY <1>3, <1>5
<1>15. tag \in {"new file mode", "deleted file mode", "rename from ", "rename to ", "--- ", "+++ "}
         => parsed' = WithLast(parsed, AfterLine(rec, Line)) /\ same
  BY <1>6, <1>7, <1>8
<1>16. QED
  BY <1>9, <1>10, <1>11, <1>12, <1>13, <1>14, <1>15

--------------------------------------------------------------------------------
(* Where the parser is in the text, and what its records are there.        *)

AllFinished(given, list, n) == \A k \in 1 .. n : Finished(given, list[k], k)

AmidFile(given, ls, list, old, new) ==
  /\ list # <<>> /\ AllFinished(given, list, Len(list) - 1)
  /\ \E j, m : /\ At(given, ls, Len(list), j, m)
               /\ ReadTo(list[Len(list)], given.files[Len(list)], j, m, old, new)

AllRead(given, ls, list) ==
  ls = <<>> /\ Len(list) = Len(given.files) /\ AllFinished(given, list, Len(list))

Place(given, ls, list, old, new) ==
  \/ list = <<>> /\ InCover(given, ls)
  \/ AmidFile(given, ls, list, old, new)
  \/ AllRead(given, ls, list)

LEMMA LastChanges ==
  ASSUME NEW list, IsList(list), list # <<>>, NEW rec, NEW given
  PROVE  LET t == WithLast(list, rec) IN
         /\ IsList(t) /\ t # <<>> /\ Len(t) = Len(list) /\ t[Len(list)] = rec
         /\ AllFinished(given, list, Len(list) - 1) => AllFinished(given, t, Len(list) - 1)
         /\ AllFinished(given, list, Len(list) - 1) /\ Finished(given, rec, Len(list))
              => AllFinished(given, t, Len(list))
<1> DEFINE t == WithLast(list, rec)
           n == Len(list)
<1>1. /\ IsList(t) /\ t # <<>> /\ Len(t) = n /\ n \in Nat /\ n > 0
      /\ DOMAIN list = 1 .. n /\ DOMAIN t = 1 .. n
      /\ t[n] = rec /\ \A i \in 1 .. n - 1 : t[i] = list[i]
  BY ReplaceLast DEF WithLast
<1> HIDE DEF t, n
<1>2. AllFinished(given, list, n - 1) => AllFinished(given, t, n - 1)
  BY <1>1 DEF AllFinished
<1>3. \A i \in 1 .. n : i \in 1 .. n - 1 \/ i = n
  BY <1>1
<1>4. AllFinished(given, list, n - 1) /\ Finished(given, rec, n) => AllFinished(given, t, n)
  BY <1>1, <1>3 DEF AllFinished
<1>5. QED
  BY <1>1, <1>2, <1>4 DEF t, n

LEMMA StaysInFile ==
  ASSUME NEW given, NEW list, IsList(list), list # <<>>, AllFinished(given, list, Len(list) - 1),
         NEW rec, NEW ls, NEW j, NEW m, At(given, ls, Len(list), j, m), NEW old, NEW new,
         ReadTo(rec, given.files[Len(list)], j, m, old, new)
  PROVE  AmidFile(given, ls, WithLast(list, rec), old, new)
<1> DEFINE t == WithLast(list, rec)
<1>1. t # <<>> /\ Len(t) = Len(list) /\ t[Len(list)] = rec /\ AllFinished(given, t, Len(list) - 1)
  BY LastChanges
<1> HIDE DEF t
<1>2. AmidFile(given, ls, t, old, new)
  BY <1>1 DEF AmidFile
<1>3. QED
  BY <1>2 DEF t

LEMMA NextFileBegins ==
  ASSUME NEW given, IsDiff(given), NEW list, IsList(list), AllFinished(given, list, Len(list)),
         NEW ls, NextFileAt(given, ls, Len(list)), NEW old, NEW new
  PROVE  LET t == Append(list, NewFileRecord(ls[1])) IN
         ls[1].tag = "diff --git " /\ AmidFile(given, Tail(ls), t, old, new)
<1> DEFINE n == Len(list)
           rec == NewFileRecord(ls[1])
           t == Append(list, rec)
           file == given.files[n + 1]
<1>1. /\ n + 1 \in DOMAIN given.files /\ ls[1] = FirstLine(file)
      /\ At(given, Tail(ls), n + 1, 0, 0)
  BY DEF NextFileAt
<1>2. IsChangedFile(file)
  BY <1>1 DEF IsDiff
<1>3. ReadTo(rec, file, 0, 0, old, new)
  BY <1>1, <1>2, FileBegins
<1>4. ls[1].tag = "diff --git "
  <2> DEFINE line == ls[1]
  <2>1. line = FirstLine(file)
    BY <1>1
  <2> HIDE DEF line, file
  <2>2. line.tag = "diff --git "
    BY <2>1 DEF FirstLine
  <2>3. QED
    BY <2>2 DEF line
<1> HIDE DEF rec
<1>5. /\ IsList(t) /\ n \in Nat /\ DOMAIN list = 1 .. n /\ Len(t) = n + 1 /\ DOMAIN t = 1 .. n + 1
      /\ \A k \in 1 .. n : t[k] = list[k]
      /\ t[n + 1] = rec
  BY ListAppend
<1> HIDE DEF t, n
<1>6. t # <<>>
  <2>1. Len(<<>>) = 0
    OBVIOUS
  <2>2. QED
    BY <1>5, <2>1
<1>7. AllFinished(given, t, Len(t) - 1)
  <2>1. Len(t) - 1 = n
    BY <1>5
  <2>2. AllFinished(given, list, n)
    BY DEF n
  <2>3. QED
    BY <1>5, <2>1, <2>2 DEF AllFinished
<1>8. AmidFile(given, Tail(ls), t, old, new)
  <2>1. Len(t) = n + 1
    BY <1>5
  <2>2. At(given, Tail(ls), Len(t), 0, 0) /\ ReadTo(t[Len(t)], given.files[Len(t)], 0, 0, old, new)
    BY <1>1, <1>3, <1>5, <2>1
  <2>3. QED
    BY <1>6, <1>7, <2>2 DEF AmidFile
<1>9. QED
  BY <1>4, <1>8 DEF t, rec

LEMMA EmptyList == Len(<<>>) = 0 /\ IsList(<<>>) /\ \A given : AllFinished(given, <<>>, 0)
<1>1. Len(<<>>) = 0 /\ IsList(<<>>)
  BY DEF IsList
<1>2. \A k \in 1 .. 0 : FALSE
  OBVIOUS
<1>3. QED
  BY <1>1, <1>2 DEF AllFinished

(* Nothing is left to read. *)
LEMMA NothingIsLeft ==
  ASSUME NEW given, IsDiff(given), NEW list, IsList(list), NEW old, NEW new,
         Place(given, <<>>, list, old, new)
  PROVE  Len(list) = Len(given.files) /\ AllFinished(given, list, Len(list))
<1>1. CASE list = <<>> /\ InCover(given, <<>>)
  <2>1. Len(given.files) = 0
    BY <1>1, WhatComesFirst
  <2>2. QED
    BY <1>1, <2>1, EmptyList
<1>2. CASE AmidFile(given, <<>>, list, old, new)
  <2> DEFINE n == Len(list)
  <2>1. PICK j, m : At(given, <<>>, n, j, m) /\ ReadTo(list[n], given.files[n], j, m, old, new)
    BY <1>2 DEF AmidFile
  <2>2. SectionRead(given, n, j, m) /\ FileRead(given, n, j) /\ n = Len(given.files)
    BY <2>1, WhatComesNext
  <2>3. n \in DOMAIN given.files /\ j \in 0 .. Len(given.files[n].hunks)
    BY <2>1 DEF At
  <2>4. Finished(given, list[n], n)
    BY <2>1, <2>2, <2>3, FileEnds
  <2>5. AllFinished(given, list, n - 1) /\ list # <<>>
    BY <1>2 DEF AmidFile
  <2>6. n \in Nat
    BY ListFacts
  <2> HIDE DEF n
  <2>7. \A k \in 1 .. n : k \in 1 .. n - 1 \/ k = n
    BY <2>6
  <2>8. AllFinished(given, list, n)
    BY <2>4, <2>5, <2>7 DEF AllFinished
  <2>9. QED
    BY <2>2, <2>8 DEF n
<1>3. CASE AllRead(given, <<>>, list)
  BY <1>3 DEF AllRead
<1>4. QED
  BY <1>1, <1>2, <1>3 DEF Place

(* One step, before the first file. *)
LEMMA StepInCover ==
  ASSUME IsDiff(diff), parsing = "reading", lines # <<>>, ParserNext, ~Refuse,
         parsed = <<>>, InCover(diff, lines)
  PROVE  Place(diff, lines', parsed', oldLine', newLine')
<1>1. \/ Line \in {[tag |-> "other"], [tag |-> "---"]} /\ InCover(diff, Tail(lines))
      \/ NextFileAt(diff, lines, 0)
      \/ SignatureAt(diff, lines, 0)
  BY WhatComesFirst DEF Line
<1>2. lines' = Tail(lines) /\ ~InsideFile
  BY TagDecides DEF InsideFile
<1>3. IsList(<<>>) /\ Len(<<>>) = 0 /\ AllFinished(diff, <<>>, 0)
  BY EmptyList
<1>4. CASE Line \in {[tag |-> "other"], [tag |-> "---"]} /\ InCover(diff, Tail(lines))
  <2>1. Line.tag # "diff --git "
    <3> DEFINE line == Line
    <3>1. line \in {[tag |-> "other"], [tag |-> "---"]}
      BY <1>4
    <3> HIDE DEF line
    <3>2. line = [tag |-> "other"] => line.tag # "diff --git "
      OBVIOUS
    <3>3. line = [tag |-> "---"] => line.tag # "diff --git "
      OBVIOUS
    <3>4. QED
      BY <3>1, <3>2, <3>3 DEF line
  <2>2. Ignore
    BY <1>2, <2>1, TagDecides
  <2>3. parsed' = <<>>
    BY <2>2 DEF Ignore
  <2>4. InCover(diff, lines')
    BY <1>2, <1>4
  <2>5. QED
    BY <1>3, <2>3, <2>4 DEF Place
<1>5. CASE NextFileAt(diff, lines, 0)
  <2> DEFINE list == parsed
             rec == NewFileRecord(Line)
             t == Append(list, rec)
             old == oldLine
             new == newLine
  <2>1. IsList(list) /\ AllFinished(diff, list, Len(list)) /\ NextFileAt(diff, lines, Len(list))
    BY <1>3, <1>5
  <2>2. Line.tag = "diff --git " /\ AmidFile(diff, Tail(lines), t, old, new)
    <3> HIDE DEF list
    <3>1. QED
      BY <2>1, NextFileBegins DEF Line
  <2>3. StartFile
    BY <2>2, TagDecides
  <2>4. parsed' = t /\ oldLine' = old /\ newLine' = new
    BY <2>3, Zenon DEF StartFile, NewFileRecord, OldWord, NewWord
  <2> HIDE DEF t, list, rec
  <2>5. AmidFile(diff, lines', parsed', oldLine', newLine')
    BY <1>2, <2>2, <2>4
  <2>6. QED
    BY <2>5 DEF Place
<1>6. CASE SignatureAt(diff, lines, 0)
  <2>1. Line = [tag |-> "-"] /\ Tail(lines) = <<>> /\ 0 = Len(diff.files)
    BY <1>6 DEF SignatureAt, Line
  <2>2. Line.tag # "diff --git "
    <3> DEFINE line == Line
    <3>1. line = [tag |-> "-"]
      BY <2>1
    <3> HIDE DEF line
    <3>2. line.tag # "diff --git "
      BY <3>1
    <3>3. QED
      BY <3>2 DEF line
  <2>3. Ignore
    BY <1>2, <2>2, TagDecides
  <2>4. parsed' = <<>> /\ lines' = <<>>
    BY <1>2, <2>1, <2>3 DEF Ignore
  <2>5. AllRead(diff, <<>>, <<>>)
    BY <1>3, <2>1 DEF AllRead
  <2>6. QED
    BY <1>3, <2>4, <2>5 DEF Place
<1>7. QED
  BY <1>1, <1>4, <1>5, <1>6

(* One step, at a line of a file. *)
LEMMA StepOfHeader ==
  ASSUME IsDiff(diff), parsing = "reading", lines # <<>>, ParserNext, ~Refuse, IsList(parsed), parsed # <<>>,
         AllFinished(diff, parsed, Len(parsed) - 1),
         NEW m, At(diff, lines, Len(parsed), 0, m), NextOfSection(diff, lines, Len(parsed), 0, m),
         ReadTo(parsed[Len(parsed)], diff.files[Len(parsed)], 0, m, oldLine, newLine)
  PROVE  AmidFile(diff, lines', parsed', oldLine', newLine')
<1> DEFINE n == Len(parsed)
           rec == parsed[n]
           y == AfterLine(rec, Line)
<1>1. /\ Line.tag \in {"new file mode", "deleted file mode", "rename from ", "rename to ", "--- ", "+++ ", "other"}
      /\ ReadTo(y, diff.files[n], 0, m + 1, oldLine, newLine)
  BY HeaderStep DEF Line
<1>2. FileShape(rec) /\ IsList(rec.hunks) /\ Len(rec.hunks) = 0
  BY DEF ReadTo
<1>3. parsed' = WithLast(parsed, y) /\ oldLine' = oldLine /\ newLine' = newLine
  <2>1. CASE Line.tag \in {"new file mode", "deleted file mode", "rename from ", "rename to ", "--- ", "+++ "}
    BY <1>2, <2>1, LineIsRead
  <2>2. CASE Line.tag = "other"
    <3>1. parsed' = WithLast(parsed, rec) /\ oldLine' = oldLine /\ newLine' = newLine
      BY <1>2, <2>2, LineIsRead
    <3>2. y = rec
      BY <2>2 DEF AfterLine
    <3>3. QED
      BY <3>1, <3>2
  <2>3. QED
    BY <1>1, <2>1, <2>2
<1>4. lines' = Tail(lines) /\ At(diff, lines', n, 0, m + 1)
  <2>1. lines' = Tail(lines)
    BY TagDecides
  <2>2. At(diff, Tail(lines), n, 0, m + 1)
    BY DEF NextOfSection
  <2>3. QED
    BY <2>1, <2>2
<1> HIDE DEF y
<1>5. AmidFile(diff, lines', WithLast(parsed, y), oldLine, newLine)
  BY <1>1, <1>4, StaysInFile
<1>6. QED
  BY <1>3, <1>5

LEMMA StepOfHunkHeader ==
  ASSUME IsDiff(diff), parsing = "reading", lines # <<>>, ParserNext, ~Refuse, IsList(parsed), parsed # <<>>,
         AllFinished(diff, parsed, Len(parsed) - 1),
         NEW j, NEW m, At(diff, lines, Len(parsed), j, m),
         SectionRead(diff, Len(parsed), j, m), NextHunkAt(diff, lines, Len(parsed), j),
         ReadTo(parsed[Len(parsed)], diff.files[Len(parsed)], j, m, oldLine, newLine)
  PROVE  AmidFile(diff, lines', parsed', oldLine', newLine')
<1> DEFINE n == Len(parsed)
           rec == parsed[n]
           list == Append(rec.hunks, NewHunkRecord(Line))
           y == WithHunks(rec, list)
           old == Line.old
           new == Line.new
<1>1. Line.tag = "@@" /\ ReadTo(y, diff.files[n], j + 1, 0, old, new)
  BY HunkStep DEF Line
<1>2. FileShape(rec) /\ IsList(rec.hunks)
  BY DEF ReadTo
<1>3. parsed' = WithLast(parsed, y) /\ oldLine' = old /\ newLine' = new
  BY <1>1, <1>2, LineIsRead
<1>4. At(diff, lines', n, j + 1, 0)
  <2>1. lines' = Tail(lines)
    BY TagDecides
  <2>2. At(diff, Tail(lines), n, j + 1, 0)
    BY DEF NextHunkAt
  <2>3. QED
    BY <2>1, <2>2
<1> HIDE DEF y, old, new
<1>5. AmidFile(diff, lines', WithLast(parsed, y), old, new)
  BY <1>1, <1>4, StaysInFile
<1>6. QED
  BY <1>3, <1>5

LEMMA StepOfBody ==
  ASSUME IsDiff(diff), ~Forged(diff), parsing = "reading", lines # <<>>, ParserNext, ~Refuse,
         IsList(parsed), parsed # <<>>, AllFinished(diff, parsed, Len(parsed) - 1),
         NEW j, j # 0, NEW m, At(diff, lines, Len(parsed), j, m), NextOfSection(diff, lines, Len(parsed), j, m),
         ReadTo(parsed[Len(parsed)], diff.files[Len(parsed)], j, m, oldLine, newLine)
  PROVE  AmidFile(diff, lines', parsed', oldLine', newLine')
<1> DEFINE n == Len(parsed)
           rec == parsed[n]
           file == diff.files[n]
           y == AfterLine(rec, Line)
<1>1. /\ Line.tag \in BodyTags \cup NameTags \cup ModeTags
      /\ Line.tag = "+" => ReadTo(Adds(rec, newLine), file, j, m + 1, oldLine, newLine + 1)
      /\ Line.tag = "-" => ReadTo(Removes(rec, oldLine), file, j, m + 1, oldLine + 1, newLine)
      /\ Line.tag = " " => ReadTo(rec, file, j, m + 1, oldLine + 1, newLine + 1)
      /\ Line.tag \in NameTags \cup ModeTags => ReadTo(y, file, j, m + 1, oldLine, newLine)
      /\ Line.tag \in {"---", "+++", "no newline", "other"} => ReadTo(rec, file, j, m + 1, oldLine, newLine)
  BY BodyStep DEF Line
<1>2. FileShape(rec) /\ IsList(rec.hunks) /\ Len(rec.hunks) > 0
  <2>1. FileShape(rec) /\ IsList(rec.hunks) /\ Len(rec.hunks) = j
    BY DEF ReadTo
  <2>2. Len(rec.hunks) \in Nat
    BY <2>1, ListFacts
  <2>3. QED
    BY <2>1, <2>2
<1>3. At(diff, lines', n, j, m + 1)
  <2>1. lines' = Tail(lines)
    BY TagDecides
  <2>2. At(diff, Tail(lines), n, j, m + 1)
    BY DEF NextOfSection
  <2>3. QED
    BY <2>1, <2>2
<1>4. ASSUME NEW z, parsed' = WithLast(parsed, z), ReadTo(z, file, j, m + 1, oldLine', newLine')
      PROVE  AmidFile(diff, lines', parsed', oldLine', newLine')
  <2> DEFINE ls == lines'
             o == oldLine'
             q == newLine'
  <2>1. At(diff, ls, n, j, m + 1) /\ ReadTo(z, file, j, m + 1, o, q)
    BY <1>3, <1>4
  <2> HIDE DEF ls, o, q
  <2>2. AmidFile(diff, ls, WithLast(parsed, z), o, q)
    BY <2>1, StaysInFile
  <2>3. QED
    BY <1>4, <2>2 DEF ls, o, q
<1> HIDE DEF y
<1>5. CASE Line.tag = "+"
  <2>1. parsed' = WithLast(parsed, Adds(rec, newLine)) /\ oldLine' = oldLine /\ newLine' = newLine + 1
    BY <1>2, <1>5, LineIsRead
  <2>2. ReadTo(Adds(rec, newLine), file, j, m + 1, oldLine', newLine')
    BY <1>1, <1>5, <2>1
  <2>3. QED
    BY <1>4, <2>1, <2>2
<1>6. CASE Line.tag = "-"
  <2>1. parsed' = WithLast(parsed, Removes(rec, oldLine)) /\ oldLine' = oldLine + 1 /\ newLine' = newLine
    BY <1>2, <1>6, LineIsRead
  <2>2. ReadTo(Removes(rec, oldLine), file, j, m + 1, oldLine', newLine')
    BY <1>1, <1>6, <2>1
  <2>3. QED
    BY <1>4, <2>1, <2>2
<1>7. CASE Line.tag = " "
  <2>1. parsed' = WithLast(parsed, rec) /\ oldLine' = oldLine + 1 /\ newLine' = newLine + 1
    BY <1>2, <1>7, LineIsRead
  <2>2. ReadTo(rec, file, j, m + 1, oldLine', newLine')
    BY <1>1, <1>7, <2>1
  <2>3. QED
    BY <1>4, <2>1, <2>2
<1>8. CASE Line.tag \in NameTags \cup ModeTags
  <2>1. Line.tag \in {"new file mode", "deleted file mode", "rename from ", "rename to ", "--- ", "+++ "}
    BY <1>8 DEF NameTags, ModeTags
  <2>2. parsed' = WithLast(parsed, y) /\ oldLine' = oldLine /\ newLine' = newLine
    BY <1>2, <2>1, LineIsRead DEF y
  <2>3. ReadTo(y, file, j, m + 1, oldLine', newLine')
    BY <1>1, <1>8, <2>2
  <2>4. QED
    BY <1>4, <2>2, <2>3
<1>9. CASE Line.tag \in {"---", "+++", "no newline", "other"}
  <2>1. parsed' = WithLast(parsed, rec) /\ oldLine' = oldLine /\ newLine' = newLine
    BY <1>2, <1>9, LineIsRead
  <2>2. ReadTo(rec, file, j, m + 1, oldLine', newLine')
    BY <1>1, <1>9, <2>1
  <2>3. QED
    BY <1>4, <2>1, <2>2
<1>10. Line.tag \in {"+", "-", " "} \cup (NameTags \cup ModeTags) \cup {"---", "+++", "no newline", "other"}
  BY <1>1 DEF BodyTags
<1>11. QED
  BY <1>5, <1>6, <1>7, <1>8, <1>9, <1>10

LEMMA StepOfFile ==
  ASSUME IsDiff(diff), parsing = "reading", lines # <<>>, ParserNext, ~Refuse, IsList(parsed),
         AllFinished(diff, parsed, Len(parsed)), NextFileAt(diff, lines, Len(parsed))
  PROVE  AmidFile(diff, lines', parsed', oldLine', newLine')
<1> DEFINE rec == NewFileRecord(Line)
           t == Append(parsed, rec)
<1>1. Line.tag = "diff --git " /\ AmidFile(diff, Tail(lines), t, oldLine, newLine)
  BY NextFileBegins DEF Line
<1>2. StartFile /\ lines' = Tail(lines)
  BY <1>1, TagDecides
<1>3. parsed' = t /\ oldLine' = oldLine /\ newLine' = newLine
  BY <1>2, Zenon DEF StartFile, NewFileRecord, OldWord, NewWord
<1> HIDE DEF t
<1>4. QED
  BY <1>1, <1>2, <1>3

LEMMA StepOfSignature ==
  ASSUME IsDiff(diff), parsing = "reading", lines # <<>>, ParserNext, ~Refuse, IsList(parsed), parsed # <<>>,
         AllFinished(diff, parsed, Len(parsed) - 1),
         NEW j, NEW m, At(diff, lines, Len(parsed), j, m), SectionRead(diff, Len(parsed), j, m),
         FileRead(diff, Len(parsed), j), SignatureAt(diff, lines, Len(parsed)),
         ReadTo(parsed[Len(parsed)], diff.files[Len(parsed)], j, m, oldLine, newLine)
  PROVE  AllRead(diff, lines', parsed')
<1> DEFINE n == Len(parsed)
           rec == parsed[n]
<1>1. n = Len(diff.files) /\ Line = [tag |-> "-"] /\ Tail(lines) = <<>>
  BY DEF SignatureAt, Line
<1>2. Line.tag = "-"
  <2> DEFINE line == Line
  <2>1. line = [tag |-> "-"]
    BY <1>1
  <2> HIDE DEF line
  <2>2. line.tag = "-"
    BY <2>1
  <2>3. QED
    BY <2>2 DEF line
<1>3. FileShape(rec) /\ IsList(rec.hunks) /\ Len(rec.hunks) = j /\ j \in Nat
  <2>1. FileShape(rec) /\ IsList(rec.hunks) /\ Len(rec.hunks) = j
    BY DEF ReadTo
  <2>2. QED
    BY <2>1, ListFacts
<1>4. /\ j = 0 => Finished(diff, rec, n)
      /\ j # 0 => Finished(diff, Removes(rec, oldLine), n)
  BY SignatureEnds
<1>5. lines' = <<>>
  BY <1>1, TagDecides
<1>6. ASSUME NEW y, Finished(diff, y, n), parsed' = WithLast(parsed, y)
      PROVE  AllRead(diff, lines', parsed')
  <2>1. /\ Len(WithLast(parsed, y)) = n
        /\ AllFinished(diff, WithLast(parsed, y), n)
    BY <1>6, LastChanges
  <2>2. QED
    BY <1>1, <1>5, <1>6, <2>1 DEF AllRead
<1>7. CASE j = 0
  <2>1. parsed' = WithLast(parsed, rec)
    BY <1>2, <1>3, <1>7, LineIsRead
  <2>2. QED
    BY <1>4, <1>6, <1>7, <2>1
<1>8. CASE j # 0
  <2>1. Len(rec.hunks) > 0
    BY <1>3, <1>8
  <2>2. parsed' = WithLast(parsed, Removes(rec, oldLine))
    BY <1>2, <1>3, <2>1, LineIsRead
  <2>3. QED
    BY <1>4, <1>6, <1>8, <2>2
<1>9. QED
  BY <1>7, <1>8

LEMMA StepInFile ==
  ASSUME IsDiff(diff), ~Forged(diff), parsing = "reading", lines # <<>>, ParserNext, ~Refuse, IsList(parsed),
         AmidFile(diff, lines, parsed, oldLine, newLine)
  PROVE  Place(diff, lines', parsed', oldLine', newLine')
<1> DEFINE n == Len(parsed)
           Goal == Place(diff, lines', parsed', oldLine', newLine')
<1> SUFFICES Goal
  OBVIOUS
<1>1. PICK j, m : At(diff, lines, n, j, m) /\ ReadTo(parsed[n], diff.files[n], j, m, oldLine, newLine)
  BY DEF AmidFile
<1>2. parsed # <<>> /\ AllFinished(diff, parsed, n - 1)
  BY DEF AmidFile
<1>3. \/ NextOfSection(diff, lines, n, j, m)
      \/ SectionRead(diff, n, j, m) /\ NextHunkAt(diff, lines, n, j)
      \/ SectionRead(diff, n, j, m) /\ FileRead(diff, n, j) /\ NextFileAt(diff, lines, n)
      \/ SectionRead(diff, n, j, m) /\ FileRead(diff, n, j) /\ SignatureAt(diff, lines, n)
  BY <1>1, WhatComesNext
<1>4. CASE NextOfSection(diff, lines, n, j, m) /\ j = 0
  <2>1. At(diff, lines, n, 0, m) /\ ReadTo(parsed[n], diff.files[n], 0, m, oldLine, newLine)
        /\ NextOfSection(diff, lines, n, 0, m)
    BY <1>1, <1>4
  <2>2. QED
    BY <1>2, <2>1, StepOfHeader DEF Place
<1>5. CASE NextOfSection(diff, lines, n, j, m) /\ j # 0
  BY <1>1, <1>2, <1>5, StepOfBody DEF Place
<1>6. CASE SectionRead(diff, n, j, m) /\ NextHunkAt(diff, lines, n, j)
  BY <1>1, <1>2, <1>6, StepOfHunkHeader DEF Place
<1>7. CASE SectionRead(diff, n, j, m) /\ FileRead(diff, n, j) /\ NextFileAt(diff, lines, n)
  <2>1. n \in DOMAIN diff.files /\ j \in 0 .. Len(diff.files[n].hunks)
    BY <1>1 DEF At
  <2>2. Finished(diff, parsed[n], n)
    BY <1>1, <1>7, <2>1, FileEnds
  <2>3. AllFinished(diff, parsed, n)
    <3>1. n \in Nat
      BY ListFacts
    <3> HIDE DEF n
    <3>2. \A k \in 1 .. n : k \in 1 .. n - 1 \/ k = n
      BY <3>1
    <3>3. QED
      BY <1>2, <2>2, <3>2 DEF AllFinished
  <2>4. QED
    BY <1>7, <2>3, StepOfFile DEF Place
<1>8. CASE SectionRead(diff, n, j, m) /\ FileRead(diff, n, j) /\ SignatureAt(diff, lines, n)
  BY <1>1, <1>2, <1>8, StepOfSignature DEF Place
<1>9. QED
  BY <1>3, <1>4, <1>5, <1>6, <1>7, <1>8

--------------------------------------------------------------------------------
(* What every line of a diff is like, wherever it is read: it starts like  *)
(* one that the parser knows, the header of a hunk has numbers, and a name *)
(* that is refused comes from a line that is suspicious in the diff.       *)

BlamedFile(file) ==
  \/ Suspicious(file.old) \/ Suspicious(file.new)
  \/ \E j \in DOMAIN file.hunks :
       \E k \in DOMAIN file.hunks[j].body : SuspiciousLine(file.hunks[j].body[k])

Blamed(given) == \E i \in DOMAIN given.files : BlamedFile(given.files[i])


LEMMA PrefixIsInnocent ==
  ASSUME NEW name, IsList(name), NEW x \in {"a", "b", Blank}
  PROVE  /\ IsList(<<x>> \o name)
         /\ Suspicious(<<x>> \o name) => Suspicious(name)
<1> DEFINE first == <<x>>
<1>1. IsList(first) /\ Elements(first) = {x}
  BY OneLine DEF Elements
<1> HIDE DEF first
<1>2. IsList(first \o name)
  BY <1>1, ListConcat
<1>3. Elements(first \o name) = Elements(first) \cup Elements(name)
  BY <1>1, ElementsOfConcat
<1>4. x \notin {Root, ".."}
  BY NamesAreNotRoot
<1>5. Suspicious(first \o name) => Suspicious(name)
  BY <1>1, <1>3, <1>4 DEF Suspicious
<1>6. QED
  BY <1>2, <1>5 DEF first

LEMMA TagOfTagged == \A line, tag : line = [tag |-> tag] => line.tag = tag
OBVIOUS

LEMMA HeaderLines ==
  ASSUME NEW file, IsChangedFile(file), NEW k \in 1 .. Len(RawHeader(file))
  PROVE  \/ \E tag \in {"new file mode", "deleted file mode", "other"} : RawHeader(file)[k] = [tag |-> tag]
         \/ \E tag \in NameTags, path \in {file.old, file.new, OldName(file), NewName(file)} :
              RawHeader(file)[k] = [tag |-> tag, path |-> path]
<1> DEFINE header == RawHeader(file)
           e == ExtendedLines(file)
           names == {file.old, file.new, OldName(file), NewName(file)}
           Goal == \/ \E tag \in {"new file mode", "deleted file mode", "other"} : header[k] = [tag |-> tag]
                   \/ \E tag \in NameTags, path \in names : header[k] = [tag |-> tag, path |-> path]
<1> SUFFICES Goal
  OBVIOUS
<1>1. /\ e \in {1, 2} /\ (e = IF file.change = "renamed" THEN 2 ELSE 1)
      /\ Len(header) = IF file.hunks = <<>> THEN e ELSE e + 2
  BY HeaderFacts DEF ExtendedLines
<1>2. /\ file.change = "added" => header[1] = [tag |-> "new file mode"]
      /\ file.change = "deleted" => header[1] = [tag |-> "deleted file mode"]
      /\ file.change = "modified" => header[1] = [tag |-> "other"]
  BY HeaderFacts
<1>3. file.change = "renamed" =>
        /\ header[1] = [tag |-> "rename from ", path |-> file.old]
        /\ header[2] = [tag |-> "rename to ", path |-> file.new]
  BY HeaderFacts
<1>4. file.hunks # <<>> =>
        /\ header[e + 1] = [tag |-> "--- ", path |-> OldName(file)]
        /\ header[e + 2] = [tag |-> "+++ ", path |-> NewName(file)]
  BY HeaderFacts
<1>5. file.change \in {"added", "deleted", "renamed", "modified"}
  BY DEF IsChangedFile
<1>6. {"rename from ", "rename to ", "--- ", "+++ "} = NameTags
  BY DEF NameTags
<1>7. \/ k = 1
      \/ k = 2 /\ e = 2
      \/ file.hunks # <<>> /\ k = e + 1
      \/ file.hunks # <<>> /\ k = e + 2
  BY <1>1
<1>8. file.old \in names /\ file.new \in names /\ OldName(file) \in names /\ NewName(file) \in names
  OBVIOUS
<1> HIDE DEF header, e, names
<1>9. CASE k = 1
  <2>1. CASE file.change = "renamed"
    <3>1. header[k] = [tag |-> "rename from ", path |-> file.old] /\ "rename from " \in NameTags
      BY <1>3, <1>6, <1>9, <2>1
    <3>2. QED
      BY <1>8, <3>1, Zenon
  <2>2. CASE file.change \in {"added", "deleted", "modified"}
    <3>1. \E tag \in {"new file mode", "deleted file mode", "other"} : header[k] = [tag |-> tag]
      BY <1>2, <1>9, <2>2, Zenon
    <3>2. QED
      BY <3>1
  <2>3. QED
    BY <1>5, <2>1, <2>2
<1>10. CASE k = 2 /\ e = 2
  <2>1. file.change = "renamed"
    BY <1>1, <1>10
  <2>2. header[k] = [tag |-> "rename to ", path |-> file.new] /\ "rename to " \in NameTags
    BY <1>3, <1>6, <1>10, <2>1
  <2>3. QED
    BY <1>8, <2>2, Zenon
<1>11. CASE file.hunks # <<>> /\ k = e + 1
  BY <1>4, <1>6, <1>8, <1>11
<1>12. CASE file.hunks # <<>> /\ k = e + 2
  BY <1>4, <1>6, <1>8, <1>12
<1>13. QED
  BY <1>7, <1>9, <1>10, <1>11, <1>12

LineOK(given, line) ==
  /\ line.tag \in AnyTag
  /\ line.tag = "@@" => line.old \in Nat /\ line.new \in Nat /\ line.oldCount \in Nat /\ line.newCount \in Nat
  /\ line.tag \in NameTags /\ NonLocal(line.path) => Blamed(given)
  /\ /\ line.tag = "diff --git "
     /\ NonLocal(FirstWord(line.path)) \/ NonLocal(FirstWord(OtherWords(line.path)))
     => Blamed(given)

LEMMA TaggedIsOK ==
  ASSUME NEW given, NEW line, NEW tag \in {"other", "---", "-", "new file mode", "deleted file mode"},
         line.tag = tag
  PROVE  LineOK(given, line)
<1>1. tag \in AnyTag
  BY DEF AnyTag, BodyTags, ModeTags
<1>2. tag \notin NameTags /\ tag # "@@" /\ tag # "diff --git "
  BY DEF NameTags
<1> HIDE DEF AnyTag
<1>3. QED
  BY <1>1, <1>2 DEF LineOK

LEMMA NameIsOK ==
  ASSUME NEW given, NEW line, NEW tag \in NameTags, line.tag = tag, NonLocal(line.path) => Blamed(given)
  PROVE  LineOK(given, line)
<1>1. tag \in AnyTag
  BY DEF AnyTag
<1>2. tag # "@@" /\ tag # "diff --git "
  BY DEF NameTags
<1>3. QED
  BY <1>1, <1>2 DEF LineOK

LEMMA FieldsOfName ==
  ASSUME NEW line, NEW tag, NEW path, line = [tag |-> tag, path |-> path]
  PROVE  line.tag = tag /\ line.path = path
OBVIOUS

LEMMA HeaderIsOK ==
  ASSUME NEW given, NEW i \in DOMAIN given.files, IsChangedFile(given.files[i]),
         NEW k \in 1 .. Len(RawHeader(given.files[i]))
  PROVE  LineOK(given, RawHeader(given.files[i])[k])
<1> DEFINE file == given.files[i]
           line == RawHeader(file)[k]
           names == {file.old, file.new, OldName(file), NewName(file)}
<1>1. \/ \E tag \in {"new file mode", "deleted file mode", "other"} : line = [tag |-> tag]
      \/ \E tag \in NameTags, path \in names : line = [tag |-> tag, path |-> path]
  BY HeaderLines
<1>2. IsList(file.old) /\ IsList(file.new)
  BY DEF IsChangedFile, IsName
<1>3. /\ IsList(<<"a">> \o file.old) /\ (Suspicious(<<"a">> \o file.old) => Suspicious(file.old))
      /\ IsList(<<"b">> \o file.new) /\ (Suspicious(<<"b">> \o file.new) => Suspicious(file.new))
  BY <1>2, PrefixIsInnocent
<1>4. ASSUME NEW path \in names, NonLocal(path)
      PROVE  Blamed(given)
  <2>1. path # DevNull
    BY <1>4 DEF NonLocal
  <2>2. path \in {file.old, file.new, <<"a">> \o file.old, <<"b">> \o file.new}
    BY <2>1 DEF OldName, NewName
  <2>3. Suspicious(path)
    <3>1. IsList(path)
      BY <1>2, <1>3, <2>2
    <3>2. QED
      BY <1>4, <3>1, RefusedIsSuspicious
  <2>4. BlamedFile(file)
    BY <1>3, <2>2, <2>3 DEF BlamedFile
  <2>5. QED
    BY <2>4 DEF Blamed
<1> HIDE DEF line, names
<1>5. CASE \E tag \in {"new file mode", "deleted file mode", "other"} : line = [tag |-> tag]
  <2>1. PICK tag \in {"new file mode", "deleted file mode", "other"} : line = [tag |-> tag]
    BY <1>5
  <2>2. line.tag = tag
    BY <2>1, TagOfTagged
  <2>3. QED
    BY <2>2, TaggedIsOK DEF line
<1>6. CASE \E tag \in NameTags, path \in names : line = [tag |-> tag, path |-> path]
  <2>1. PICK tag \in NameTags, path \in names : line = [tag |-> tag, path |-> path]
    BY <1>6
  <2>2. line.tag = tag /\ line.path = path
    BY <2>1, FieldsOfName
  <2>3. NonLocal(line.path) => Blamed(given)
    BY <1>4, <2>2
  <2>4. QED
    BY <2>2, <2>3, NameIsOK DEF line
<1>7. QED
  BY <1>1, <1>5, <1>6 DEF line

LEMMA WordsAreSuspicious ==
  ASSUME NEW text, IsList(text), NonLocal(FirstWord(text)) \/ NonLocal(FirstWord(OtherWords(text)))
  PROVE  Suspicious(text)
<1>1. /\ IsList(FirstWord(text)) /\ Elements(FirstWord(text)) \subseteq Elements(text)
      /\ IsList(OtherWords(text)) /\ Elements(OtherWords(text)) \subseteq Elements(text)
  BY WordFacts
<1>2. /\ IsList(FirstWord(OtherWords(text)))
      /\ Elements(FirstWord(OtherWords(text))) \subseteq Elements(OtherWords(text))
  BY <1>1, WordFacts
<1>3. Suspicious(FirstWord(text)) \/ Suspicious(FirstWord(OtherWords(text)))
  BY <1>1, <1>2, RefusedIsSuspicious
<1>4. QED
  BY <1>1, <1>2, <1>3 DEF Suspicious

LEMMA FirstLineBlames ==
  ASSUME NEW file, IsChangedFile(file), NEW text, text = FirstLine(file).path,
         NonLocal(FirstWord(text)) \/ NonLocal(FirstWord(OtherWords(text)))
  PROVE  BlamedFile(file)
<1> DEFINE p == <<"a">> \o file.old
           q == <<"b">> \o file.new
           blank == <<Blank>>
<1>1. text = (p \o blank) \o q
  BY DEF FirstLine
<1>2. IsList(file.old) /\ IsList(file.new)
  BY DEF IsChangedFile, IsName
<1>3. /\ IsList(p) /\ (Suspicious(p) => Suspicious(file.old))
      /\ IsList(q) /\ (Suspicious(q) => Suspicious(file.new))
  BY <1>2, PrefixIsInnocent
<1>4. IsList(blank) /\ Elements(blank) = {Blank} /\ Blank \notin {Root, ".."}
  BY OneLine, NamesAreNotRoot DEF Elements
<1> HIDE DEF p, q, blank
<1>5. IsList(text) /\ Elements(text) = Elements(p) \cup {Blank} \cup Elements(q)
  <2> DEFINE u == p \o blank
  <2>1. IsList(u) /\ Elements(u) = Elements(p) \cup {Blank}
    BY <1>3, <1>4, ListConcat, ElementsOfConcat
  <2> HIDE DEF u
  <2>2. IsList(u \o q) /\ Elements(u \o q) = Elements(u) \cup Elements(q)
    BY <1>3, <2>1, ListConcat, ElementsOfConcat
  <2>3. QED
    BY <1>1, <2>1, <2>2 DEF u
<1>6. Suspicious(text)
  BY <1>5, WordsAreSuspicious
<1>7. Suspicious(p) \/ Suspicious(q)
  BY <1>4, <1>5, <1>6 DEF Suspicious
<1>8. QED
  BY <1>3, <1>7 DEF BlamedFile

LEMMA FirstLineIsOK ==
  ASSUME NEW given, NEW i \in DOMAIN given.files, IsChangedFile(given.files[i])
  PROVE  LineOK(given, FirstLine(given.files[i]))
<1> DEFINE file == given.files[i]
           line == FirstLine(file)
           text == (<<"a">> \o file.old) \o <<Blank>> \o (<<"b">> \o file.new)
           tag == "diff --git "
<1>1. line = [tag |-> tag, path |-> text]
  BY DEF FirstLine
<1>2. tag \in AnyTag /\ tag \notin NameTags /\ tag # "@@"
  BY DEF AnyTag, NameTags
<1>3. ASSUME NonLocal(FirstWord(line.path)) \/ NonLocal(FirstWord(OtherWords(line.path)))
      PROVE  Blamed(given)
  <2>1. BlamedFile(file)
    BY <1>3, FirstLineBlames
  <2>2. QED
    BY <2>1 DEF Blamed
<1> HIDE DEF line, text, tag
<1>4. line.tag = tag
  BY <1>1, FieldsOfName
<1>5. LineOK(given, line)
  BY <1>2, <1>3, <1>4 DEF LineOK
<1>6. QED
  BY <1>5 DEF line

LEMMA HunkHeaderIsOK ==
  ASSUME NEW given, NEW hunk, IsHunk(hunk)
  PROVE  LineOK(given, HunkHeader(hunk))
<1> DEFINE line == HunkHeader(hunk)
           tag == "@@"
<1>1. /\ line.tag = tag /\ line.old = hunk.old /\ line.new = hunk.new
      /\ line.oldCount = CountTo(hunk.body, Len(hunk.body), OldSide)
      /\ line.newCount = CountTo(hunk.body, Len(hunk.body), NewSide)
  BY DEF HunkHeader
<1>2. tag \in AnyTag /\ tag \notin NameTags /\ tag # "diff --git "
  BY DEF AnyTag, NameTags
<1>3. hunk.old \in Nat /\ hunk.new \in Nat
  BY DEF IsHunk
<1>4. /\ CountTo(hunk.body, Len(hunk.body), OldSide) \in Nat
      /\ CountTo(hunk.body, Len(hunk.body), NewSide) \in Nat
  <2>1. Len(hunk.body) \in Nat
    BY BodyFacts
  <2> DEFINE n == Len(hunk.body)
             body == hunk.body
  <2> HIDE DEF n, body
  <2>2. \A signs : CountTo(body, n, signs) \in Nat
    BY <2>1, CountOne DEF n
  <2>3. QED
    BY <2>2 DEF n, body
<1> HIDE DEF line, tag
<1>5. LineOK(given, line)
  BY <1>1, <1>2, <1>3, <1>4 DEF LineOK
<1>6. QED
  BY <1>5 DEF line

LEMMA BodyIsOK ==
  ASSUME NEW given, NEW i \in DOMAIN given.files, IsChangedFile(given.files[i]),
         NEW j \in DOMAIN given.files[i].hunks, NEW k \in DOMAIN given.files[i].hunks[j].body
  PROVE  LineOK(given, RawLine(given.files[i].hunks[j].body[k]))
<1> DEFINE file == given.files[i]
           hunk == file.hunks[j]
           source == hunk.body[k]
           line == RawLine(source)
           tag == RawTag(source)
<1>1. IsHunk(hunk) /\ k \in 1 .. Len(hunk.body)
  <2>1. IsHunk(hunk)
    BY DEF IsChangedFile
  <2>2. QED
    BY <2>1, BodyFacts
<1>2. IsBodyLine(source) /\ tag \in AnyTag
  BY <1>1, TagFacts
<1>3. IsList(source.rest) /\ (source.sign = "broken" => IsPiece(source))
  BY <1>2 DEF IsBodyLine
<1>4. SuspiciousLine(source) => Blamed(given)
  BY DEF BlamedFile, Blamed
<1> HIDE DEF source, file, hunk
<1>5. CASE tag = "@@"
  <2>1. source.sign = "broken" /\ source.begins = "@@"
    BY <1>2, <1>5 DEF RawTag, IsBodyLine
  <2>2. Len(source.rest) = 4 /\ Elements(source.rest) \subseteq Nat
    BY <1>3, <2>1 DEF IsPiece, BodyTags, NameTags, ModeTags
  <2>3. DOMAIN source.rest = 1 .. 4
    BY <1>3, <2>2, ListFacts
  <2>4. /\ source.rest[1] \in Nat /\ source.rest[2] \in Nat
        /\ source.rest[3] \in Nat /\ source.rest[4] \in Nat
    BY <2>2, <2>3 DEF Elements
  <2> DEFINE n1 == source.rest[1]
             n2 == source.rest[2]
             n3 == source.rest[3]
             n4 == source.rest[4]
             at == "@@"
  <2>5. line = [tag |-> at, old |-> n1, new |-> n2, oldCount |-> n3, newCount |-> n4]
    BY <1>5 DEF RawLine
  <2>6. at \notin NameTags /\ at # "diff --git " /\ at \in AnyTag
    BY DEF NameTags, AnyTag
  <2> HIDE DEF n1, n2, n3, n4, at, line
  <2>7. line.tag = at /\ line.old = n1 /\ line.new = n2 /\ line.oldCount = n3 /\ line.newCount = n4
    BY <2>5
  <2>8. LineOK(given, line)
    BY <2>4, <2>6, <2>7 DEF LineOK, n1, n2, n3, n4
  <2>9. QED
    BY <2>8 DEF line, source, file, hunk
<1>6. CASE tag # "@@"
  <2>1. line = [tag |-> tag, path |-> source.rest]
    BY <1>6 DEF RawLine
  <2> HIDE DEF line, tag
  <2>2. line.tag = tag /\ line.path = source.rest
    BY <2>1, FieldsOfName
  <2>3. ASSUME tag \in NameTags, NonLocal(source.rest)
        PROVE  Blamed(given)
    <3>1. Suspicious(source.rest)
      BY <1>3, <2>3, RefusedIsSuspicious
    <3>2. QED
      BY <1>4, <2>3, <3>1 DEF SuspiciousLine, tag
  <2>4. ASSUME tag = "diff --git ",
               NonLocal(FirstWord(source.rest)) \/ NonLocal(FirstWord(OtherWords(source.rest)))
        PROVE  Blamed(given)
    <3>1. Suspicious(source.rest)
      BY <1>3, <2>4, WordsAreSuspicious
    <3>2. QED
      BY <1>4, <2>4, <3>1 DEF SuspiciousLine, tag
  <2>5. LineOK(given, line)
    BY <1>2, <1>6, <2>2, <2>3, <2>4 DEF LineOK
  <2>6. QED
    BY <2>5 DEF line, source, file, hunk
<1>7. QED
  BY <1>5, <1>6

AllOK(given, ls) == \A line \in Elements(ls) : LineOK(given, line)

LEMMA ConcatIsOK ==
  ASSUME NEW given, NEW s, IsList(s), NEW t, IsList(t), AllOK(given, s), AllOK(given, t)
  PROVE  IsList(s \o t) /\ AllOK(given, s \o t)
<1>1. Elements(s \o t) = Elements(s) \cup Elements(t)
  BY ElementsOfConcat
<1>2. IsList(s \o t)
  BY ListConcat
<1>3. QED
  BY <1>1, <1>2 DEF AllOK

LEMMA JoinIsOK ==
  ASSUME NEW given, NEW lists, IsList(lists), \A i \in DOMAIN lists : IsList(lists[i]) /\ AllOK(given, lists[i])
  PROVE  IsList(Joined(lists)) /\ AllOK(given, Joined(lists))
<1>1. /\ IsList(Joined(lists))
      /\ Elements(Joined(lists)) = UNION {Elements(lists[i]) : i \in DOMAIN lists}
  BY JoinIsList
<1>2. QED
  BY <1>1 DEF AllOK

LEMMA OneIsOK ==
  ASSUME NEW given, NEW line, LineOK(given, line)
  PROVE  IsList(<<line>>) /\ AllOK(given, <<line>>)
<1>1. IsList(<<line>>) /\ Elements(<<line>>) = {line}
  BY OneLine DEF Elements
<1>2. QED
  BY <1>1 DEF AllOK

LEMMA HunksAreOK ==
  ASSUME NEW given, NEW i \in DOMAIN given.files, IsChangedFile(given.files[i]), NEW j \in DOMAIN given.files[i].hunks
  PROVE  LET raw == RawHunk(given.files[i].hunks[j]) IN IsList(raw) /\ AllOK(given, raw)
<1> DEFINE hunk == given.files[i].hunks[j]
           first == <<HunkHeader(hunk)>>
           body == RawBody(hunk)
<1>1. IsHunk(hunk)
  BY DEF IsChangedFile
<1>2. IsList(first) /\ AllOK(given, first)
  BY <1>1, HunkHeaderIsOK, OneIsOK
<1>3. /\ IsList(body) /\ Len(body) = Len(hunk.body) /\ DOMAIN hunk.body = 1 .. Len(hunk.body)
      /\ \A k \in 1 .. Len(hunk.body) : body[k] = RawLine(hunk.body[k])
  BY <1>1, BodyFacts
<1>4. AllOK(given, body)
  <2>1. DOMAIN body = DOMAIN hunk.body
    BY <1>3, ListFacts
  <2>2. \A k \in DOMAIN hunk.body : LineOK(given, RawLine(hunk.body[k]))
    BY BodyIsOK
  <2> HIDE DEF body
  <2>3. \A k \in DOMAIN body : LineOK(given, body[k])
    BY <1>3, <2>1, <2>2
  <2>4. QED
    BY <2>3 DEF AllOK, Elements
<1>5. RawHunk(hunk) = first \o body
  BY <1>1, HunkFacts
<1> HIDE DEF first, body
<1>6. IsList(first \o body) /\ AllOK(given, first \o body)
  BY <1>2, <1>3, <1>4, ConcatIsOK
<1>7. QED
  BY <1>5, <1>6

LEMMA FilesAreOK ==
  ASSUME NEW given, NEW i \in DOMAIN given.files, IsChangedFile(given.files[i])
  PROVE  IsList(RawFile(given.files[i])) /\ AllOK(given, RawFile(given.files[i]))
<1> DEFINE file == given.files[i]
           first == <<FirstLine(file)>>
           header == RawHeader(file)
           raw == RawHunks(file)
           hunks == Joined(raw)
<1>1. IsList(first) /\ AllOK(given, first)
  BY FirstLineIsOK, OneIsOK
<1>2. IsList(header) /\ AllOK(given, header)
  <2>1. IsList(header)
    BY HeaderFacts
  <2>2. DOMAIN header = 1 .. Len(header)
    BY <2>1, ListFacts
  <2>3. \A k \in 1 .. Len(header) : LineOK(given, header[k])
    BY HeaderIsOK
  <2>4. QED
    BY <2>1, <2>2, <2>3 DEF AllOK, Elements
<1>3. IsList(hunks) /\ AllOK(given, hunks)
  <2>1. /\ IsList(raw) /\ Len(raw) = Len(file.hunks) /\ DOMAIN file.hunks = 1 .. Len(file.hunks)
        /\ \A j \in 1 .. Len(file.hunks) : raw[j] = RawHunk(file.hunks[j])
    BY HunksFacts
  <2>2. DOMAIN raw = DOMAIN file.hunks
    BY <2>1, ListFacts
  <2>3. \A j \in DOMAIN file.hunks : LET x == RawHunk(file.hunks[j]) IN IsList(x) /\ AllOK(given, x)
    BY HunksAreOK
  <2> HIDE DEF raw
  <2>4. \A j \in DOMAIN raw : IsList(raw[j]) /\ AllOK(given, raw[j])
    BY <2>1, <2>2, <2>3
  <2>5. QED
    BY <2>1, <2>4, JoinIsOK
<1>4. RawFile(file) = first \o (header \o hunks)
  BY DEF RawFile
<1> HIDE DEF first, header, hunks
<1> DEFINE rest == header \o hunks
<1>5. IsList(rest) /\ AllOK(given, rest)
  BY <1>2, <1>3, ConcatIsOK
<1> HIDE DEF rest
<1>6. IsList(first \o rest) /\ AllOK(given, first \o rest)
  BY <1>1, <1>5, ConcatIsOK
<1>7. QED
  BY <1>4, <1>6 DEF rest

LEMMA TextIsOK == \A given : IsDiff(given) => IsList(Text(given)) /\ AllOK(given, Text(given))
<1> SUFFICES ASSUME NEW given, IsDiff(given)
             PROVE  IsList(Text(given)) /\ AllOK(given, Text(given))
  OBVIOUS
<1> DEFINE cover == Cover(given)
           raw == RawFiles(given)
           files == Joined(raw)
           end == Ending(given)
<1>1. /\ IsList(raw) /\ Len(raw) = Len(given.files) /\ DOMAIN given.files = 1 .. Len(given.files)
      /\ \A i \in 1 .. Len(given.files) :
           IsChangedFile(given.files[i]) /\ raw[i] = RawFile(given.files[i])
      /\ IsList(end)
  BY FilesFacts
<1>2. IsList(files) /\ AllOK(given, files)
  <2>1. DOMAIN raw = DOMAIN given.files
    BY <1>1, ListFacts
  <2>2. \A i \in DOMAIN given.files : IsList(RawFile(given.files[i])) /\ AllOK(given, RawFile(given.files[i]))
    BY <1>1, FilesAreOK
  <2> HIDE DEF raw
  <2>3. \A i \in DOMAIN raw : IsList(raw[i]) /\ AllOK(given, raw[i])
    BY <1>1, <2>1, <2>2
  <2>4. QED
    BY <1>1, <2>3, JoinIsOK
<1>3. IsList(cover) /\ AllOK(given, cover)
  <2>1. /\ IsList(cover)
        /\ \A k \in 1 .. Len(cover) : cover[k] \in {[tag |-> "other"], [tag |-> "---"]}
    BY CoverFacts
  <2>2. DOMAIN cover = 1 .. Len(cover)
    BY <2>1, ListFacts
  <2>3. ASSUME NEW k \in 1 .. Len(cover)
        PROVE  LineOK(given, cover[k])
    <3> DEFINE line == cover[k]
    <3>1. line = [tag |-> "other"] \/ line = [tag |-> "---"]
      BY <2>1
    <3> HIDE DEF line
    <3>2. PICK tag \in {"other", "---"} : line = [tag |-> tag]
      BY <3>1
    <3>3. line.tag = tag
      BY <3>2, TagOfTagged
    <3>4. LineOK(given, line)
      BY <3>3, TaggedIsOK
    <3>5. QED
      BY <3>4 DEF line
  <2>4. QED
    BY <2>1, <2>2, <2>3 DEF AllOK, Elements
<1>4. AllOK(given, end)
  <2>1. CASE given.signature
    <3> DEFINE line == [tag |-> "-"]
    <3>1. line.tag = "-"
      OBVIOUS
    <3>2. end = <<line>>
      BY <2>1 DEF Ending, Tagged
    <3> HIDE DEF line, end
    <3>3. LineOK(given, line)
      BY <3>1, TaggedIsOK
    <3>4. QED
      BY <3>2, <3>3, OneIsOK
  <2>2. CASE ~given.signature
    <3>1. end = <<>>
      BY <2>2 DEF Ending
    <3>2. Elements(<<>>) = {}
      BY DEF Elements
    <3>3. QED
      BY <3>1, <3>2 DEF AllOK
  <2>3. QED
    BY <2>1, <2>2
<1>5. Text(given) = cover \o (files \o end)
  BY DEF Text, Cover, Ending
<1> HIDE DEF cover, files, end
<1> DEFINE rest == files \o end
<1>6. IsList(rest) /\ AllOK(given, rest)
  BY <1>1, <1>2, <1>4, ConcatIsOK
<1> HIDE DEF rest
<1>7. IsList(cover \o rest) /\ AllOK(given, cover \o rest)
  BY <1>3, <1>6, ConcatIsOK
<1>8. QED
  BY <1>5, <1>7 DEF rest

--------------------------------------------------------------------------------
(* The records are of their types, whatever the lines look like.           *)

LocalNames(rec) == ~Outside(rec.old) /\ ~Outside(rec.new)

RecordOK(rec) ==
  /\ FileShape(rec) /\ LocalNames(rec) /\ IsList(rec.hunks)
  /\ \A j \in DOMAIN rec.hunks : IsHunkRecord(rec.hunks[j])

Typed(list) == IsList(list) /\ \A k \in DOMAIN list : RecordOK(list[k])

(* The names of the current record stay in the repository. *)
LEMMA NewNamesAreLocal ==
  ASSUME NEW rec, FileShape(rec), LocalNames(rec), NEW path, ~NonLocal(path)
  PROVE  /\ FileShape(WithOld(rec, path)) /\ LocalNames(WithOld(rec, path))
         /\ FileShape(WithNew(rec, path)) /\ LocalNames(WithNew(rec, path))
<1> DEFINE y == WithOld(rec, path)
           z == WithNew(rec, path)
<1>1. ~Outside(NormalizedPath(path))
  BY AcceptedIsInside
<1>h. PICK hint : hint = rec.hint
  OBVIOUS
<1>2. FileShape(y) /\ y.old = NormalizedPath(path) /\ y.new = rec.new
  BY ShapeFacts
<1>3. FileShape(z) /\ z.old = rec.old /\ z.new = NormalizedPath(path)
  BY ShapeFacts
<1> HIDE DEF y, z
<1>4. QED
  BY <1>1, <1>2, <1>3 DEF LocalNames, y, z

LEMMA HintIsNoName ==
  ASSUME NEW rec, FileShape(rec), LocalNames(rec), NEW hint
  PROVE  LocalNames(WithHint(rec, hint))
<1> DEFINE y == WithHint(rec, hint)
<1>p. PICK path : path = rec.old
  OBVIOUS
<1>1. y.old = rec.old /\ y.new = rec.new
  BY ShapeFacts
<1> HIDE DEF y
<1>2. QED
  BY <1>1 DEF LocalNames, y

LEMMA NamesStayLocal ==
  ASSUME NEW rec, FileShape(rec), LocalNames(rec), NEW line,
         line.tag \in {"rename from ", "rename to ", "--- ", "+++ "} => ~NonLocal(line.path)
  PROVE  LocalNames(AfterLine(rec, line))
<1> DEFINE path == line.path
<1>1. \A r1, hint : FileShape(r1) /\ LocalNames(r1) => LocalNames(WithHint(r1, hint))
  BY HintIsNoName
<1>2. ~NonLocal(path) => /\ FileShape(WithOld(rec, path)) /\ LocalNames(WithOld(rec, path))
                         /\ FileShape(WithNew(rec, path)) /\ LocalNames(WithNew(rec, path))
  BY NewNamesAreLocal
<1>3. CASE line.tag = "new file mode"
  BY <1>1, <1>3 DEF AfterLine
<1>4. CASE line.tag = "deleted file mode"
  BY <1>1, <1>4 DEF AfterLine
<1>5. CASE line.tag = "rename from "
  BY <1>1, <1>2, <1>5 DEF AfterLine
<1>6. CASE line.tag = "rename to "
  BY <1>1, <1>2, <1>6 DEF AfterLine
<1>7. CASE line.tag = "--- "
  BY <1>2, <1>7 DEF AfterLine
<1>8. CASE line.tag = "+++ "
  BY <1>2, <1>8 DEF AfterLine
<1>9. CASE line.tag \notin {"new file mode", "deleted file mode", "rename from ", "rename to ", "--- ", "+++ "}
  <2>1. AfterLine(rec, line) = rec
    BY <1>9 DEF AfterLine
  <2>2. QED
    BY <2>1
<1>10. QED
  BY <1>3, <1>4, <1>5, <1>6, <1>7, <1>8, <1>9

(* The record of the first line of a file is local if it is accepted. *)
LEMMA FirstNamesAreLocal ==
  ASSUME StartFile
  PROVE  LocalNames(NewFileRecord(Line))
<1> DEFINE rec == NewFileRecord(Line)
<1>1. ~NonLocal(OldWord) /\ ~NonLocal(NewWord)
  BY DEF StartFile
<1>2. ~Outside(NormalizedPath(OldWord)) /\ ~Outside(NormalizedPath(NewWord))
  BY <1>1, AcceptedIsInside
<1>3. rec.old = NormalizedPath(OldWord) /\ rec.new = NormalizedPath(NewWord)
  BY DEF NewFileRecord, OldWord, NewWord
<1>4. QED
  BY <1>2, <1>3 DEF LocalNames

(* The names that are taken from a line are local. *)
LEMMA AcceptedNames ==
  ASSUME parsing = "reading", lines # <<>>, ParserNext, ~Refuse, parsed # <<>>
  PROVE  Line.tag \in {"rename from ", "rename to ", "--- ", "+++ "} => ~NonLocal(Line.path)
<1>1. InsideFile
  BY DEF InsideFile
<1>2. CASE Line.tag \in {"rename from ", "rename to "}
  <2>1. RenameLine
    BY <1>1, <1>2, TagDecides
  <2>2. QED
    BY <2>1 DEF RenameLine
<1>3. CASE Line.tag \in {"--- ", "+++ "}
  <2>1. NameLine
    BY <1>1, <1>3, TagDecides
  <2>2. QED
    BY <2>1 DEF NameLine
<1>4. QED
  BY <1>2, <1>3

LEMMA HunksAreNoNames ==
  ASSUME NEW rec, FileShape(rec), LocalNames(rec), NEW list
  PROVE  LocalNames(WithHunks(rec, list))
<1> DEFINE y == WithHunks(rec, list)
<1>1. y.old = rec.old /\ y.new = rec.new
  BY HunksReplaced
<1> HIDE DEF y
<1>2. QED
  BY <1>1 DEF LocalNames, y

LEMMA HunkReplacedOK ==
  ASSUME NEW rec, RecordOK(rec), Len(rec.hunks) > 0, NEW x, IsHunkRecord(x)
  PROVE  RecordOK(LastHunkWith(rec, x))
<1> DEFINE n == Len(rec.hunks)
           list == [rec.hunks EXCEPT ![n] = x]
           y == WithHunks(rec, list)
<1>1. FileShape(rec) /\ LocalNames(rec) /\ IsList(rec.hunks) /\ \A j \in DOMAIN rec.hunks : IsHunkRecord(rec.hunks[j])
  BY DEF RecordOK
<1>2. rec.hunks # <<>>
  <2>1. Len(<<>>) = 0
    OBVIOUS
  <2>2. QED
    BY <2>1
<1>3. /\ IsList(list) /\ n \in Nat /\ DOMAIN rec.hunks = 1 .. n /\ DOMAIN list = 1 .. n /\ list[n] = x
      /\ \A k \in 1 .. n - 1 : list[k] = rec.hunks[k]
  BY <1>1, <1>2, ReplaceLast
<1> HIDE DEF list, n
<1>4. \A j \in DOMAIN list : IsHunkRecord(list[j])
  <2>1. \A k \in 1 .. n : k \in 1 .. n - 1 \/ k = n
    BY <1>3
  <2>2. \A k \in 1 .. n - 1 : k \in 1 .. n
    BY <1>3
  <2>3. QED
    BY <1>1, <1>3, <2>1, <2>2
<1>5. FileShape(y) /\ y.hunks = list
  BY <1>1, HunksReplaced
<1>6. LocalNames(y)
  BY <1>1, HunksAreNoNames
<1> HIDE DEF y
<1>7. RecordOK(y)
  BY <1>3, <1>4, <1>5, <1>6 DEF RecordOK
<1>8. QED
  BY <1>7 DEF y, list, n, LastHunkWith

LEMMA HunkAppendedOK ==
  ASSUME NEW rec, RecordOK(rec), NEW x, IsHunkRecord(x)
  PROVE  RecordOK(WithHunks(rec, Append(rec.hunks, x)))
<1> DEFINE n == Len(rec.hunks)
           list == Append(rec.hunks, x)
           y == WithHunks(rec, list)
<1>1. FileShape(rec) /\ LocalNames(rec) /\ IsList(rec.hunks) /\ \A j \in DOMAIN rec.hunks : IsHunkRecord(rec.hunks[j])
  BY DEF RecordOK
<1>2. /\ IsList(list) /\ n \in Nat /\ DOMAIN rec.hunks = 1 .. n /\ DOMAIN list = 1 .. n + 1 /\ list[n + 1] = x
      /\ \A k \in 1 .. n : list[k] = rec.hunks[k]
  BY <1>1, ListAppend
<1> HIDE DEF list, n
<1>3. \A j \in DOMAIN list : IsHunkRecord(list[j])
  <2>1. \A k \in 1 .. n + 1 : k \in 1 .. n \/ k = n + 1
    BY <1>2
  <2>2. QED
    BY <1>1, <1>2, <2>1
<1>4. FileShape(y) /\ y.hunks = list
  BY <1>1, HunksReplaced
<1>5. LocalNames(y)
  BY <1>1, HunksAreNoNames
<1> HIDE DEF y
<1>6. RecordOK(y)
  BY <1>2, <1>3, <1>4, <1>5 DEF RecordOK
<1>7. QED
  BY <1>6 DEF y, list

LEMMA NewHunkOK ==
  ASSUME NEW line, line.old \in Nat, line.new \in Nat, line.oldCount \in Nat, line.newCount \in Nat
  PROVE  IsHunkRecord(NewHunkRecord(line))
<1> DEFINE x == NewHunkRecord(line)
           none == <<>>
<1>1. x = [old |-> line.old, new |-> line.new, oldCount |-> line.oldCount, newCount |-> line.newCount,
           added |-> none, removed |-> none]
  BY DEF NewHunkRecord
<1>2. IsList(none) /\ DOMAIN none = {}
  BY EmptyList
<1> HIDE DEF x, none
<1>3. /\ x.old = line.old /\ x.new = line.new /\ x.oldCount = line.oldCount /\ x.newCount = line.newCount
      /\ x.added = none /\ x.removed = none
  BY <1>1
<1>4. x = [old |-> x.old, new |-> x.new, oldCount |-> x.oldCount, newCount |-> x.newCount,
           added |-> x.added, removed |-> x.removed]
  BY <1>1, <1>3, Zenon
<1>5. IsHunkRecord(x)
  BY <1>2, <1>3, <1>4 DEF IsHunkRecord
<1>6. QED
  BY <1>5 DEF x

LEMMA LastIsTyped ==
  ASSUME NEW list, Typed(list), list # <<>>
  PROVE  /\ IsList(list) /\ RecordOK(list[Len(list)])
         /\ \A rec : RecordOK(rec) => Typed(WithLast(list, rec))
<1>1. IsList(list) /\ \A k \in DOMAIN list : RecordOK(list[k])
  BY DEF Typed
<1>2. RecordOK(list[Len(list)])
  <2>1. Len(list) \in DOMAIN list
    <3>1. PICK rec : rec = list[1]
      OBVIOUS
    <3>2. QED
      BY <1>1, ReplaceLast
  <2>2. QED
    BY <1>1, <2>1
<1>3. ASSUME NEW rec, RecordOK(rec)
      PROVE  Typed(WithLast(list, rec))
  <2> DEFINE t == WithLast(list, rec)
             n == Len(list)
  <2>1. /\ IsList(t) /\ n \in Nat /\ DOMAIN list = 1 .. n /\ DOMAIN t = 1 .. n
        /\ t[n] = rec /\ \A i \in 1 .. n - 1 : t[i] = list[i]
    BY <1>1, ReplaceLast DEF WithLast
  <2> HIDE DEF t, n
  <2>2. \A i \in 1 .. n : i \in 1 .. n - 1 \/ i = n
    BY <2>1
  <2>3. \A i \in 1 .. n - 1 : i \in 1 .. n
    BY <2>1
  <2>4. Typed(t)
    BY <1>1, <1>3, <2>1, <2>2, <2>3 DEF Typed
  <2>5. QED
    BY <2>4 DEF t
<1>4. QED
  BY <1>1, <1>2, <1>3

LEMMA FirstIsTyped ==
  ASSUME StartFile, Typed(parsed)
  PROVE  Typed(Append(parsed, NewFileRecord(Line)))
<1> DEFINE rec == NewFileRecord(Line)
           n == Len(parsed)
           t == Append(parsed, rec)
           none == <<>>
<1>1. LocalNames(rec)
  BY FirstNamesAreLocal
<1>2. FileShape(rec) /\ rec.hunks = none
  BY DEF NewFileRecord, FileShape
<1>3. IsList(none) /\ DOMAIN none = {}
  BY EmptyList
<1> HIDE DEF rec, none
<1>4. RecordOK(rec)
  BY <1>1, <1>2, <1>3 DEF RecordOK
<1>5. IsList(parsed) /\ \A k \in DOMAIN parsed : RecordOK(parsed[k])
  BY DEF Typed
<1>6. /\ IsList(t) /\ n \in Nat /\ DOMAIN parsed = 1 .. n /\ DOMAIN t = 1 .. n + 1 /\ t[n + 1] = rec
      /\ \A k \in 1 .. n : t[k] = parsed[k]
  BY <1>5, ListAppend
<1> HIDE DEF t, n
<1>7. \A k \in 1 .. n + 1 : k \in 1 .. n \/ k = n + 1
  BY <1>6
<1>8. Typed(t)
  BY <1>4, <1>5, <1>6, <1>7 DEF Typed
<1>9. QED
  BY <1>8 DEF t, rec

LEMMA RestIsOK ==
  ASSUME NEW given, NEW ls, IsList(ls), ls # <<>>, AllOK(given, ls)
  PROVE  IsList(Tail(ls)) /\ AllOK(given, Tail(ls)) /\ LineOK(given, ls[1])
<1> DEFINE n == Len(ls)
<1>1. n \in Nat /\ n > 0 /\ DOMAIN ls = 1 .. n
  <2>1. PICK x : x = ls[1]
    OBVIOUS
  <2>2. QED
    BY ReplaceLast
<1>2. 1 \in 1 .. n + 1 /\ 2 \in 1 .. n + 1 /\ 1 <= n /\ 1 + 1 = 2
  BY <1>1
<1>3. Rest(ls, 1) = ls /\ Tail(Rest(ls, 1)) = Rest(ls, 1 + 1)
  BY <1>2, RestFacts
<1>4. /\ IsList(Rest(ls, 2)) /\ DOMAIN Rest(ls, 2) = 1 .. n - 2 + 1
      /\ \A k \in 1 .. n - 2 + 1 : Rest(ls, 2)[k] = ls[2 + k - 1]
  BY <1>2, RestFacts
<1>5. Tail(ls) = Rest(ls, 2)
  BY <1>2, <1>3
<1>6. \A k \in 1 .. n - 2 + 1 : 2 + k - 1 \in DOMAIN ls
  BY <1>1
<1> HIDE DEF n
<1>7. Elements(Rest(ls, 2)) \subseteq Elements(ls)
  BY <1>4, <1>6 DEF Elements
<1>8. ls[1] \in Elements(ls)
  BY <1>1 DEF Elements
<1>9. QED
  BY <1>4, <1>5, <1>7, <1>8 DEF AllOK

(* One step that reads a line. *)
LEMMA StepIsTyped ==
  ASSUME parsing = "reading", lines # <<>>, ParserNext, ~Refuse, IsList(lines), AllOK(diff, lines),
         Typed(parsed), newLine \in Nat
  PROVE  Typed(parsed') /\ newLine' \in Nat
<1> DEFINE tag == Line.tag
           rec == parsed[Len(parsed)]
<1>1. /\ tag \in AnyTag
      /\ tag = "@@" => /\ Line.old \in Nat /\ Line.new \in Nat
                       /\ Line.oldCount \in Nat /\ Line.newCount \in Nat
  BY RestIsOK DEF LineOK, Line
<1>2. CASE tag = "diff --git "
  <2>1. StartFile
    BY <1>2, TagDecides
  <2>2. parsed' = Append(parsed, NewFileRecord(Line)) /\ newLine' = newLine
    BY <2>1, Zenon DEF StartFile, NewFileRecord, OldWord, NewWord
  <2>3. QED
    BY <2>1, <2>2, FirstIsTyped
<1>3. CASE tag # "diff --git " /\ parsed = <<>>
  <2>1. Ignore
    BY <1>3, TagDecides DEF InsideFile
  <2>2. QED
    BY <2>1 DEF Ignore
<1>4. CASE tag # "diff --git " /\ parsed # <<>>
  <2>1. IsList(parsed) /\ RecordOK(rec) /\ \A x : RecordOK(x) => Typed(WithLast(parsed, x))
    BY <1>4, LastIsTyped
  <2>2. /\ FileShape(rec) /\ LocalNames(rec) /\ IsList(rec.hunks)
        /\ \A j \in DOMAIN rec.hunks : IsHunkRecord(rec.hunks[j])
    BY <2>1 DEF RecordOK
  <2>3. Len(rec.hunks) \in Nat
    BY <2>2, ListFacts
  <2>4. Len(rec.hunks) > 0 => IsHunkRecord(LastOf(rec))
    <3>1. DOMAIN rec.hunks = 1 .. Len(rec.hunks)
      BY <2>2, ListFacts
    <3>2. QED
      BY <2>2, <2>3, <3>1 DEF LastOf
  <2>5. CASE tag \in NameTags \cup ModeTags
    <3> DEFINE y == AfterLine(rec, Line)
    <3>1. tag \in {"new file mode", "deleted file mode", "rename from ", "rename to ", "--- ", "+++ "}
      BY <2>5 DEF NameTags, ModeTags
    <3>2. parsed' = WithLast(parsed, y) /\ newLine' = newLine
      BY <1>4, <2>1, <2>2, <3>1, LineIsRead
    <3>3. FileShape(y) /\ y.hunks = rec.hunks
      BY <2>2, AfterLineKeeps
    <3>4. tag \in {"rename from ", "rename to ", "--- ", "+++ "} => ~NonLocal(Line.path)
      BY <1>4, AcceptedNames
    <3>5. LocalNames(y)
      BY <2>2, <3>4, NamesStayLocal
    <3> HIDE DEF y
    <3>6. RecordOK(y)
      BY <2>2, <3>3, <3>5 DEF RecordOK
    <3>7. QED
      BY <2>1, <3>2, <3>6
  <2>6. CASE tag \in {"---", "+++", "no newline", "other"}
    <3>1. parsed' = WithLast(parsed, rec) /\ newLine' = newLine
      BY <1>4, <2>1, <2>2, <2>6, LineIsRead
    <3>2. QED
      BY <2>1, <3>1
  <2>7. CASE tag = "@@"
    <3> DEFINE x == NewHunkRecord(Line)
    <3>1. parsed' = WithLast(parsed, WithHunks(rec, Append(rec.hunks, x))) /\ newLine' = Line.new
      BY <1>4, <2>1, <2>2, <2>7, LineIsRead
    <3>2. IsHunkRecord(x)
      BY <1>1, <2>7, NewHunkOK
    <3> HIDE DEF x
    <3>3. RecordOK(WithHunks(rec, Append(rec.hunks, x)))
      BY <2>1, <3>2, HunkAppendedOK
    <3>4. QED
      BY <1>1, <2>1, <2>7, <3>1, <3>3
  <2>8. CASE tag \in {"+", "-", " "} /\ ~(Len(rec.hunks) > 0)
    <3>1. parsed' = WithLast(parsed, rec) /\ newLine' = newLine
      BY <1>4, <2>1, <2>2, <2>8, LineIsRead
    <3>2. QED
      BY <2>1, <3>1
  <2>9. CASE tag = "+" /\ Len(rec.hunks) > 0
    <3>1. parsed' = WithLast(parsed, Adds(rec, newLine)) /\ newLine' = newLine + 1
      BY <1>4, <2>1, <2>2, <2>9, LineIsRead
    <3> DEFINE x == [LastOf(rec) EXCEPT !.added = Append(@, newLine)]
    <3>2. IsHunkRecord(x)
      BY <2>4, <2>9, AddedIsRecorded
    <3> HIDE DEF x
    <3>3. RecordOK(LastHunkWith(rec, x))
      BY <2>1, <2>9, <3>2, HunkReplacedOK
    <3>4. QED
      BY <2>1, <3>1, <3>3 DEF Adds, x
  <2>10. CASE tag = "-" /\ Len(rec.hunks) > 0
    <3>1. parsed' = WithLast(parsed, Removes(rec, oldLine)) /\ newLine' = newLine
      BY <1>4, <2>1, <2>2, <2>10, LineIsRead
    <3> DEFINE x == [LastOf(rec) EXCEPT !.removed = Append(@, oldLine)]
    <3>2. IsHunkRecord(x)
      BY <2>4, <2>10, RemovedIsRecorded
    <3> HIDE DEF x
    <3>3. RecordOK(LastHunkWith(rec, x))
      BY <2>1, <2>10, <3>2, HunkReplacedOK
    <3>4. QED
      BY <2>1, <3>1, <3>3 DEF Removes, x
  <2>11. CASE tag = " " /\ Len(rec.hunks) > 0
    <3>1. parsed' = WithLast(parsed, rec) /\ newLine' = newLine + 1
      BY <1>4, <2>1, <2>2, <2>11, LineIsRead
    <3>2. QED
      BY <2>1, <3>1
  <2>12. tag \in (NameTags \cup ModeTags) \cup {"---", "+++", "no newline", "other"} \cup {"@@"}
               \cup {"+", "-", " "}
    BY <1>1, <1>4 DEF AnyTag, BodyTags
  <2>13. QED
    BY <2>5, <2>6, <2>7, <2>8, <2>9, <2>10, <2>11, <2>12
<1>5. QED
  BY <1>2, <1>3, <1>4

(* A line that is refused is to blame. *)
LEMMA RefusalBlames ==
  ASSUME Refuse, IsList(lines), AllOK(diff, lines)
  PROVE  Blamed(diff)
<1>1. lines # <<>>
  BY DEF Refuse
<1>2. LineOK(diff, Line)
  BY <1>1, RestIsOK DEF Line
<1>3. \/ Line.tag = "diff --git " /\ (NonLocal(OldWord) \/ NonLocal(NewWord))
      \/ Line.tag \in NameTags /\ NonLocal(Line.path)
  BY DEF Refuse
<1>4. QED
  BY <1>2, <1>3 DEF LineOK, OldWord, NewWord

--------------------------------------------------------------------------------
(* The invariant.                                                          *)

ParserIInv ==
  /\ diff \in Diffs
  /\ parsing \in {"reading", "refused", "done"}
  /\ IsList(lines) /\ AllOK(diff, lines)
  /\ Typed(parsed) /\ newLine \in Nat
  /\ ~Forged(diff) => Place(diff, lines, parsed, oldLine, newLine)
  /\ parsing = "done" => lines = <<>>
  /\ parsing = "refused" => Blamed(diff)

LEMMA ParserInitInv == ParserInit => ParserIInv
<1> SUFFICES ASSUME ParserInit PROVE ParserIInv
  OBVIOUS
<1>1. diff \in Diffs /\ lines = Text(diff) /\ parsing = "reading" /\ parsed = <<>> /\ newLine = 0
  BY DEF ParserInit
<1>2. IsDiff(diff)
  BY <1>1, DiffsAssumption
<1>3. InCover(diff, lines)
  BY <1>1, <1>2, TextIsRead
<1>4. Place(diff, lines, parsed, oldLine, newLine)
  BY <1>1, <1>3 DEF Place
<1>5. Typed(parsed)
  <2>1. DOMAIN <<>> = {}
    OBVIOUS
  <2>2. QED
    BY <1>1, <2>1, EmptyList DEF Typed
<1>6. IsList(lines) /\ AllOK(diff, lines)
  BY <1>1, <1>2, TextIsOK
<1>7. QED
  BY <1>1, <1>4, <1>5, <1>6 DEF ParserIInv

LEMMA ParserStepInv ==
  ASSUME ParserIInv, ParserNext
  PROVE  ParserIInv'
<1>1. /\ diff \in Diffs /\ parsing \in {"reading", "refused", "done"}
      /\ IsList(lines) /\ AllOK(diff, lines) /\ Typed(parsed) /\ newLine \in Nat
      /\ ~Forged(diff) => Place(diff, lines, parsed, oldLine, newLine)
      /\ parsing = "refused" => Blamed(diff)
  BY DEF ParserIInv
<1>2. IsDiff(diff) /\ IsList(parsed)
  BY <1>1, DiffsAssumption DEF Typed
<1>3. ASSUME diff' = diff, lines' = lines, parsed' = parsed, oldLine' = oldLine, newLine' = newLine
      PROVE  /\ diff' \in Diffs /\ IsList(lines') /\ AllOK(diff, lines)' /\ Typed(parsed') /\ newLine' \in Nat
             /\ ~Forged(diff') => Place(diff, lines, parsed, oldLine, newLine)'
  BY <1>1, <1>3
<1>4. CASE Refuse
  <2>1. parsing' = "refused" /\ diff' = diff /\ lines' = lines /\ parsed' = parsed
        /\ oldLine' = oldLine /\ newLine' = newLine
    BY <1>4 DEF Refuse
  <2>2. Blamed(diff)
    BY <1>1, <1>4, RefusalBlames
  <2>3. Blamed(diff')
    BY <2>1, <2>2
  <2>4. QED
    BY <1>3, <2>1, <2>3 DEF ParserIInv
<1>5. CASE Finish
  <2>1. parsing' = "done" /\ lines = <<>> /\ diff' = diff /\ lines' = lines /\ parsed' = parsed
        /\ oldLine' = oldLine /\ newLine' = newLine
    BY <1>5 DEF Finish
  <2>2. QED
    BY <1>3, <2>1 DEF ParserIInv
<1>6. CASE ~Refuse /\ ~Finish
  <2>1. \E tags : Reads(tags)
    BY <1>6 DEF ParserNext, StartFile, FileMode, RenameLine, NameLine, HunkLine,
                AddedLine, RemovedLine, ContextLine, Ignore
  <2>2. parsing = "reading" /\ lines # <<>> /\ lines' = Tail(lines) /\ diff' = diff /\ parsing' = parsing
    BY <2>1 DEF Reads
  <2>3. IsList(lines') /\ AllOK(diff', lines')
    BY <1>1, <2>2, RestIsOK
  <2>4. Typed(parsed') /\ newLine' \in Nat
    BY <1>1, <1>6, <2>2, StepIsTyped
  <2>5. ASSUME ~Forged(diff)
        PROVE  Place(diff, lines', parsed', oldLine', newLine')
    <3>1. CASE parsed = <<>> /\ InCover(diff, lines)
      BY <1>2, <1>6, <2>2, <3>1, StepInCover
    <3>2. CASE AmidFile(diff, lines, parsed, oldLine, newLine)
      BY <1>2, <1>6, <2>2, <2>5, <3>2, StepInFile
    <3>3. CASE AllRead(diff, lines, parsed)
      BY <2>2, <3>3 DEF AllRead
    <3>4. QED
      BY <1>1, <2>5, <3>1, <3>2, <3>3 DEF Place
  <2>6. ~Forged(diff') => Place(diff, lines, parsed, oldLine, newLine)'
    BY <2>2, <2>5
  <2>7. QED
    BY <1>1, <2>2, <2>3, <2>4, <2>6 DEF ParserIInv
<1>7. QED
  BY <1>4, <1>5, <1>6

LEMMA ParserStutterInv ==
  ASSUME ParserIInv, UNCHANGED parserVars
  PROVE  ParserIInv'
<1>1. diff' = diff /\ lines' = lines /\ parsing' = parsing /\ parsed' = parsed
      /\ oldLine' = oldLine /\ newLine' = newLine
  BY DEF parserVars
<1>2. QED
  BY <1>1 DEF ParserIInv

LEMMA ParserInvariance == ParserSpec => []ParserIInv
<1>1. ParserIInv /\ [ParserNext]_parserVars => ParserIInv'
  BY ParserStepInv, ParserStutterInv
<1>2. QED
  BY <1>1, ParserInitInv, PTL DEF ParserSpec

(* What is known of the records at the end. *)
LEMMA DoneFacts ==
  ASSUME ParserIInv, parsing = "done", ~Forged(diff)
  PROVE  /\ Len(parsed) = Len(diff.files) /\ DOMAIN parsed = 1 .. Len(parsed)
         /\ \A i \in DOMAIN parsed : Finished(diff, parsed[i], i)
         /\ IsDiff(diff)
<1>1. diff \in Diffs /\ IsList(parsed) /\ Place(diff, <<>>, parsed, oldLine, newLine)
  BY DEF ParserIInv, Typed
<1>2. IsDiff(diff)
  BY <1>1, DiffsAssumption
<1>3. Len(parsed) = Len(diff.files) /\ AllFinished(diff, parsed, Len(parsed))
  BY <1>1, <1>2, NothingIsLeft
<1>4. DOMAIN parsed = 1 .. Len(parsed)
  BY <1>1, ListFacts
<1>5. QED
  BY <1>2, <1>3, <1>4 DEF AllFinished

(* Lines that look like headers, and pieces of broken lines that do not    *)
(* begin a file or a hunk, do no harm outside their own hunk: when         *)
(* parse_unified_diff ends, every plain hunk has its place and exactly its *)
(* lines, whatever the other hunks and files of the diff look like.        *)
THEOREM PlainHunksAreExactAlways == ParserSpec => []PlainHunksAreExact
<1>1. ParserIInv => PlainHunksAreExact
  <2> SUFFICES ASSUME ParserIInv, parsing = "done", ~Forged(diff)
               PROVE  /\ Len(parsed) = Len(diff.files)
                      /\ \A i \in DOMAIN parsed :
                           /\ Len(parsed[i].hunks) = Len(diff.files[i].hunks)
                           /\ \A j \in DOMAIN parsed[i].hunks :
                                PlainHunk(diff.files[i].hunks[j]) /\ ~(diff.signature /\ LastHunk(i, j))
                                  => Exact(parsed[i].hunks[j], diff.files[i].hunks[j])
    BY DEF PlainHunksAreExact
  <2>1. /\ Len(parsed) = Len(diff.files)
        /\ \A i \in DOMAIN parsed : Finished(diff, parsed[i], i)
    BY DoneFacts
  <2>2. ASSUME NEW i \in DOMAIN parsed
        PROVE  /\ Len(parsed[i].hunks) = Len(diff.files[i].hunks)
               /\ \A j \in DOMAIN parsed[i].hunks :
                    PlainHunk(diff.files[i].hunks[j]) /\ ~(diff.signature /\ LastHunk(i, j))
                      => Exact(parsed[i].hunks[j], diff.files[i].hunks[j])
    <3> DEFINE rec == parsed[i]
               file == diff.files[i]
    <3>1. Finished(diff, rec, i)
      BY <2>1
    <3>2. /\ IsList(rec.hunks) /\ Len(rec.hunks) = Len(file.hunks)
          /\ \A j \in 1 .. Len(file.hunks) :
               PlainHunk(file.hunks[j]) /\ ~Exempt(diff, i, j) => Exact(rec.hunks[j], file.hunks[j])
      BY <3>1 DEF Finished
    <3>3. DOMAIN rec.hunks = 1 .. Len(file.hunks)
      BY <3>2, ListFacts
    <3>4. \A j : Exempt(diff, i, j) <=> diff.signature /\ LastHunk(i, j)
      <4>1. diff.signature \in BOOLEAN
        BY DoneFacts DEF IsDiff
      <4>2. QED
        BY <4>1 DEF Exempt, LastHunk
    <3>5. QED
      BY <3>2, <3>3, <3>4
  <2>3. QED
    BY <2>1, <2>2
<1>2. QED
  BY <1>1, ParserInvariance, PTL

(* A file whose hunks are plain has the change and the names git gave it,  *)
(* whichever of the lines of its header parse_unified_diff takes them from,*)
(* but for the first directory of a name that is known from a "rename"     *)
(* line only and looks like git's prefix.                                  *)
THEOREM FilesAreExactAlways == ParserSpec => []FilesAreExact
<1>1. ParserIInv => FilesAreExact
  <2> SUFFICES ASSUME ParserIInv, parsing = "done", ~Forged(diff), NEW i \in DOMAIN parsed,
                      \A j \in DOMAIN diff.files[i].hunks : PlainHunk(diff.files[i].hunks[j]),
                      Named(diff.files[i])
               PROVE  LET file == diff.files[i] IN
                      IsRecordOf(parsed[i], file.change, Recorded(file, file.old), Recorded(file, file.new))
    BY DEF FilesAreExact
  <2> DEFINE file == diff.files[i]
  <2>1. Finished(diff, parsed[i], i) /\ i \in DOMAIN diff.files /\ IsDiff(diff)
    <3>1. /\ Len(parsed) = Len(diff.files) /\ DOMAIN parsed = 1 .. Len(parsed)
          /\ Finished(diff, parsed[i], i) /\ IsDiff(diff)
      BY DoneFacts
    <3>2. DOMAIN diff.files = 1 .. Len(diff.files)
      BY <3>1, FilesFacts
    <3>3. QED
      BY <3>1, <3>2
  <2>2. DOMAIN file.hunks = 1 .. Len(file.hunks)
    <3>1. IsChangedFile(file)
      BY <2>1 DEF IsDiff
    <3>2. QED
      BY <3>1, HunksFacts
  <2>3. PlainUpTo(file, Len(file.hunks))
    BY <2>2 DEF PlainUpTo
  <2>4. HeaderDone(parsed[i], file)
    BY <2>1, <2>3 DEF Finished
  <2>5. QED
    BY <2>4 DEF HeaderDone
<1>2. QED
  BY <1>1, ParserInvariance, PTL

(* A diff is refused only for a name, or a line that looks as if it named  *)
(* a file, that leads out of the repository, and no accepted name does.    *)
THEOREM OnlyLocalPathsAlways == ParserSpec => []OnlyLocalPaths
<1>1. ParserIInv => OnlyLocalPaths
  <2> SUFFICES ASSUME ParserIInv
               PROVE  OnlyLocalPaths
    OBVIOUS
  <2>1. \A i \in DOMAIN parsed : ~Outside(parsed[i].old) /\ ~Outside(parsed[i].new)
    BY DEF ParserIInv, Typed, RecordOK, LocalNames
  <2>2. parsing = "refused" => Blamed(diff)
    BY DEF ParserIInv
  <2>3. QED
    BY <2>1, <2>2 DEF OnlyLocalPaths, Blamed, BlamedFile
<1>2. QED
  BY <1>1, ParserInvariance, PTL

(* At every moment the lines a hunk is said to add are different and lie   *)
(* in the range of its header, or as many lines behind it as there are     *)
(* pieces of broken lines in the hunk.                                     *)
THEOREM AddedLinesStayInHunkAlways == ParserSpec => []AddedLinesStayInHunk
<1>1. ParserIInv => AddedLinesStayInHunk
  <2> SUFFICES ASSUME ParserIInv, ~Forged(diff), NEW i \in DOMAIN parsed, NEW j \in DOMAIN parsed[i].hunks
               PROVE  LET added == parsed[i].hunks[j].added
                          hunk == diff.files[i].hunks[j]
                          last == hunk.new + CountTo(hunk.body, Len(hunk.body), NewSide \cup {"broken"}) - 1
                      IN Elements(added) \subseteq hunk.new .. last /\ IsInjective(added)
    BY DEF AddedLinesStayInHunk
  <2> DEFINE n == Len(parsed)
             rec == parsed[i]
             file == diff.files[i]
  <2>1. /\ IsList(parsed) /\ Place(diff, lines, parsed, oldLine, newLine) /\ IsDiff(diff)
    BY DiffsAssumption DEF ParserIInv, Typed
  <2>2. DOMAIN parsed = 1 .. n /\ n \in Nat
    BY <2>1, ListFacts
  <2>3. ASSUME Finished(diff, rec, i)
        PROVE  AddedInside(rec.hunks[j], file.hunks[j])
    <3>1. IsList(rec.hunks) /\ Len(rec.hunks) = Len(file.hunks)
          /\ \A k \in 1 .. Len(file.hunks) : AddedInside(rec.hunks[k], file.hunks[k])
      BY <2>3 DEF Finished
    <3>2. DOMAIN rec.hunks = 1 .. Len(rec.hunks)
      BY <3>1, ListFacts
    <3>3. QED
      BY <3>1, <3>2
  <2>4. CASE parsed = <<>>
    BY <2>4
  <2>5. CASE AllRead(diff, lines, parsed)
    <3>1. AddedInside(rec.hunks[j], file.hunks[j])
      BY <2>2, <2>3, <2>5 DEF AllRead, AllFinished
    <3>2. QED
      BY <3>1 DEF AddedInside, Moving, Elements
  <2>6. CASE AmidFile(diff, lines, parsed, oldLine, newLine)
    <3>1. CASE i # n
      <4>1. i \in 1 .. n - 1
        BY <2>2, <3>1
      <4>2. AddedInside(rec.hunks[j], file.hunks[j])
        BY <2>3, <2>6, <4>1 DEF AmidFile, AllFinished
      <4>3. QED
        BY <4>2 DEF AddedInside, Moving, Elements
    <3>2. CASE i = n
      <4>1. PICK k, m : At(diff, lines, i, k, m) /\ ReadTo(rec, file, k, m, oldLine, newLine)
        BY <2>6, <3>2 DEF AmidFile
      <4>2. /\ IsList(rec.hunks) /\ Len(rec.hunks) = k
            /\ \A l \in 1 .. k - 1 : HunkDone(rec.hunks[l], file.hunks[l])
            /\ k # 0 => HunkUpTo(rec.hunks[k], file.hunks[k], m, oldLine, newLine)
        BY <4>1 DEF ReadTo
      <4>3. DOMAIN rec.hunks = 1 .. k /\ k \in Nat
        BY <4>2, ListFacts
      <4>4. CASE j # k
        <5>1. j \in 1 .. k - 1
          BY <4>3, <4>4
        <5>2. AddedInside(rec.hunks[j], file.hunks[j])
          BY <4>2, <5>1 DEF HunkDone
        <5>3. QED
          BY <5>2 DEF AddedInside, Moving, Elements
      <4>5. CASE j = k
        <5>1. k # 0 /\ i \in DOMAIN diff.files /\ k \in 0 .. Len(file.hunks) /\ m \in 0 .. Len(Section(diff, i, k))
          BY <4>1, <4>3, <4>5 DEF At
        <5>2. IsHunk(file.hunks[k])
          BY <2>1, <5>1, SectionFacts
        <5>3. m \in 0 .. Len(file.hunks[k].body)
          <6>1. Section(diff, i, k) = RawBody(file.hunks[k])
            BY <5>1 DEF Section
          <6>2. Len(RawBody(file.hunks[k])) = Len(file.hunks[k].body)
            BY <5>2, BodyFacts
          <6>3. QED
            BY <5>1, <6>1, <6>2
        <5>4. HunkUpTo(rec.hunks[k], file.hunks[k], m, oldLine, newLine)
          BY <4>2, <5>1
        <5>5. AddedInside(rec.hunks[k], file.hunks[k])
          BY <5>2, <5>3, <5>4, HunkStaysInside
        <5>6. QED
          BY <4>5, <5>5 DEF AddedInside, Moving, Elements
      <4>6. QED
        BY <4>4, <4>5
    <3>3. QED
      BY <3>1, <3>2
  <2>7. QED
    BY <2>1, <2>4, <2>5, <2>6 DEF Place
<1>2. QED
  BY <1>1, ParserInvariance, PTL

--------------------------------------------------------------------------------
(* From the parser to the correlation.                                     *)

LEMMA HunkIsRead ==
  ASSUME NEW x, IsHunkRecord(x)
  PROVE  LET hunk == AsHunk(x) IN
         hunk.start \in Nat /\ hunk.count \in Nat /\ hunk.added \subseteq Nat
<1>1. Elements(x.added) \subseteq Nat
  BY DEF IsHunkRecord, Elements
<1>2. x.new \in Nat /\ x.newCount \in Nat
  BY DEF IsHunkRecord
<1>3. QED
  BY <1>1, <1>2 DEF AsHunk

LEMMA MappedList ==
  ASSUME NEW s, IsList(s), NEW t, DOMAIN t = DOMAIN s, t = [i \in DOMAIN s |-> t[i]]
  PROVE  IsList(t)
<1>1. Len(s) \in Nat /\ DOMAIN s = 1 .. Len(s)
  BY ListFacts
<1>2. t \in [1 .. Len(s) -> Elements(t)]
  BY <1>1 DEF Elements
<1>3. QED
  BY <1>1, <1>2, FunctionIsList

(* Whatever a diff looks like, the records of the parser are files with    *)
(* hunks that the loops of engine.py can go through.                       *)
LEMMA RecordsAreAPatch ==
  ASSUME NEW list, Typed(list)
  PROVE  IsPatch(AsPatch(list))
<1> DEFINE p == AsPatch(list)
<1>1. /\ IsList(list) /\ DOMAIN p = DOMAIN list
      /\ \A i \in DOMAIN list : RecordOK(list[i]) /\ p[i] = AsFile(list[i])
  BY DEF Typed, AsPatch
<1>2. IsList(p)
  BY <1>1, MappedList DEF AsPatch
<1>3. ASSUME NEW i \in DOMAIN p
      PROVE  /\ IsList(p[i].hunks)
             /\ \A hunk \in Elements(p[i].hunks) :
                  hunk.start \in Nat /\ hunk.count \in Nat /\ hunk.added \subseteq Nat
  <2> DEFINE recs == list[i].hunks
             hunks == [j \in DOMAIN recs |-> AsHunk(recs[j])]
  <2>1. p[i].hunks = hunks
    BY <1>1, <1>3 DEF AsFile
  <2>2. IsList(recs) /\ \A j \in DOMAIN recs : IsHunkRecord(recs[j])
    BY <1>1, <1>3 DEF RecordOK
  <2>3. IsList(hunks)
    BY <2>2, MappedList
  <2>4. ASSUME NEW hunk \in Elements(hunks)
        PROVE  hunk.start \in Nat /\ hunk.count \in Nat /\ hunk.added \subseteq Nat
    <3>1. PICK j \in DOMAIN recs : hunk = AsHunk(recs[j])
      BY <2>4 DEF Elements
    <3>2. QED
      BY <2>2, <3>1, HunkIsRead
  <2>5. QED
    BY <2>1, <2>3, <2>4
<1>4. QED
  BY <1>2, <1>3 DEF IsPatch

--------------------------------------------------------------------------------
(* The correlation.                                                        *)


Reading == pc = "collect"
Linking == pc \in {"hunks", "file"}

DistinctKeys(list) == \A i, j \in DOMAIN list : Key(list[i]) = Key(list[j]) => i = j
DistinctItems(list) ==
  \A i, j \in DOMAIN list : VariantKey(list[i]) = VariantKey(list[j]) => i = j

NoneNear(i) == \A x \in AllRecords(audit), j \in DOMAIN patch[i].hunks : ~Near(x, i, j)

(* The evidence passed so far is in the records. *)
Collected ==
  \A i \in DOMAIN audit : \A k \in DOMAIN audit[i].evidence :
    ~Reading \/ i < d \/ (i = d /\ k < r)
      => Record(audit[i], audit[i].evidence[k]) \in Elements(records)

(* Where a link comes from. *)
FromHunk(link) ==
  \E x \in AllRecords(audit), i \in DOMAIN patch : \E j \in DOMAIN patch[i].hunks :
    /\ Near(x, i, j)
    /\ link = Link(i, j, x, LinkType(x.line, patch[i].hunks[j]))

FromFile(link) ==
  \E x \in AllRecords(audit), i \in DOMAIN patch :
    /\ InFile(x, patch[i]) /\ NoneNear(i)
    /\ link = Link(i, 0, x, "SAME_FILE")

Justified == \A k \in DOMAIN correlations : FromHunk(correlations[k]) \/ FromFile(correlations[k])

(* A file the loop has left. *)
FileDone(i) ==
  /\ \A x \in AllRecords(audit), j \in DOMAIN patch[i].hunks : Near(x, i, j) => Reported(i, j, x)
  /\ NoneNear(i) => \A x \in AllRecords(audit) : InFile(x, patch[i]) => Reported(i, 0, x)

FilesDone == Linking => \A i \in DOMAIN patch : i < f => FileDone(i)

(* The file the loop is at, as far as it has come. *)
Visited(j, k) == j < h \/ (j = h /\ k < r)

HunksDone ==
  pc = "hunks" /\ f <= Len(patch) =>
    /\ \A j \in DOMAIN patch[f].hunks, k \in DOMAIN records :
         Visited(j, k) /\ Near(records[k], f, j) => hunkMatched /\ Reported(f, j, records[k])
    /\ hunkMatched => ~NoneNear(f)

RecordsDone ==
  pc = "file" =>
    /\ f <= Len(patch) /\ NoneNear(f)
    /\ \A k \in DOMAIN records :
         k < r /\ InFile(records[k], patch[f]) => Reported(f, 0, records[k])

Full(i, j) ==
  Len(correlations) = MaxCorrelations /\ Earlier(correlations[MaxCorrelations], i, j)

NothingMissed ==
  pc \in {"variants", "done"} =>
    \A i \in DOMAIN patch :
      /\ \A x \in AllRecords(audit), j \in DOMAIN patch[i].hunks :
           Near(x, i, j) => Reported(i, j, x) \/ Full(i, j)
      /\ NoneNear(i) =>
           \A x \in AllRecords(audit) : InFile(x, patch[i]) => Reported(i, 0, x) \/ Full(i, 0)

(* The item is the first link to what the k-th one links. *)
Represents(item, k) ==
  \E l \in 1 .. k : /\ item = correlations[l] /\ IsFirst(l)
                    /\ VariantKey(correlations[l]) = VariantKey(correlations[k])

(* Every item was a link, and the items up to that of the k-th link come   *)
(* from links no later than it.                                            *)
ItemsDone ==
  pc = "variants" =>
    /\ \A m \in DOMAIN variants : \E k \in 1 .. c - 1 : correlations[k] = variants[m]
    /\ \A k \in 1 .. c - 1 : \E m \in DOMAIN variants :
         /\ Represents(variants[m], k)
         /\ \A n \in 1 .. m : \E l \in 1 .. k : correlations[l] = variants[n]

(* What the phases have not touched yet. *)
Untouched ==
  /\ Reading => f = 1 /\ h = 1 /\ ~hunkMatched /\ correlations = <<>>
  /\ Reading /\ d > Len(audit) => r = 1
  /\ pc = "file" => h = 1 /\ ~hunkMatched
  /\ Reading \/ Linking => c = 1 /\ variants = <<>> /\ Len(correlations) < MaxCorrelations

IInv ==
  /\ TypeOK /\ Untouched
  /\ Collected /\ Justified
  /\ FilesDone /\ HunksDone /\ RecordsDone /\ NothingMissed
  /\ ItemsDone /\ EveryLinkHasItsItem
------------------------------------------------------------------------------
(* What an appended list holds. *)
LEMMA AppendFacts ==
  ASSUME NEW s, IsList(s), NEW e
  PROVE  /\ IsList(Append(s, e))
         /\ Len(s) \in Nat /\ DOMAIN s = 1 .. Len(s)
         /\ Len(Append(s, e)) = Len(s) + 1
         /\ DOMAIN Append(s, e) = 1 .. Len(s) + 1
         /\ \A i \in 1 .. Len(s) : Append(s, e)[i] = s[i]
         /\ Append(s, e)[Len(s) + 1] = e
         /\ Elements(Append(s, e)) = Elements(s) \cup {e}
<1> DEFINE S == Elements(s) \cup {e}
           t == Append(s, e)
<1>1. s \in Seq(S) /\ e \in S
  <2>1. s \in Seq(Elements(s))
    BY DEF IsList
  <2> QED
    BY <2>1, SeqMonotonic, Elements(s) \subseteq S
<1>2. /\ t \in Seq(S) /\ Len(t) = Len(s) + 1
      /\ \A i \in 1 .. Len(s) : t[i] = s[i]
      /\ t[Len(s) + 1] = e
  BY <1>1, AppendProperties
<1>3. Len(s) \in Nat /\ DOMAIN s = 1 .. Len(s) /\ DOMAIN t = 1 .. Len(s) + 1
  BY <1>1, <1>2, LenProperties
<1> HIDE DEF t
<1>4. Elements(t) = Elements(s) \cup {e}
  <2>1. \A y : y \in Elements(t) <=> \E i \in 1 .. Len(s) + 1 : y = t[i]
    BY <1>3 DEF Elements
  <2>2. \A y : y \in Elements(s) <=> \E i \in 1 .. Len(s) : y = s[i]
    BY <1>3 DEF Elements
  <2>3. 1 .. Len(s) + 1 = (1 .. Len(s)) \cup {Len(s) + 1}
    BY <1>3
  <2>4. \A y : (\E i \in 1 .. Len(s) + 1 : y = t[i])
                 <=> (\E i \in 1 .. Len(s) : y = t[i]) \/ y = t[Len(s) + 1]
    BY <2>3
  <2>5. \A y : y \in Elements(t) <=> y \in Elements(s) \/ y = e
    BY <1>2, <2>1, <2>2, <2>4
  <2> QED
    BY <2>5
<1>5. IsList(t)
  BY <1>2, <1>4 DEF IsList
<1> QED
  BY <1>2, <1>3, <1>4, <1>5 DEF t

LEMMA ElementFacts ==
  ASSUME NEW s, IsList(s)
  PROVE  /\ Len(s) \in Nat /\ DOMAIN s = 1 .. Len(s)
         /\ \A i \in DOMAIN s : s[i] \in Elements(s)
         /\ \A y \in Elements(s) : \E i \in DOMAIN s : s[i] = y
<1> QED
  BY LenProperties DEF IsList, Elements

(* _append_correlation keeps what was there, leaves a link with the key,   *)
(* and never two of one key.                                               *)
LEMMA LinkedFacts ==
  ASSUME NEW list, IsList(list), DistinctKeys(list), NEW link
  PROVE  LET new == Linked(list, link) IN
         /\ IsList(new) /\ DistinctKeys(new)
         /\ Elements(list) \subseteq Elements(new)
         /\ \E y \in Elements(new) : Key(y) = Key(link)
         /\ \A i \in DOMAIN new : (i \in DOMAIN list /\ new[i] = list[i]) \/ new[i] = link
         /\ \/ new = list
            \/ Len(new) = Len(list) + 1 /\ new[Len(new)] = link
<1>1. CASE \E i \in DOMAIN list : Key(list[i]) = Key(link)
  <2>1. Linked(list, link) = list
    BY <1>1 DEF Linked
  <2>2. \E y \in Elements(list) : Key(y) = Key(link)
    BY <1>1, ElementFacts
  <2> QED
    BY <2>1, <2>2
<1>2. CASE ~ \E i \in DOMAIN list : Key(list[i]) = Key(link)
  <2> DEFINE new == Append(list, link)
  <2>1. Linked(list, link) = new
    BY <1>2 DEF Linked
  <2>2. /\ IsList(new) /\ Len(list) \in Nat /\ DOMAIN list = 1 .. Len(list)
        /\ Len(new) = Len(list) + 1 /\ DOMAIN new = 1 .. Len(list) + 1
        /\ \A i \in 1 .. Len(list) : new[i] = list[i]
        /\ new[Len(list) + 1] = link
        /\ Elements(new) = Elements(list) \cup {link}
    BY AppendFacts
  <2> HIDE DEF new
  <2>3. \A i \in DOMAIN new : (i \in DOMAIN list /\ new[i] = list[i]) \/ i = Len(list) + 1
    BY <2>2
  <2>4. DistinctKeys(new)
    BY <1>2, <2>2, <2>3 DEF DistinctKeys
  <2> QED
    BY <2>1, <2>2, <2>3, <2>4
<1> QED
  BY <1>1, <1>2

(* What an audit and a patch are made of. *)
LEMMA InputFacts ==
  ASSUME NEW a, IsAudit(a), NEW p, IsPatch(p)
  PROVE  /\ IsList(a) /\ \A i \in DOMAIN a : IsList(a[i].evidence)
         /\ \A x \in AllRecords(a) : x.line \in Int
         /\ \A x, y \in AllRecords(a) : SameKey(x, y) => x = y
         /\ IsList(p) /\ \A i \in DOMAIN p : IsList(p[i].hunks)
         /\ \A i \in DOMAIN p : \A j \in DOMAIN p[i].hunks :
              LET hunk == p[i].hunks[j] IN
              hunk.start \in Nat /\ hunk.count \in Nat /\ hunk.added \subseteq Nat
<1> QED
  BY ElementFacts DEF IsAudit, IsPatch

LEMMA RecordIsOne ==
  ASSUME NEW a, NEW i \in DOMAIN a, NEW k \in DOMAIN a[i].evidence
  PROVE  Record(a[i], a[i].evidence[k]) \in AllRecords(a)
<1> QED
  BY DEF AllRecords, Elements

LEMMA RecordComesFrom ==
  ASSUME NEW a, NEW x \in AllRecords(a)
  PROVE  \E i \in DOMAIN a : \E k \in DOMAIN a[i].evidence : x = Record(a[i], a[i].evidence[k])
<1> QED
  BY DEF AllRecords, Elements

(* The range tests of _hunk_correlation_type are tests of a distance. *)
LEMMA TypeIsDistance ==
  ASSUME NEW line \in Int, NEW hunk, hunk.start \in Nat, hunk.count \in Nat
  PROVE  /\ LinkType(line, hunk) # "none" <=> Inside(line, hunk) \/ Distance(line, hunk) <= Window
         /\ LinkType(line, hunk) \in {"LINE_OVERLAP", "LINE_PROXIMITY", "none"}
         /\ LinkType(line, hunk) = "LINE_OVERLAP" <=> Inside(line, hunk)
<1>1. Window \in Nat
  BY CorrelationAssumption
<1>2. line \in hunk.added \cup (hunk.start .. hunk.start + hunk.count - 1) <=> Inside(line, hunk)
  BY DEF Inside
<1>3. Inside(line, hunk) <=>
        line \in hunk.added \/ (hunk.start <= line /\ line < hunk.start + hunk.count)
  BY DEF Inside
<1>4. line \in hunk.start - Window .. hunk.start + hunk.count + Window
        <=> hunk.start - Window <= line /\ line <= hunk.start + hunk.count + Window
  BY <1>1
<1>5. Distance(line, hunk) =
        IF line < hunk.start THEN hunk.start - line
        ELSE IF line >= hunk.start + hunk.count THEN line - (hunk.start + hunk.count) ELSE 0
  BY DEF Distance
<1>6. line \in hunk.start - Window .. hunk.start + hunk.count + Window
        <=> Distance(line, hunk) <= Window
  BY <1>1, <1>4, <1>5
<1> QED
  BY <1>2, <1>6 DEF LinkType

LEMMA NearIsTouching ==
  ASSUME IsAudit(audit), IsPatch(patch),
         NEW x \in AllRecords(audit), NEW i \in DOMAIN patch, NEW j \in DOMAIN patch[i].hunks
  PROVE  LET type == LinkType(x.line, patch[i].hunks[j]) IN
         /\ Near(x, i, j) <=> InFile(x, patch[i]) /\ type # "none"
         /\ type \in {"LINE_OVERLAP", "LINE_PROXIMITY", "none"}
<1> DEFINE hunk == patch[i].hunks[j]
<1>1. x.line \in Int /\ hunk.start \in Nat /\ hunk.count \in Nat
  BY InputFacts
<1> HIDE DEF hunk
<1>2. /\ LinkType(x.line, hunk) # "none" <=> Inside(x.line, hunk) \/ Distance(x.line, hunk) <= Window
      /\ LinkType(x.line, hunk) \in {"LINE_OVERLAP", "LINE_PROXIMITY", "none"}
  BY <1>1, TypeIsDistance
<1> QED
  BY <1>2 DEF Near, hunk

(* After the collection the records are those of the audit. *)
LEMMA RecordsAreAll ==
  ASSUME TypeOK, Collected, ~Reading
  PROVE  /\ \A k \in DOMAIN records : records[k] \in AllRecords(audit)
         /\ \A x \in AllRecords(audit) : \E k \in DOMAIN records : records[k] = x
         /\ Len(records) \in Nat /\ DOMAIN records = 1 .. Len(records)
<1>1. records \in Seq(AllRecords(audit))
  BY DEF TypeOK
<1>2. Len(records) \in Nat /\ DOMAIN records = 1 .. Len(records)
  BY <1>1, LenProperties
<1>3. \A k \in DOMAIN records : records[k] \in AllRecords(audit)
  BY <1>1, <1>2, ElementOfSeq
<1>4. \A x \in AllRecords(audit) : x \in Elements(records)
  <2> TAKE x \in AllRecords(audit)
  <2>1. PICK i \in DOMAIN audit : \E k \in DOMAIN audit[i].evidence :
          x = Record(audit[i], audit[i].evidence[k])
    BY RecordComesFrom
  <2> QED
    BY <2>1 DEF Collected
<1>5. \A x \in AllRecords(audit) : \E k \in DOMAIN records : records[k] = x
  BY <1>4 DEF Elements
<1> QED
  BY <1>2, <1>3, <1>5

LEMMA DistinctIsInjective ==
  ASSUME NEW list
  PROVE  /\ DistinctKeys(list) <=> IsInjective([i \in DOMAIN list |-> Key(list[i])])
         /\ DistinctItems(list) <=> IsInjective([i \in DOMAIN list |-> VariantKey(list[i])])
<1> QED
  BY DEF DistinctKeys, DistinctItems, IsInjective

LEMMA TypeFacts ==
  ASSUME TypeOK
  PROVE  /\ IsAudit(audit) /\ IsPatch(patch)
         /\ IsList(audit) /\ \A i \in DOMAIN audit : IsList(audit[i].evidence)
         /\ IsList(patch) /\ \A i \in DOMAIN patch : IsList(patch[i].hunks)
         /\ Len(audit) \in Nat /\ DOMAIN audit = 1 .. Len(audit)
         /\ Len(patch) \in Nat /\ DOMAIN patch = 1 .. Len(patch)
         /\ Len(records) \in Nat /\ DOMAIN records = 1 .. Len(records)
         /\ IsList(correlations) /\ Len(correlations) \in Nat
         /\ DOMAIN correlations = 1 .. Len(correlations)
         /\ IsList(variants) /\ Len(variants) \in Nat /\ DOMAIN variants = 1 .. Len(variants)
         /\ DistinctKeys(correlations) /\ DistinctItems(variants)
         /\ d \in Nat \ {0} /\ f \in Nat \ {0} /\ h \in Nat \ {0} /\ r \in Nat \ {0}
         /\ c \in Nat \ {0}
<1>1. /\ IsAudit(audit) /\ IsPatch(patch)
      /\ IsList(correlations) /\ IsList(variants) /\ records \in Seq(AllRecords(audit))
  BY DEF TypeOK
<1>2. /\ IsList(audit) /\ \A i \in DOMAIN audit : IsList(audit[i].evidence)
      /\ IsList(patch) /\ \A i \in DOMAIN patch : IsList(patch[i].hunks)
  BY <1>1, InputFacts
<1>3. DistinctKeys(correlations) /\ DistinctItems(variants)
  BY DistinctIsInjective DEF TypeOK
<1>4. /\ Len(audit) \in Nat /\ Len(patch) \in Nat /\ Len(correlations) \in Nat
      /\ DOMAIN audit = 1 .. Len(audit) /\ DOMAIN patch = 1 .. Len(patch)
      /\ DOMAIN correlations = 1 .. Len(correlations)
      /\ Len(variants) \in Nat /\ DOMAIN variants = 1 .. Len(variants)
  BY <1>1, <1>2, ElementFacts
<1>5. Len(records) \in Nat /\ DOMAIN records = 1 .. Len(records)
  BY <1>1, LenProperties
<1>6. /\ d \in 1 .. Len(audit) + 1 /\ f \in 1 .. Len(patch) + 1
      /\ h \in Nat \ {0} /\ r \in Nat \ {0} /\ c \in 1 .. Len(correlations) + 1
  BY DEF TypeOK
<1>7. d \in Nat \ {0} /\ f \in Nat \ {0} /\ c \in Nat \ {0}
  BY <1>4, <1>6
<1> QED
  BY <1>1, <1>2, <1>3, <1>4, <1>5, <1>6, <1>7

(* Only a directory called a or b hides that two paths are different. *)
LEMMA SameUnlessPrefixed ==
  ASSUME NEW x, NEW changed, InFile(x, changed)
  PROVE  x.file \in changed.paths \/ \E path \in changed.paths \cup {x.file} : InPrefix(path)
<1>1. PICK path \in changed.paths : Normalized(x.file) = Normalized(path)
  BY DEF InFile
<1>2. QED
  BY <1>1 DEF Normalized

(* The three properties follow from the invariant. *)
LEMMA JustificationFollows == IInv => LinksAreJustified
<1> SUFFICES ASSUME IInv, NEW n \in DOMAIN correlations
             PROVE  LET link == correlations[n] IN
                    /\ \E detection \in Elements(audit) : Says(detection, link)
                    /\ CASE link.type = "SAME_FILE" ->
                              link.hunk = 0 /\ \A x \in AllRecords(audit),
                                                 j \in DOMAIN patch[link.file].hunks :
                                                   ~Near(x, link.file, j)
                         [] OTHER ->
                              LET hunk == patch[link.file].hunks[link.hunk] IN
                              /\ Inside(link.line, hunk) \/ Distance(link.line, hunk) <= Window
                              /\ link.type = "LINE_OVERLAP" <=> Inside(link.line, hunk)
  BY DEF LinksAreJustified
<1> DEFINE link == correlations[n]
<1> USE TypeFacts DEF IInv
<1>1. \A x \in AllRecords(audit), i \in DOMAIN patch : \A j, type :
        InFile(x, patch[i]) /\ link = Link(i, j, x, type)
          => \E detection \in Elements(audit) : Says(detection, link)
  <2> SUFFICES ASSUME NEW x \in AllRecords(audit), NEW i \in DOMAIN patch, NEW j, NEW type,
                      InFile(x, patch[i]), link = Link(i, j, x, type)
               PROVE  \E detection \in Elements(audit) : Says(detection, link)
    OBVIOUS
  <2>1. PICK a \in DOMAIN audit : \E k \in DOMAIN audit[a].evidence :
          x = Record(audit[a], audit[a].evidence[k])
    BY RecordComesFrom
  <2>2. PICK k \in DOMAIN audit[a].evidence : x = Record(audit[a], audit[a].evidence[k])
    BY <2>1
  <2> DEFINE e == audit[a].evidence[k]
  <2>3. e \in Elements(audit[a].evidence) /\ audit[a] \in Elements(audit)
    BY DEF Elements
  <2> HIDE DEF e, link
  <2>4. /\ x.related = audit[a].id /\ x.type = audit[a].type
        /\ x.evidence = e.id /\ x.line = e.line /\ x.file = e.file
    BY <2>2 DEF Record, e
  <2>5. /\ link.related = x.related /\ link.source = x.type /\ link.file = i
        /\ link.evidence = x.evidence /\ link.line = x.line
    BY DEF Link
  <2>6. InFile(e, patch[i])
    BY <2>4 DEF InFile
  <2>n. e.file \in patch[i].paths \/ \E path \in patch[i].paths \cup {e.file} : InPrefix(path)
    BY <2>6, SameUnlessPrefixed
  <2>7. Says(audit[a], link)
    BY <2>3, <2>4, <2>5, <2>6, <2>n DEF Says
  <2> QED
    BY <2>3, <2>7
<1>2. CASE FromHunk(link)
  <2>1. PICK x \in AllRecords(audit), i \in DOMAIN patch : \E j \in DOMAIN patch[i].hunks :
          Near(x, i, j) /\ link = Link(i, j, x, LinkType(x.line, patch[i].hunks[j]))
    BY <1>2 DEF FromHunk
  <2>2. PICK j \in DOMAIN patch[i].hunks :
          Near(x, i, j) /\ link = Link(i, j, x, LinkType(x.line, patch[i].hunks[j]))
    BY <2>1
  <2> DEFINE hunk == patch[i].hunks[j]
  <2>3. x.line \in Int /\ hunk.start \in Nat /\ hunk.count \in Nat
    BY InputFacts
  <2>4. (Inside(x.line, hunk) \/ Distance(x.line, hunk) <= Window) /\ InFile(x, patch[i])
    BY <2>2 DEF Near
  <2> HIDE DEF hunk, link
  <2>5. /\ LinkType(x.line, hunk) \in {"LINE_OVERLAP", "LINE_PROXIMITY", "none"}
        /\ LinkType(x.line, hunk) = "LINE_OVERLAP" <=> Inside(x.line, hunk)
    BY <2>3, TypeIsDistance
  <2>6. /\ link.file = i /\ link.hunk = j /\ link.line = x.line
        /\ link.type = LinkType(x.line, hunk)
    BY <2>2 DEF Link, hunk
  <2>7. patch[link.file].hunks[link.hunk] = hunk /\ link.type # "SAME_FILE"
    BY <2>5, <2>6 DEF hunk
  <2>8. \E detection \in Elements(audit) : Says(detection, link)
    BY <1>1, <2>2, <2>4 DEF hunk
  <2> QED
    BY <2>4, <2>5, <2>6, <2>7, <2>8 DEF link
<1>3. CASE FromFile(link)
  <2>1. PICK x \in AllRecords(audit), i \in DOMAIN patch :
          InFile(x, patch[i]) /\ NoneNear(i) /\ link = Link(i, 0, x, "SAME_FILE")
    BY <1>3 DEF FromFile
  <2> HIDE DEF link
  <2>2. link.file = i /\ link.hunk = 0 /\ link.type = "SAME_FILE"
    BY <2>1 DEF Link
  <2>3. \E detection \in Elements(audit) : Says(detection, link)
    BY <1>1, <2>1
  <2> QED
    BY <2>1, <2>2, <2>3 DEF NoneNear, link
<1> QED
  BY <1>2, <1>3 DEF Justified

LEMMA CompletenessFollows == IInv => NothingNearIsMissed
<1> SUFFICES ASSUME IInv, pc = "done", NEW i \in DOMAIN patch
             PROVE
      LET here == {x \in AllRecords(audit) : InFile(x, patch[i])}
          full(j) == Len(correlations) = MaxCorrelations
                       /\ Earlier(correlations[MaxCorrelations], i, j)
          anyNear == \E x \in here, j \in DOMAIN patch[i].hunks : Near(x, i, j)
      IN /\ \A x \in here, j \in DOMAIN patch[i].hunks :
              Near(x, i, j) => Reported(i, j, x) \/ full(j)
         /\ ~anyNear => \A x \in here : Reported(i, 0, x) \/ full(0)
  BY DEF NothingNearIsMissed
<1>1. /\ \A x \in AllRecords(audit), j \in DOMAIN patch[i].hunks :
           Near(x, i, j) => Reported(i, j, x) \/ Full(i, j)
      /\ NoneNear(i) =>
           \A x \in AllRecords(audit) : InFile(x, patch[i]) => Reported(i, 0, x) \/ Full(i, 0)
  BY DEF IInv, NothingMissed
<1>2. \A x, j : Near(x, i, j) => InFile(x, patch[i])
  BY DEF Near
<1> QED
  BY <1>1, <1>2 DEF NoneNear, Full

LEMMA StartInv == AtStart /\ IsAudit(audit) /\ IsPatch(patch) => IInv
<1> SUFFICES ASSUME AtStart, IsAudit(audit), IsPatch(patch)
             PROVE  IInv
  OBVIOUS
<1> USE DEF AtStart
<1>1. IsList(audit) /\ IsList(patch)
  BY InputFacts
<1>2. Len(audit) \in Nat /\ Len(patch) \in Nat
  BY <1>1, ElementFacts
<1>3. \A S : <<>> \in Seq(S)
  BY EmptySeq
<1>4. IsList(<<>>) /\ DOMAIN <<>> = {} /\ Len(<<>>) = 0
  BY <1>3, EmptySeq DEF IsList
<1>5. MaxCorrelations \in Nat \ {0} /\ MaxVariants \in Nat \ {0}
  BY CorrelationAssumption
<1>6. TypeOK
  <2>1. DistinctKeys(correlations) /\ DistinctItems(variants)
    BY <1>4 DEF DistinctKeys, DistinctItems
  <2>2. /\ IsInjective([i \in DOMAIN correlations |-> Key(correlations[i])])
        /\ IsInjective([i \in DOMAIN variants |-> VariantKey(variants[i])])
    BY <2>1, DistinctIsInjective
  <2>3. /\ d \in 1 .. Len(audit) + 1 /\ f \in 1 .. Len(patch) + 1
        /\ c \in 1 .. Len(correlations) + 1
    BY <1>2, <1>4
  <2>4. Len(correlations) <= MaxCorrelations
    BY <1>4, <1>5
  <2>5. records \in Seq(AllRecords(audit))
    BY <1>3
  <2>6. h \in Nat \ {0} /\ r \in Nat \ {0}
    OBVIOUS
  <2>7. \A i \in DOMAIN correlations : correlations[i].type \in LinkTypes
    BY <1>4
  <2>8. IsList(correlations) /\ IsList(variants)
    BY <1>4
  <2>9. pc = "done" => Len(variants) <= MaxVariants
    OBVIOUS
  <2> QED
    BY <2>2, <2>3, <2>4, <2>5, <2>6, <2>7, <2>8, <2>9, Zenon DEF TypeOK
<1>7. Untouched
  BY <1>4, <1>5 DEF Untouched, Reading, Linking
<1>8. Collected
  <2>1. \A i \in DOMAIN audit : \A k \in DOMAIN audit[i].evidence : i \in Nat \ {0} /\ k \in Nat \ {0}
    <3> SUFFICES ASSUME NEW i \in DOMAIN audit, NEW k \in DOMAIN audit[i].evidence
                 PROVE  i \in Nat \ {0} /\ k \in Nat \ {0}
      OBVIOUS
    <3>1. IsList(audit[i].evidence)
      BY InputFacts
    <3>2. i \in 1 .. Len(audit) /\ k \in 1 .. Len(audit[i].evidence)
      BY <1>1, <3>1, ElementFacts
    <3>3. Len(audit[i].evidence) \in Nat
      BY <3>1, ElementFacts
    <3> QED
      BY <1>2, <3>2, <3>3
  <2> QED
    BY <2>1 DEF Collected, Reading
<1>9. Justified
  BY <1>4 DEF Justified
<1>10. FilesDone /\ HunksDone /\ RecordsDone /\ NothingMissed /\ ItemsDone /\ EveryLinkHasItsItem
  BY DEF FilesDone, HunksDone, RecordsDone, NothingMissed, ItemsDone, EveryLinkHasItsItem, Linking
<1> QED
  BY <1>6, <1>7, <1>8, <1>9, <1>10 DEF IInv

(* The inputs never change, and links are never taken back. *)
LEMMA SamePlaces ==
  ASSUME UNCHANGED input
  PROVE  /\ \A x, i, j : Near(x, i, j)' <=> Near(x, i, j)
         /\ \A i : NoneNear(i)' <=> NoneNear(i)
         /\ \A link : FromHunk(link)' <=> FromHunk(link)
         /\ \A link : FromFile(link)' <=> FromFile(link)
<1>1. audit' = audit /\ patch' = patch
  BY DEF input
<1>2. \A x, i, j : Near(x, i, j)' <=> Near(x, i, j)
  BY <1>1 DEF Near
<1>3. \A i : NoneNear(i)' <=> NoneNear(i)
  BY <1>1, <1>2 DEF NoneNear
<1>4. \A link : FromHunk(link)' <=> FromHunk(link)
  BY <1>1, <1>2 DEF FromHunk
<1>5. \A link : FromFile(link)' <=> FromFile(link)
  BY <1>1, <1>3 DEF FromFile
<1> QED
  BY <1>2, <1>3, <1>4, <1>5

LEMMA LinksKept ==
  ASSUME Elements(correlations) \subseteq Elements(correlations')
  PROVE  \A i, j, x : Reported(i, j, x) => Reported(i, j, x)'
<1> QED
  BY DEF Reported

LEMMA FilesStayDone ==
  ASSUME UNCHANGED input, Elements(correlations) \subseteq Elements(correlations')
  PROVE  \A i : FileDone(i) => FileDone(i)'
<1>1. audit' = audit /\ patch' = patch
  BY DEF input
<1> QED
  BY <1>1, SamePlaces, LinksKept DEF FileDone

LEMMA AddRecordInv == IInv /\ AddRecord => IInv'
<1> SUFFICES ASSUME IInv, AddRecord
             PROVE  IInv'
  OBVIOUS
<1> USE DEF IInv
<1>1. /\ Reading /\ pc = "collect" /\ d <= Len(audit) /\ r <= Len(audit[d].evidence)
      /\ r' = r + 1 /\ UNCHANGED input /\ audit' = audit /\ patch' = patch
      /\ pc' = pc /\ d' = d /\ f' = f /\ h' = h
      /\ hunkMatched' = hunkMatched /\ correlations' = correlations /\ c' = c
      /\ variants' = variants
  BY DEF AddRecord, Reading, input
<1>2. /\ d \in DOMAIN audit /\ r \in DOMAIN audit[d].evidence
      /\ d \in Nat \ {0} /\ r \in Nat \ {0}
  <2>1. d \in DOMAIN audit
    BY <1>1, TypeFacts
  <2>2. IsList(audit[d].evidence)
    BY <2>1, TypeFacts
  <2> QED
    BY <1>1, <2>1, <2>2, ElementFacts, TypeFacts
<1> DEFINE x == Record(audit[d], audit[d].evidence[r])
<1>3. x \in AllRecords(audit)
  BY <1>2, RecordIsOne
<1>4. records \in Seq(AllRecords(audit))
  BY DEF TypeOK
<1>5. /\ records' \in Seq(AllRecords(audit))
      /\ x \in Elements(records')
      /\ Elements(records) \subseteq Elements(records')
  <2>1. CASE \E i \in DOMAIN records : SameKey(records[i], x)
    <3>1. records' = records
      BY <2>1 DEF AddRecord
    <3>2. PICK i \in DOMAIN records : SameKey(records[i], x)
      BY <2>1
    <3>3. records[i] \in AllRecords(audit)
      BY <1>4, <3>2, LenProperties, ElementOfSeq
    <3>4. records[i] = x
      BY <1>3, <3>2, <3>3, TypeFacts, InputFacts
    <3> QED
      BY <1>4, <3>1, <3>4 DEF Elements
  <2>2. CASE ~ \E i \in DOMAIN records : SameKey(records[i], x)
    <3>1. records' = Append(records, x)
      BY <2>2 DEF AddRecord
    <3>2. IsList(records)
      BY <1>4, SequenceIsList
    <3>3. Elements(records') = Elements(records) \cup {x}
      BY <3>1, <3>2, AppendFacts
    <3> QED
      BY <1>3, <1>4, <3>1, <3>3, AppendProperties
  <2> QED
    BY <2>1, <2>2
<1>6. TypeOK'
  BY <1>1, <1>2, <1>5 DEF TypeOK
<1>7. Untouched'
  <2>1. ~(d > Len(audit))
    BY <1>1, <1>2, TypeFacts
  <2> QED
    BY <1>1, <2>1 DEF Untouched, Reading, Linking
<1>8. Collected'
  <2> SUFFICES ASSUME NEW i \in DOMAIN audit, NEW k \in DOMAIN audit[i].evidence,
                      i < d \/ (i = d /\ k < r + 1)
               PROVE  Record(audit[i], audit[i].evidence[k]) \in Elements(records')
    BY <1>1 DEF Collected, Reading
  <2>1. k \in Nat
    BY TypeFacts, ElementFacts
  <2>2. CASE i = d /\ k = r
    BY <1>5, <2>2
  <2>3. CASE i < d \/ (i = d /\ k < r)
    BY <1>5, <2>3 DEF Collected
  <2> QED
    BY <1>2, <2>1, <2>2, <2>3
<1>9. Justified'
  BY <1>1, SamePlaces DEF Justified
<1>10. FilesDone' /\ HunksDone' /\ RecordsDone' /\ NothingMissed' /\ ItemsDone' /\ EveryLinkHasItsItem'
  BY <1>1 DEF FilesDone, HunksDone, RecordsDone, NothingMissed, ItemsDone, EveryLinkHasItsItem, Linking
<1> QED
  BY <1>6, <1>7, <1>8, <1>9, <1>10

LEMMA NextDetectionInv == IInv /\ NextDetection => IInv'
<1> SUFFICES ASSUME IInv, NextDetection
             PROVE  IInv'
  OBVIOUS
<1> USE DEF IInv
<1>1. /\ Reading /\ pc = "collect" /\ d <= Len(audit) /\ r > Len(audit[d].evidence)
      /\ d' = d + 1 /\ r' = 1 /\ UNCHANGED input /\ audit' = audit /\ patch' = patch
      /\ pc' = pc /\ records' = records /\ f' = f /\ h' = h
      /\ hunkMatched' = hunkMatched /\ correlations' = correlations /\ c' = c
      /\ variants' = variants
  BY DEF NextDetection, Reading, input
<1>2. d' \in 1 .. Len(audit) + 1
  BY <1>1, TypeFacts
<1>3. TypeOK'
  BY <1>1, <1>2 DEF TypeOK
<1>4. Untouched'
  BY <1>1 DEF Untouched, Reading, Linking
<1>5. Collected'
  <2> SUFFICES ASSUME NEW i \in DOMAIN audit, NEW k \in DOMAIN audit[i].evidence,
                      i < d + 1 \/ (i = d + 1 /\ k < 1)
               PROVE  Record(audit[i], audit[i].evidence[k]) \in Elements(records)
    BY <1>1 DEF Collected, Reading
  <2>1. /\ i \in Nat /\ k \in 1 .. Len(audit[i].evidence) /\ Len(audit[i].evidence) \in Nat
    BY TypeFacts, ElementFacts
  <2>2. d \in Nat /\ r \in Nat
    BY TypeFacts
  <2>3. i < d \/ (i = d /\ k < r)
    BY <1>1, <2>1, <2>2
  <2> QED
    BY <2>3 DEF Collected
<1>6. Justified'
  BY <1>1, SamePlaces DEF Justified
<1>7. FilesDone' /\ HunksDone' /\ RecordsDone' /\ NothingMissed' /\ ItemsDone' /\ EveryLinkHasItsItem'
  BY <1>1 DEF FilesDone, HunksDone, RecordsDone, NothingMissed, ItemsDone, EveryLinkHasItsItem, Linking
<1> QED
  BY <1>3, <1>4, <1>5, <1>6, <1>7

LEMMA EndOfAuditInv == IInv /\ EndOfAudit => IInv'
<1> SUFFICES ASSUME IInv, EndOfAudit
             PROVE  IInv'
  OBVIOUS
<1> USE DEF IInv
<1>1. /\ Reading /\ pc = "collect" /\ d > Len(audit) /\ pc' = "hunks"
      /\ UNCHANGED input /\ audit' = audit /\ patch' = patch
      /\ records' = records /\ d' = d /\ f' = f /\ h' = h /\ r' = r
      /\ hunkMatched' = hunkMatched /\ correlations' = correlations /\ c' = c
      /\ variants' = variants
  BY DEF EndOfAudit, Reading, input
<1>2. f = 1 /\ h = 1 /\ r = 1 /\ ~hunkMatched
  BY <1>1 DEF Untouched
<1>3. TypeOK'
  BY <1>1 DEF TypeOK
<1>4. Untouched'
  BY <1>1 DEF Untouched, Reading, Linking
<1>5. Collected'
  <2> SUFFICES ASSUME NEW i \in DOMAIN audit, NEW k \in DOMAIN audit[i].evidence
               PROVE  Record(audit[i], audit[i].evidence[k]) \in Elements(records)
    BY <1>1 DEF Collected
  <2>1. i < d
    BY <1>1, TypeFacts
  <2> QED
    BY <2>1 DEF Collected
<1>6. Justified'
  BY <1>1, SamePlaces DEF Justified
<1>7. FilesDone'
  BY <1>1, <1>2, TypeFacts DEF FilesDone
<1>8. HunksDone'
  <2>1. \A j \in DOMAIN patch[1].hunks : j < 1 => 1 > Len(patch)
    BY TypeFacts, ElementFacts
  <2>2. \A k \in DOMAIN records : ~(k < 1)
    BY TypeFacts
  <2> QED
    BY <1>1, <1>2, <2>1, <2>2, TypeFacts DEF HunksDone, Visited
<1>9. RecordsDone' /\ NothingMissed' /\ ItemsDone' /\ EveryLinkHasItsItem'
  BY <1>1 DEF RecordsDone, NothingMissed, ItemsDone, EveryLinkHasItsItem
<1> QED
  BY <1>3, <1>4, <1>5, <1>6, <1>7, <1>8, <1>9

(* One call of _append_correlation with a link that may be made. *)
LEMMA LinkStep ==
  ASSUME IInv, Linking, UNCHANGED input, NEW link,
         correlations' = Linked(correlations, link),
         FromHunk(link) \/ FromFile(link)
  PROVE  /\ IsList(correlations') /\ Len(correlations') \in Nat
         /\ IsInjective([i \in DOMAIN correlations |-> Key(correlations[i])])'
         /\ \A i \in DOMAIN correlations' : correlations'[i].type \in LinkTypes
         /\ Len(correlations') <= MaxCorrelations
         /\ Justified'
         /\ Elements(correlations) \subseteq Elements(correlations')
         /\ \E y \in Elements(correlations') : Key(y) = Key(link)
         /\ Len(correlations') >= MaxCorrelations
              => Len(correlations') = MaxCorrelations /\ correlations'[MaxCorrelations] = link
<1> USE DEF IInv
<1>1. /\ IsList(correlations') /\ DistinctKeys(correlations')
      /\ Elements(correlations) \subseteq Elements(correlations')
      /\ \E y \in Elements(correlations') : Key(y) = Key(link)
      /\ \A i \in DOMAIN correlations' :
           (i \in DOMAIN correlations /\ correlations'[i] = correlations[i]) \/ correlations'[i] = link
      /\ \/ correlations' = correlations
         \/ /\ Len(correlations') = Len(correlations) + 1
            /\ correlations'[Len(correlations')] = link
  <2>1. IsList(correlations) /\ DistinctKeys(correlations)
    BY TypeFacts
  <2> DEFINE new == Linked(correlations, link)
  <2>2. /\ IsList(new) /\ DistinctKeys(new)
        /\ Elements(correlations) \subseteq Elements(new)
        /\ \E y \in Elements(new) : Key(y) = Key(link)
        /\ \A i \in DOMAIN new :
             (i \in DOMAIN correlations /\ new[i] = correlations[i]) \/ new[i] = link
        /\ \/ new = correlations
           \/ Len(new) = Len(correlations) + 1 /\ new[Len(new)] = link
    BY <2>1, LinkedFacts
  <2>3. correlations' = new
    OBVIOUS
  <2> HIDE DEF new
  <2> QED
    BY <2>2, <2>3
<1>2. /\ Len(correlations) < MaxCorrelations /\ Len(correlations) \in Nat
      /\ MaxCorrelations \in Nat
  BY TypeFacts, CorrelationAssumption DEF Untouched
<1>3. IsInjective([i \in DOMAIN correlations |-> Key(correlations[i])])'
  BY <1>1, DistinctIsInjective
<1>4. link.type \in LinkTypes
  <2>1. CASE FromHunk(link)
    <3>1. PICK x \in AllRecords(audit), i \in DOMAIN patch : \E j \in DOMAIN patch[i].hunks :
            Near(x, i, j) /\ link = Link(i, j, x, LinkType(x.line, patch[i].hunks[j]))
      BY <2>1 DEF FromHunk
    <3>2. PICK j \in DOMAIN patch[i].hunks :
            Near(x, i, j) /\ link = Link(i, j, x, LinkType(x.line, patch[i].hunks[j]))
      BY <3>1
    <3> DEFINE type == LinkType(x.line, patch[i].hunks[j])
    <3>3. type \in {"LINE_OVERLAP", "LINE_PROXIMITY", "none"} /\ type # "none"
      BY <3>2, NearIsTouching, TypeFacts
    <3> HIDE DEF type
    <3>4. link.type = type
      BY <3>2 DEF Link, type
    <3> QED
      BY <3>3, <3>4 DEF LinkTypes
  <2>2. CASE FromFile(link)
    BY <2>2 DEF FromFile, Link, LinkTypes
  <2> QED
    BY <2>1, <2>2
<1>5. \A i \in DOMAIN correlations : correlations[i].type \in LinkTypes
  BY DEF TypeOK
<1>6. \A i \in DOMAIN correlations' : correlations'[i].type \in LinkTypes
  BY <1>1, <1>4, <1>5
<1>7. Justified'
  <2>1. \A i \in DOMAIN correlations' : FromHunk(correlations'[i]) \/ FromFile(correlations'[i])
    BY <1>1 DEF Justified
  <2>2. audit' = audit /\ patch' = patch
    BY DEF input
  <2> QED
    BY <2>1, <2>2, SamePlaces DEF Justified, FromHunk, FromFile
<1>8. /\ Len(correlations') \in Nat /\ Len(correlations') <= MaxCorrelations
      /\ Len(correlations') >= MaxCorrelations
           => Len(correlations') = MaxCorrelations /\ correlations'[MaxCorrelations] = link
  BY <1>1, <1>2
<1> QED
  BY <1>1, <1>3, <1>6, <1>7, <1>8

(* What an action that adds no record keeps of the collection. *)
LEMMA CollectionStays ==
  ASSUME IInv, ~Reading, ~Reading', UNCHANGED <<input, records>>
  PROVE  Collected'
<1>1. audit' = audit /\ records' = records
  BY DEF input
<1> QED
  BY <1>1 DEF IInv, Collected

LEMMA MatchHunkInv == IInv /\ MatchHunk => IInv'
<1> SUFFICES ASSUME IInv, MatchHunk
             PROVE  IInv'
  OBVIOUS
<1> USE DEF IInv
<1>1. /\ pc = "hunks" /\ f <= Len(patch) /\ h <= Len(patch[f].hunks) /\ r <= Len(records)
      /\ r' = r + 1 /\ UNCHANGED input /\ audit' = audit /\ patch' = patch
      /\ records' = records /\ d' = d /\ f' = f /\ h' = h /\ c' = c /\ variants' = variants
  BY DEF MatchHunk, Hunks, input
<1>2. ~Reading /\ Linking
  BY <1>1 DEF Reading, Linking
<1>3. /\ f \in DOMAIN patch /\ h \in DOMAIN patch[f].hunks /\ r \in DOMAIN records
      /\ f \in Nat \ {0} /\ h \in Nat \ {0} /\ r \in Nat \ {0}
  <2>1. f \in DOMAIN patch
    BY <1>1, TypeFacts
  <2>2. IsList(patch[f].hunks)
    BY <2>1, TypeFacts
  <2>3. h \in DOMAIN patch[f].hunks
    BY <1>1, <2>2, ElementFacts, TypeFacts
  <2> QED
    BY <1>1, <2>1, <2>3, TypeFacts
<1>4. PICK x \in AllRecords(audit) : x = records[r]
  BY <1>2, <1>3, RecordsAreAll
<1> DEFINE type == LinkType(x.line, patch[f].hunks[h])
           link == Link(f, h, x, type)
<1>5. Near(x, f, h) <=> InFile(x, patch[f]) /\ type # "none"
  BY <1>3, <1>4, NearIsTouching, TypeFacts
<1>6. \A i \in DOMAIN patch, j \in DOMAIN patch[f].hunks, k \in DOMAIN records :
        i \in Nat /\ j \in Nat /\ k \in Nat
  <2>1. IsList(patch[f].hunks)
    BY <1>3, TypeFacts
  <2> QED
    BY <2>1, TypeFacts, ElementFacts
<1>7. Untouched' /\ FilesDone' /\ HunksDone' /\ RecordsDone' /\ NothingMissed' /\ TypeOK' /\ Justified'
  <2>1. CASE ~Near(x, f, h)
    <3>1. hunkMatched' = hunkMatched /\ correlations' = correlations /\ pc' = pc
      BY <1>4, <1>5, <2>1 DEF MatchHunk, Hunks
    <3>2. TypeOK'
      BY <1>1, <1>3, <3>1 DEF TypeOK
    <3>3. Untouched'
      BY <1>1, <3>1 DEF Untouched, Reading, Linking
    <3>4. Justified'
      BY <1>1, <3>1, SamePlaces DEF Justified
    <3>5. FilesDone'
      BY <1>1, <3>1, FilesStayDone DEF FilesDone, Linking
    <3>6. HunksDone'
      <4> SUFFICES /\ \A j \in DOMAIN patch[f].hunks, k \in DOMAIN records :
                        (j < h \/ (j = h /\ k < r + 1)) /\ Near(records[k], f, j)
                          => hunkMatched /\ Reported(f, j, records[k])
                   /\ hunkMatched => ~NoneNear(f)
        <5>1. \A y, i, j : Reported(i, j, y)' <=> Reported(i, j, y)
          BY <3>1 DEF Reported
        <5> QED
          BY <1>1, <3>1, <5>1, SamePlaces DEF HunksDone, Visited
      <4> SUFFICES ASSUME NEW j \in DOMAIN patch[f].hunks, NEW k \in DOMAIN records,
                          j < h \/ (j = h /\ k < r + 1), Near(records[k], f, j)
                   PROVE  hunkMatched /\ Reported(f, j, records[k])
        BY <1>1 DEF HunksDone
      <4>1. ~(j = h /\ k = r)
        BY <1>4, <2>1
      <4>2. Visited(j, k)
        BY <1>3, <1>6, <4>1 DEF Visited
      <4> QED
        BY <1>1, <4>2 DEF HunksDone
    <3>7. RecordsDone' /\ NothingMissed'
      BY <1>1, <3>1 DEF RecordsDone, NothingMissed
    <3> QED
      BY <3>2, <3>3, <3>4, <3>5, <3>6, <3>7
  <2>2. CASE Near(x, f, h)
    <3>1. /\ hunkMatched' = TRUE /\ correlations' = Linked(correlations, link)
          /\ pc' = IF Len(correlations') >= MaxCorrelations THEN "variants" ELSE "hunks"
      BY <1>1, <1>4, <1>5, <2>2 DEF MatchHunk, Hunks, StopAtCap
    <3>2. FromHunk(link)
      BY <1>3, <1>4, <2>2 DEF FromHunk
    <3> HIDE DEF link
    <3>3. /\ IsList(correlations') /\ Len(correlations') \in Nat
          /\ IsInjective([i \in DOMAIN correlations |-> Key(correlations[i])])'
          /\ \A i \in DOMAIN correlations' : correlations'[i].type \in LinkTypes
          /\ Len(correlations') <= MaxCorrelations
          /\ Justified'
          /\ Elements(correlations) \subseteq Elements(correlations')
          /\ \E y \in Elements(correlations') : Key(y) = Key(link)
          /\ Len(correlations') >= MaxCorrelations
               => Len(correlations') = MaxCorrelations /\ correlations'[MaxCorrelations] = link
      BY <1>1, <1>2, <3>1, <3>2, LinkStep
    <3>4. c = 1 /\ variants = <<>>
      BY <1>2 DEF Untouched
    <3>5. TypeOK'
      <4>1. c' \in 1 .. Len(correlations') + 1
        BY <1>1, <3>3, <3>4
      <4>2. pc' \in {"hunks", "variants"}
        BY <3>1
      <4>3. r' \in Nat \ {0}
        BY <1>1, <1>3
      <4> QED
        BY <1>1, <3>1, <3>3, <4>1, <4>2, <4>3 DEF TypeOK
    <3>6. Reported(f, h, x)'
      <4>1. PICK y \in Elements(correlations') : Key(y) = Key(link)
        BY <3>3
      <4>2. y.file = f /\ y.hunk = h /\ y.related = x.related /\ y.source = x.type
        BY <4>1 DEF Key, Link, link
      <4> QED
        BY <1>1, <4>1, <4>2 DEF Reported
    <3>7. \A i, j, y : Reported(i, j, y) => Reported(i, j, y)'
      BY <3>3, LinksKept
    <3>8. \A i : FileDone(i) => FileDone(i)'
      BY <1>1, <3>3, FilesStayDone
    <3>9. FilesDone'
      BY <1>1, <1>2, <3>8 DEF FilesDone
    <3>10. \A j \in DOMAIN patch[f].hunks, k \in DOMAIN records :
             (j < h \/ (j = h /\ k < r + 1)) /\ Near(records[k], f, j)
               => Reported(f, j, records[k])'
      <4> SUFFICES ASSUME NEW j \in DOMAIN patch[f].hunks, NEW k \in DOMAIN records,
                          j < h \/ (j = h /\ k < r + 1), Near(records[k], f, j)
                   PROVE  Reported(f, j, records[k])'
        OBVIOUS
      <4>1. CASE j = h /\ k = r
        BY <1>1, <1>4, <3>6, <4>1 DEF Reported
      <4>2. CASE ~(j = h /\ k = r)
        <5>1. Visited(j, k)
          BY <1>3, <1>6, <4>2 DEF Visited
        <5>2. Reported(f, j, records[k])
          BY <1>1, <5>1 DEF HunksDone
        <5> QED
          BY <1>1, <3>3, <5>2 DEF Reported
      <4> QED
        BY <4>1, <4>2
    <3>11. ~NoneNear(f)
      BY <1>3, <1>4, <2>2 DEF NoneNear
    <3>12. HunksDone'
      BY <1>1, <3>1, <3>10, <3>11, SamePlaces DEF HunksDone, Visited, Reported
    <3>13. Untouched'
      BY <1>1, <3>1, <3>3, <3>4, CorrelationAssumption DEF Untouched, Reading, Linking
    <3>14. RecordsDone'
      BY <3>1 DEF RecordsDone
    <3>15. NothingMissed'
      <4> SUFFICES ASSUME pc' = "variants", NEW i \in DOMAIN patch
                   PROVE  /\ \A y \in AllRecords(audit), j \in DOMAIN patch[i].hunks :
                               Near(y, i, j) => Reported(i, j, y)' \/ Full(i, j)'
                          /\ NoneNear(i) =>
                               \A y \in AllRecords(audit) :
                                 InFile(y, patch[i]) => Reported(i, 0, y)' \/ Full(i, 0)'
        BY <1>1, <3>1, SamePlaces DEF NothingMissed
      <4>1. Len(correlations') = MaxCorrelations /\ correlations'[MaxCorrelations] = link
        BY <3>1, <3>3
      <4>2. link.file = f /\ link.hunk = h
        BY DEF Link, link
      <4>3. \A j : f < i \/ (f = i /\ h <= j) => Full(i, j)'
        BY <4>1, <4>2 DEF Full, Earlier
      <4>4. CASE i < f
        <5>1. FileDone(i)'
          BY <1>2, <3>8, <4>4 DEF FilesDone
        <5>2. \A y \in AllRecords(audit), j \in DOMAIN patch[i].hunks :
                Near(y, i, j) => Reported(i, j, y)'
          BY <1>1, <5>1, SamePlaces DEF FileDone
        <5>3. NoneNear(i) => \A y \in AllRecords(audit) : InFile(y, patch[i]) => Reported(i, 0, y)'
          BY <1>1, <5>1, SamePlaces DEF FileDone
        <5> QED
          BY <5>2, <5>3
      <4>5. CASE f < i
        BY <4>3, <4>5
      <4>6. CASE i = f
        <5>1. \A y \in AllRecords(audit), j \in DOMAIN patch[i].hunks :
                Near(y, i, j) => Reported(i, j, y)' \/ Full(i, j)'
          <6> SUFFICES ASSUME NEW y \in AllRecords(audit), NEW j \in DOMAIN patch[i].hunks,
                              Near(y, i, j), ~(h <= j)
                       PROVE  Reported(i, j, y)'
            BY <4>3, <4>6
          <6>1. j < h
            BY <1>3, <1>6, <4>6
          <6>2. PICK k \in DOMAIN records : records[k] = y
            BY <1>2, RecordsAreAll
          <6>3. Reported(i, j, y)
            BY <1>1, <4>6, <6>1, <6>2 DEF HunksDone, Visited
          <6> QED
            BY <3>7, <6>3
        <5> QED
          BY <3>11, <4>6, <5>1
      <4> QED
        BY <1>3, <1>6, <4>4, <4>5, <4>6
    <3> QED
      BY <3>3, <3>5, <3>9, <3>12, <3>13, <3>14, <3>15
  <2> QED
    BY <2>1, <2>2
<1>8. pc' \in {"hunks", "variants"}
  BY <1>1 DEF MatchHunk, StopAtCap
<1>9. Collected'
  BY <1>1, <1>2, <1>8, CollectionStays DEF Reading
<1>10. ItemsDone'
  <2>1. c = 1 /\ variants = <<>>
    BY <1>2 DEF Untouched
  <2>2. DOMAIN variants = {} /\ 1 .. c - 1 = {}
    BY <2>1
  <2> QED
    BY <1>1, <2>2 DEF ItemsDone
<1>11. EveryLinkHasItsItem'
  BY <1>8 DEF EveryLinkHasItsItem
<1> QED
  BY <1>7, <1>9, <1>10, <1>11

(* An action between two links changes none of them. *)
LEMMA SameLinks ==
  ASSUME UNCHANGED <<input, correlations>>
  PROVE  /\ \A i, j, x : Reported(i, j, x)' <=> Reported(i, j, x)
         /\ \A i, j : Full(i, j)' <=> Full(i, j)
         /\ \A i : FileDone(i)' <=> FileDone(i)
         /\ Justified => Justified'
<1>1. audit' = audit /\ patch' = patch /\ correlations' = correlations
  BY DEF input
<1>2. \A i, j, x : Reported(i, j, x)' <=> Reported(i, j, x)
  BY <1>1 DEF Reported
<1>3. \A i, j : Full(i, j)' <=> Full(i, j)
  BY <1>1 DEF Full
<1>4. \A i : FileDone(i)' <=> FileDone(i)
  BY <1>1, <1>2, SamePlaces DEF FileDone
<1>5. Justified => Justified'
  BY <1>1, SamePlaces DEF Justified
<1> QED
  BY <1>2, <1>3, <1>4, <1>5

LEMMA NextHunkInv == IInv /\ NextHunk => IInv'
<1> SUFFICES ASSUME IInv, NextHunk
             PROVE  IInv'
  OBVIOUS
<1> USE DEF IInv
<1>1. /\ pc = "hunks" /\ f <= Len(patch) /\ r > Len(records)
      /\ h' = h + 1 /\ r' = 1 /\ UNCHANGED input /\ audit' = audit /\ patch' = patch
      /\ pc' = pc /\ records' = records /\ d' = d /\ f' = f /\ hunkMatched' = hunkMatched
      /\ correlations' = correlations /\ c' = c /\ variants' = variants
  BY DEF NextHunk, input
<1>2. ~Reading /\ Linking
  BY <1>1 DEF Reading, Linking
<1>3. h' \in Nat \ {0} /\ r' \in Nat \ {0}
  BY <1>1, TypeFacts
<1>4. TypeOK'
  BY <1>1, <1>3 DEF TypeOK
<1>5. Untouched'
  BY <1>1 DEF Untouched, Reading, Linking
<1>6. Collected'
  BY <1>1, <1>2, CollectionStays DEF Reading
<1>7. Justified' /\ FilesDone'
  BY <1>1, SameLinks DEF FilesDone, Linking
<1>8. HunksDone'
  <2>1. \A j \in DOMAIN patch[f].hunks, k \in DOMAIN records :
          j < h + 1 \/ (j = h + 1 /\ k < 1) => Visited(j, k)
    <3> SUFFICES ASSUME NEW j \in DOMAIN patch[f].hunks, NEW k \in DOMAIN records,
                        j < h + 1 \/ (j = h + 1 /\ k < 1)
                 PROVE  Visited(j, k)
      OBVIOUS
    <3>1. f \in DOMAIN patch
      BY <1>1, TypeFacts
    <3>2. IsList(patch[f].hunks)
      BY <3>1, TypeFacts
    <3>3. j \in Nat
      BY <3>2, ElementFacts
    <3>4. k \in 1 .. Len(records) /\ Len(records) \in Nat /\ h \in Nat /\ r \in Nat
      BY TypeFacts
    <3> QED
      BY <1>1, <3>3, <3>4 DEF Visited
  <2>2. /\ \A j \in DOMAIN patch[f].hunks, k \in DOMAIN records :
             (j < h + 1 \/ (j = h + 1 /\ k < 1)) /\ Near(records[k], f, j)
               => hunkMatched /\ Reported(f, j, records[k])
        /\ hunkMatched => ~NoneNear(f)
    BY <1>1, <2>1 DEF HunksDone
  <2>3. \A y, i, j : Reported(i, j, y)' <=> Reported(i, j, y)
    BY <1>1, SameLinks
  <2> QED
    BY <1>1, <2>2, <2>3, SamePlaces DEF HunksDone, Visited
<1>9. RecordsDone' /\ NothingMissed' /\ ItemsDone' /\ EveryLinkHasItsItem'
  BY <1>1 DEF RecordsDone, NothingMissed, ItemsDone, EveryLinkHasItsItem
<1> QED
  BY <1>4, <1>5, <1>6, <1>7, <1>8, <1>9

(* At the end of the hunks all pairs of hunk and record were visited, so   *)
(* the mark tells whether anything is near.                                *)
LEMMA EndOfHunksInv == IInv /\ EndOfHunks => IInv'
<1> SUFFICES ASSUME IInv, EndOfHunks
             PROVE  IInv'
  OBVIOUS
<1> USE DEF IInv
<1>1. /\ pc = "hunks" /\ f <= Len(patch) /\ h > Len(patch[f].hunks)
      /\ pc' = (IF hunkMatched THEN "hunks" ELSE "file")
      /\ f' = (IF hunkMatched THEN f + 1 ELSE f)
      /\ h' = 1 /\ r' = 1 /\ hunkMatched' = FALSE
      /\ UNCHANGED input /\ audit' = audit /\ patch' = patch
      /\ records' = records /\ d' = d
      /\ correlations' = correlations /\ c' = c /\ variants' = variants
  BY DEF EndOfHunks, Hunks, input
<1>2. ~Reading /\ Linking /\ pc' \in {"hunks", "file"}
  BY <1>1 DEF Reading, Linking
<1>3. f \in DOMAIN patch /\ f' \in 1 .. Len(patch) + 1 /\ f \in Nat
  BY <1>1, TypeFacts
<1>4. TypeOK'
  <2>1. hunkMatched' \in BOOLEAN
    <3>1. hunkMatched' = FALSE
      BY <1>1
    <3> QED
      BY <3>1, Zenon
  <2>2. /\ h' \in Nat \ {0} /\ r' \in Nat \ {0}
        /\ pc' \in {"collect", "hunks", "file", "variants", "done"} /\ pc' # "done"
        /\ audit' = audit /\ patch' = patch /\ records' = records /\ d' = d
        /\ correlations' = correlations /\ c' = c /\ variants' = variants
    BY <1>1, <1>2
  <2> QED
    BY <1>3, <2>1, <2>2 DEF TypeOK
<1>5. Untouched'
  BY <1>1, <1>2 DEF Untouched, Reading, Linking
<1>6. Collected'
  BY <1>1, <1>2, CollectionStays DEF Reading
<1>7. \A y \in AllRecords(audit), j \in DOMAIN patch[f].hunks :
        Near(y, f, j) => hunkMatched /\ Reported(f, j, y)
  <2> SUFFICES ASSUME NEW y \in AllRecords(audit), NEW j \in DOMAIN patch[f].hunks, Near(y, f, j)
               PROVE  hunkMatched /\ Reported(f, j, y)
    OBVIOUS
  <2>1. IsList(patch[f].hunks)
    BY <1>3, TypeFacts
  <2>2. j \in 1 .. Len(patch[f].hunks) /\ Len(patch[f].hunks) \in Nat /\ h \in Nat
    BY <2>1, ElementFacts, TypeFacts
  <2>3. j < h
    BY <1>1, <2>2
  <2>4. PICK k \in DOMAIN records : records[k] = y
    BY <1>2, RecordsAreAll
  <2> QED
    BY <1>1, <2>3, <2>4 DEF HunksDone, Visited
<1>8. hunkMatched <=> ~NoneNear(f)
  BY <1>1, <1>7 DEF HunksDone, NoneNear
<1>9. hunkMatched => FileDone(f)
  BY <1>7, <1>8 DEF FileDone
<1>10. \A i \in DOMAIN patch : i < f' => FileDone(i)
  <2>1. \A i \in DOMAIN patch : i \in Nat
    BY TypeFacts
  <2>2. \A i \in DOMAIN patch : i < f' => i < f \/ (i = f /\ hunkMatched)
    BY <1>1, <1>3, <2>1
  <2> QED
    BY <1>2, <1>9, <2>2 DEF FilesDone
<1>11. FilesDone' /\ Justified'
  BY <1>1, <1>10, SameLinks DEF FilesDone
<1>12. HunksDone'
  <2>1. \A j, k : ~(j \in DOMAIN patch[f'].hunks /\ f' <= Len(patch) /\ j < 1)
    BY <1>3, TypeFacts, ElementFacts
  <2>2. \A k \in DOMAIN records : ~(k < 1)
    BY TypeFacts
  <2> QED
    BY <1>1, <2>1, <2>2 DEF HunksDone, Visited
<1>13. RecordsDone'
  <2>1. \A k \in DOMAIN records : ~(k < 1)
    BY TypeFacts
  <2>2. pc' = "file" => f' = f /\ NoneNear(f)
    BY <1>1, <1>8
  <2> QED
    BY <1>1, <2>1, <2>2, SamePlaces DEF RecordsDone
<1>14. NothingMissed' /\ ItemsDone' /\ EveryLinkHasItsItem'
  BY <1>2 DEF NothingMissed, ItemsDone, EveryLinkHasItsItem
<1> QED
  BY <1>4, <1>5, <1>6, <1>11, <1>12, <1>13, <1>14

LEMMA LinkFileInv == IInv /\ LinkFile => IInv'
<1> SUFFICES ASSUME IInv, LinkFile
             PROVE  IInv'
  OBVIOUS
<1> USE DEF IInv
<1>1. /\ pc = "file" /\ r <= Len(records) /\ r' = r + 1
      /\ UNCHANGED input /\ audit' = audit /\ patch' = patch
      /\ records' = records /\ d' = d /\ f' = f /\ h' = h /\ hunkMatched' = hunkMatched
      /\ c' = c /\ variants' = variants
  BY DEF LinkFile, input
<1>2. ~Reading /\ Linking
  BY <1>1 DEF Reading, Linking
<1>3. /\ f \in DOMAIN patch /\ r \in DOMAIN records /\ NoneNear(f)
      /\ f \in Nat \ {0} /\ h \in Nat \ {0} /\ r \in Nat \ {0}
  <2>1. f <= Len(patch) /\ NoneNear(f)
    BY <1>1 DEF RecordsDone
  <2> QED
    BY <1>1, <2>1, TypeFacts
<1>4. PICK x \in AllRecords(audit) : x = records[r]
  BY <1>2, <1>3, RecordsAreAll
<1>5. \A i \in DOMAIN patch, k \in DOMAIN records : i \in Nat /\ k \in Nat
  BY TypeFacts
<1> DEFINE link == Link(f, 0, x, "SAME_FILE")
<1>6. Untouched' /\ FilesDone' /\ RecordsDone' /\ NothingMissed' /\ TypeOK' /\ Justified'
  <2>1. CASE ~InFile(x, patch[f])
    <3>1. correlations' = correlations /\ pc' = pc
      BY <1>4, <2>1 DEF LinkFile
    <3>2. TypeOK'
      BY <1>1, <1>3, <3>1 DEF TypeOK
    <3>3. Untouched'
      BY <1>1, <3>1 DEF Untouched, Reading, Linking
    <3>4. FilesDone' /\ Justified'
      BY <1>1, <3>1, SameLinks DEF FilesDone, Linking
    <3>5. RecordsDone'
      <4>1. \A k \in DOMAIN records : k < r + 1 => k < r \/ k = r
        BY <1>3, <1>5
      <4>2. \A k \in DOMAIN records :
              k < r + 1 /\ InFile(records[k], patch[f]) => Reported(f, 0, records[k])
        BY <1>1, <1>4, <2>1, <4>1 DEF RecordsDone
      <4>3. \A y, i, j : Reported(i, j, y)' <=> Reported(i, j, y)
        BY <1>1, <3>1, SameLinks
      <4> QED
        BY <1>1, <1>3, <4>2, <4>3, SamePlaces, TypeFacts DEF RecordsDone
    <3>6. NothingMissed'
      BY <1>1, <3>1 DEF NothingMissed
    <3> QED
      BY <3>2, <3>3, <3>4, <3>5, <3>6
  <2>2. CASE InFile(x, patch[f])
    <3>1. /\ correlations' = Linked(correlations, link)
          /\ pc' = IF Len(correlations') >= MaxCorrelations THEN "variants" ELSE "file"
      BY <1>1, <1>4, <2>2 DEF LinkFile, StopAtCap
    <3>2. FromFile(link)
      BY <1>3, <2>2 DEF FromFile
    <3> HIDE DEF link
    <3>3. /\ IsList(correlations') /\ Len(correlations') \in Nat
          /\ IsInjective([i \in DOMAIN correlations |-> Key(correlations[i])])'
          /\ \A i \in DOMAIN correlations' : correlations'[i].type \in LinkTypes
          /\ Len(correlations') <= MaxCorrelations
          /\ Justified'
          /\ Elements(correlations) \subseteq Elements(correlations')
          /\ \E y \in Elements(correlations') : Key(y) = Key(link)
          /\ Len(correlations') >= MaxCorrelations
               => Len(correlations') = MaxCorrelations /\ correlations'[MaxCorrelations] = link
      BY <1>1, <1>2, <3>1, <3>2, LinkStep
    <3>4. c = 1 /\ variants = <<>>
      BY <1>2 DEF Untouched
    <3>5. TypeOK'
      <4>1. c' \in 1 .. Len(correlations') + 1
        BY <1>1, <3>3, <3>4
      <4>2. pc' \in {"file", "variants"}
        BY <3>1
      <4>3. r' \in Nat \ {0}
        BY <1>1, <1>3
      <4> QED
        BY <1>1, <3>1, <3>3, <4>1, <4>2, <4>3 DEF TypeOK
    <3>6. Reported(f, 0, x)'
      <4>1. PICK y \in Elements(correlations') : Key(y) = Key(link)
        BY <3>3
      <4>2. y.file = f /\ y.hunk = 0 /\ y.related = x.related /\ y.source = x.type
        BY <4>1 DEF Key, Link, link
      <4> QED
        BY <1>1, <4>1, <4>2 DEF Reported
    <3>7. \A i, j, y : Reported(i, j, y) => Reported(i, j, y)'
      BY <3>3, LinksKept
    <3>8. \A i : FileDone(i) => FileDone(i)'
      BY <1>1, <3>3, FilesStayDone
    <3>9. FilesDone'
      BY <1>1, <1>2, <3>8 DEF FilesDone
    <3>10. \A k \in DOMAIN records :
             k < r + 1 /\ InFile(records[k], patch[f]) => Reported(f, 0, records[k])'
      <4> SUFFICES ASSUME NEW k \in DOMAIN records, k < r + 1, InFile(records[k], patch[f])
                   PROVE  Reported(f, 0, records[k])'
        OBVIOUS
      <4>1. CASE k = r
        BY <1>1, <1>4, <3>6, <4>1 DEF Reported
      <4>2. CASE k < r
        <5>1. Reported(f, 0, records[k])
          BY <1>1, <4>2 DEF RecordsDone
        <5> QED
          BY <1>1, <3>3, <5>1 DEF Reported
      <4> QED
        BY <1>3, <1>5, <4>1, <4>2
    <3>11. RecordsDone'
      BY <1>1, <1>3, <3>10, SamePlaces, TypeFacts DEF RecordsDone, Reported
    <3>12. Untouched'
      BY <1>1, <3>1, <3>3, <3>4, CorrelationAssumption DEF Untouched, Reading, Linking
    <3>13. NothingMissed'
      <4> SUFFICES ASSUME pc' = "variants", NEW i \in DOMAIN patch
                   PROVE  /\ \A y \in AllRecords(audit), j \in DOMAIN patch[i].hunks :
                               Near(y, i, j) => Reported(i, j, y)' \/ Full(i, j)'
                          /\ NoneNear(i) =>
                               \A y \in AllRecords(audit) :
                                 InFile(y, patch[i]) => Reported(i, 0, y)' \/ Full(i, 0)'
        BY <1>1, <3>1, SamePlaces DEF NothingMissed
      <4>1. Len(correlations') = MaxCorrelations /\ correlations'[MaxCorrelations] = link
        BY <3>1, <3>3
      <4>2. link.file = f /\ link.hunk = 0
        BY DEF Link, link
      <4>3. \A j : f < i \/ (f = i /\ 0 <= j) => Full(i, j)'
        BY <4>1, <4>2 DEF Full, Earlier
      <4>4. CASE i < f
        <5>1. FileDone(i)'
          BY <1>2, <3>8, <4>4 DEF FilesDone
        <5>2. \A y \in AllRecords(audit), j \in DOMAIN patch[i].hunks :
                Near(y, i, j) => Reported(i, j, y)'
          BY <1>1, <5>1, SamePlaces DEF FileDone
        <5>3. NoneNear(i) => \A y \in AllRecords(audit) : InFile(y, patch[i]) => Reported(i, 0, y)'
          BY <1>1, <5>1, SamePlaces DEF FileDone
        <5> QED
          BY <5>2, <5>3
      <4>5. CASE f < i
        BY <4>3, <4>5
      <4>6. CASE i = f
        BY <1>3, <4>3, <4>6 DEF NoneNear
      <4> QED
        BY <1>3, <1>5, <4>4, <4>5, <4>6
    <3> QED
      BY <3>3, <3>5, <3>9, <3>11, <3>12, <3>13
  <2> QED
    BY <2>1, <2>2
<1>7. pc' \in {"file", "variants"}
  BY <1>1 DEF LinkFile, StopAtCap
<1>8. Collected'
  BY <1>1, <1>2, <1>7, CollectionStays DEF Reading
<1>9. ItemsDone'
  <2>1. c = 1 /\ variants = <<>>
    BY <1>2 DEF Untouched
  <2>2. DOMAIN variants = {} /\ 1 .. c - 1 = {}
    BY <2>1
  <2> QED
    BY <1>1, <2>2 DEF ItemsDone
<1>10. HunksDone' /\ EveryLinkHasItsItem'
  BY <1>7 DEF HunksDone, EveryLinkHasItsItem
<1> QED
  BY <1>6, <1>8, <1>9, <1>10

LEMMA NextFileInv == IInv /\ NextFile => IInv'
<1> SUFFICES ASSUME IInv, NextFile
             PROVE  IInv'
  OBVIOUS
<1> USE DEF IInv
<1>1. /\ pc = "file" /\ r > Len(records) /\ pc' = "hunks" /\ f' = f + 1 /\ r' = 1
      /\ UNCHANGED input /\ audit' = audit /\ patch' = patch
      /\ records' = records /\ d' = d /\ h' = h /\ hunkMatched' = hunkMatched
      /\ correlations' = correlations /\ c' = c /\ variants' = variants
  BY DEF NextFile, input
<1>2. ~Reading /\ Linking
  BY <1>1 DEF Reading, Linking
<1>3. f \in DOMAIN patch /\ f' \in 1 .. Len(patch) + 1 /\ f \in Nat
  BY <1>1, TypeFacts DEF RecordsDone
<1>4. h = 1 /\ ~hunkMatched
  BY <1>1 DEF Untouched
<1>5. TypeOK'
  BY <1>1, <1>3 DEF TypeOK
<1>6. Untouched'
  BY <1>1, <1>2 DEF Untouched, Reading, Linking
<1>7. Collected'
  BY <1>1, <1>2, CollectionStays DEF Reading
<1>8. FileDone(f)
  <2>1. NoneNear(f)
    BY <1>1 DEF RecordsDone
  <2>2. \A y \in AllRecords(audit) : InFile(y, patch[f]) => Reported(f, 0, y)
    <3> SUFFICES ASSUME NEW y \in AllRecords(audit), InFile(y, patch[f])
                 PROVE  Reported(f, 0, y)
      OBVIOUS
    <3>1. PICK k \in DOMAIN records : records[k] = y
      BY <1>2, RecordsAreAll
    <3>2. k < r
      BY <1>1, TypeFacts
    <3> QED
      BY <1>1, <3>1, <3>2 DEF RecordsDone
  <2> QED
    BY <2>1, <2>2 DEF FileDone, NoneNear
<1>9. \A i \in DOMAIN patch : i < f' => FileDone(i)
  <2>1. \A i \in DOMAIN patch : i < f + 1 => i < f \/ i = f
    BY <1>3, TypeFacts
  <2> QED
    BY <1>1, <1>2, <1>8, <2>1 DEF FilesDone
<1>10. FilesDone' /\ Justified'
  BY <1>1, <1>9, SameLinks DEF FilesDone
<1>11. HunksDone'
  <2>1. \A j : ~(f' <= Len(patch) /\ j \in DOMAIN patch[f'].hunks /\ j < 1)
    BY <1>3, TypeFacts, ElementFacts
  <2>2. \A k \in DOMAIN records : ~(k < 1)
    BY TypeFacts
  <2> QED
    BY <1>1, <1>4, <2>1, <2>2 DEF HunksDone, Visited
<1>12. RecordsDone' /\ NothingMissed' /\ ItemsDone' /\ EveryLinkHasItsItem'
  BY <1>1 DEF RecordsDone, NothingMissed, ItemsDone, EveryLinkHasItsItem
<1> QED
  BY <1>5, <1>6, <1>7, <1>10, <1>11, <1>12

LEMMA EndOfPatchInv == IInv /\ EndOfPatch => IInv'
<1> SUFFICES ASSUME IInv, EndOfPatch
             PROVE  IInv'
  OBVIOUS
<1> USE DEF IInv
<1>1. /\ pc = "hunks" /\ f > Len(patch) /\ pc' = "variants"
      /\ UNCHANGED input /\ audit' = audit /\ patch' = patch
      /\ records' = records /\ d' = d /\ f' = f /\ h' = h /\ r' = r
      /\ hunkMatched' = hunkMatched
      /\ correlations' = correlations /\ c' = c /\ variants' = variants
  BY DEF EndOfPatch, input
<1>2. ~Reading /\ Linking
  BY <1>1 DEF Reading, Linking
<1>3. c = 1 /\ variants = <<>>
  BY <1>2 DEF Untouched
<1>4. TypeOK'
  BY <1>1 DEF TypeOK
<1>5. Untouched'
  BY <1>1 DEF Untouched, Reading, Linking
<1>6. Collected'
  BY <1>1, <1>2, CollectionStays DEF Reading
<1>7. Justified'
  BY <1>1, SameLinks
<1>8. NothingMissed'
  <2>1. \A i \in DOMAIN patch : i < f
    BY <1>1, TypeFacts
  <2>2. \A i \in DOMAIN patch : FileDone(i)
    BY <1>2, <2>1 DEF FilesDone
  <2> QED
    BY <1>1, <2>2, SameLinks, SamePlaces DEF NothingMissed, FileDone
<1>9. ItemsDone'
  <2>1. DOMAIN variants = {} /\ 1 .. c - 1 = {}
    BY <1>3
  <2> QED
    BY <1>1, <2>1 DEF ItemsDone
<1>10. FilesDone' /\ HunksDone' /\ RecordsDone' /\ EveryLinkHasItsItem'
  BY <1>1 DEF FilesDone, HunksDone, RecordsDone, EveryLinkHasItsItem, Linking
<1> QED
  BY <1>4, <1>5, <1>6, <1>7, <1>8, <1>9, <1>10

LEMMA BuildVariantInv == IInv /\ BuildVariant => IInv'
<1> SUFFICES ASSUME IInv, BuildVariant
             PROVE  IInv'
  OBVIOUS
<1> USE DEF IInv
<1> DEFINE link == correlations[c]
           there == \E i \in DOMAIN variants : VariantKey(variants[i]) = VariantKey(link)
           new == Append(variants, link)
<1>1. /\ pc = "variants" /\ c <= Len(correlations) /\ c' = c + 1
      /\ UNCHANGED input /\ audit' = audit /\ patch' = patch /\ pc' = pc
      /\ records' = records /\ d' = d /\ f' = f /\ h' = h /\ r' = r
      /\ hunkMatched' = hunkMatched /\ correlations' = correlations
      /\ variants' = IF there THEN variants ELSE new
  BY DEF BuildVariant, input
<1>2. ~Reading /\ ~Linking
  BY <1>1 DEF Reading, Linking
<1>3. /\ c \in Nat \ {0} /\ Len(correlations) \in Nat
      /\ c' \in 1 .. Len(correlations) + 1 /\ 1 .. c' - 1 = 1 .. c
  BY <1>1, TypeFacts
<1>4. /\ IsList(variants) /\ DistinctItems(variants)
      /\ Len(variants) \in Nat /\ DOMAIN variants = 1 .. Len(variants)
  BY TypeFacts
<1>5. /\ IsList(new) /\ Len(new) = Len(variants) + 1 /\ DOMAIN new = 1 .. Len(variants) + 1
      /\ \A i \in 1 .. Len(variants) : new[i] = variants[i]
      /\ new[Len(variants) + 1] = link
  BY <1>4, AppendFacts
<1> HIDE DEF new
<1>6. /\ \A m \in DOMAIN variants : \E k \in 1 .. c - 1 : correlations[k] = variants[m]
      /\ \A k \in 1 .. c - 1 : \E m \in DOMAIN variants :
           /\ Represents(variants[m], k)
           /\ \A n \in 1 .. m : \E l \in 1 .. k : correlations[l] = variants[n]
  BY <1>1 DEF ItemsDone
<1>7. /\ IsList(variants') /\ DistinctItems(variants')
      /\ \A m \in DOMAIN variants' : \E k \in 1 .. c : correlations[k] = variants'[m]
      /\ \A k \in 1 .. c : \E m \in DOMAIN variants' :
           /\ Represents(variants'[m], k)
           /\ \A n \in 1 .. m : \E l \in 1 .. k : correlations[l] = variants'[n]
  <2>1. 1 .. c - 1 \subseteq 1 .. c /\ \A k \in 1 .. c : k \in 1 .. c - 1 \/ k = c
    BY <1>3
  <2>2. CASE there
    <3>1. variants' = variants
      BY <1>1, <2>2
    <3>2. \A m \in DOMAIN variants : \E k \in 1 .. c : correlations[k] = variants[m]
      BY <1>6, <2>1
    <3>3. PICK m \in DOMAIN variants : Represents(variants[m], c)
      <4>1. PICK n \in DOMAIN variants : VariantKey(variants[n]) = VariantKey(link)
        BY <2>2
      <4>2. PICK k \in 1 .. c - 1 : correlations[k] = variants[n]
        BY <1>6
      <4>3. PICK m \in DOMAIN variants : Represents(variants[m], k)
        BY <1>6
      <4>4. PICK l \in 1 .. k : /\ variants[m] = correlations[l] /\ IsFirst(l)
                                /\ VariantKey(correlations[l]) = VariantKey(correlations[k])
        BY <4>3 DEF Represents
      <4>5. l \in 1 .. c
        BY <1>3
      <4>6. Represents(variants[m], c)
        BY <4>1, <4>2, <4>4, <4>5 DEF Represents
      <4>7. QED
        BY <4>6
    <3>4. 1 .. m \subseteq DOMAIN variants
      BY <1>4, <3>3
    <3>5. \A n \in 1 .. m : \E l \in 1 .. c : correlations[l] = variants[n]
      BY <3>2, <3>4
    <3>6. \A k \in 1 .. c : \E n \in DOMAIN variants :
            /\ Represents(variants[n], k)
            /\ \A i \in 1 .. n : \E l \in 1 .. k : correlations[l] = variants[i]
      BY <1>6, <2>1, <3>3, <3>5
    <3> QED
      BY <1>4, <3>1, <3>2, <3>6
  <2>3. CASE ~there
    <3>1. variants' = new
      BY <1>1, <2>3
    <3>2. \A m \in DOMAIN new : (m \in DOMAIN variants /\ new[m] = variants[m]) \/ m = Len(variants) + 1
      BY <1>4, <1>5
    <3>3. DistinctItems(new)
      BY <1>4, <1>5, <2>3, <3>2 DEF DistinctItems
    <3>4. c \in 1 .. c
      BY <1>3
    <3>5. \A m \in DOMAIN new : \E k \in 1 .. c : correlations[k] = new[m]
      BY ZenonT(40), <1>5, <1>6, <2>1, <3>2, <3>4
    <3>6. \A k \in 1 .. c : \E m \in DOMAIN new :
            /\ Represents(new[m], k)
            /\ \A n \in 1 .. m : \E l \in 1 .. k : correlations[l] = new[n]
      <4> SUFFICES ASSUME NEW k \in 1 .. c
                   PROVE  \E m \in DOMAIN new :
                            /\ Represents(new[m], k)
                            /\ \A n \in 1 .. m : \E l \in 1 .. k : correlations[l] = new[n]
        OBVIOUS
      <4>1. CASE k \in 1 .. c - 1
        <5>1. PICK m \in DOMAIN variants :
                /\ Represents(variants[m], k)
                /\ \A n \in 1 .. m : \E l \in 1 .. k : correlations[l] = variants[n]
          BY <1>6, <4>1
        <5>2. m \in DOMAIN new /\ new[m] = variants[m] /\ \A n \in 1 .. m : new[n] = variants[n]
          BY <1>4, <1>5
        <5> QED
          BY <5>1, <5>2
      <4>2. CASE k = c
        <5>1. Len(variants) + 1 \in DOMAIN new /\ DOMAIN new = 1 .. Len(variants) + 1
          BY <1>4, <1>5
        <5>2. ASSUME NEW l \in 1 .. c - 1
              PROVE  VariantKey(correlations[l]) # VariantKey(link)
          <6>1. PICK m \in DOMAIN variants : Represents(variants[m], l)
            BY <1>6
          <6>2. VariantKey(variants[m]) = VariantKey(correlations[l])
            BY <6>1 DEF Represents
          <6>3. QED
            BY <2>3, <6>2
        <5>3. IsFirst(c)
          BY <5>2 DEF IsFirst, link
        <5>4. Represents(link, c)
          BY <3>4, <5>3 DEF Represents, link
        <5> QED
          BY <1>5, <3>5, <4>2, <5>1, <5>4
      <4> QED
        BY <2>1, <4>1, <4>2
    <3> QED
      BY <1>5, <3>1, <3>3, <3>5, <3>6
  <2> QED
    BY <2>2, <2>3
<1>8. TypeOK'
  <2>1. IsInjective([i \in DOMAIN variants |-> VariantKey(variants[i])])'
    BY <1>7, DistinctIsInjective
  <2> QED
    BY <1>1, <1>3, <1>7, <2>1 DEF TypeOK
<1>9. Untouched'
  BY <1>1 DEF Untouched, Reading, Linking
<1>10. Collected'
  BY <1>1, <1>2, CollectionStays DEF Reading
<1>11. Justified'
  BY <1>1, SameLinks
<1>12. NothingMissed'
  BY <1>1, SameLinks, SamePlaces DEF NothingMissed
<1>13. ItemsDone'
  <2>1. 1 .. c' - 1 = 1 .. c /\ correlations' = correlations
    BY <1>1, <1>3
  <2> HIDE DEF link, there, new
  <2>2. \A m, k : Represents(variants'[m], k) => Represents(variants[m], k)'
    BY <2>1 DEF Represents, IsFirst
  <2>3. \A k \in 1 .. c : \E m \in DOMAIN variants' :
          /\ Represents(variants[m], k)'
          /\ \A n \in 1 .. m : \E l \in 1 .. k : correlations[l] = variants'[n]
    BY <1>7, <2>2
  <2>4. QED
    BY <1>7, <2>1, <2>3, Zenon DEF ItemsDone
<1>14. FilesDone' /\ HunksDone' /\ RecordsDone' /\ EveryLinkHasItsItem'
  BY <1>1 DEF FilesDone, HunksDone, RecordsDone, EveryLinkHasItsItem, Linking
<1> QED
  BY <1>8, <1>9, <1>10, <1>11, <1>12, <1>13, <1>14

(* The slice takes the items of the earliest links. *)
LEMMA CutVariantsInv == IInv /\ CutVariants => IInv'
<1> SUFFICES ASSUME IInv, CutVariants
             PROVE  IInv'
  OBVIOUS
<1> USE DEF IInv
<1> DEFINE size == IF Len(variants) < MaxVariants THEN Len(variants) ELSE MaxVariants
           cut == SubSeq(variants, 1, size)
<1>1. /\ pc = "variants" /\ c > Len(correlations) /\ pc' = "done" /\ variants' = cut
      /\ UNCHANGED input /\ audit' = audit /\ patch' = patch
      /\ records' = records /\ d' = d /\ f' = f /\ h' = h /\ r' = r
      /\ hunkMatched' = hunkMatched /\ correlations' = correlations /\ c' = c
  BY DEF CutVariants, input
<1>2. ~Reading /\ ~Linking
  BY <1>1 DEF Reading, Linking
<1>3. /\ IsList(variants) /\ DistinctItems(variants)
      /\ Len(variants) \in Nat /\ DOMAIN variants = 1 .. Len(variants)
      /\ MaxVariants \in Nat \ {0}
  BY TypeFacts, CorrelationAssumption
<1>4. /\ size \in Nat /\ size <= Len(variants) /\ size <= MaxVariants
      /\ size = Len(variants) \/ size = MaxVariants
  BY <1>3
<1> HIDE DEF size
<1>within. /\ 1 .. size \subseteq 1 .. Len(variants)
      /\ \A m \in 1 .. Len(variants) :
           \/ m \in 1 .. size
           \/ size = MaxVariants /\ 1 .. size \subseteq 1 .. m
  <2>1. \A n, k, top \in Nat : k <= n /\ (k = n \/ k = top) =>
          /\ 1 .. k \subseteq 1 .. n
          /\ \A m \in 1 .. n : m \in 1 .. k \/ (k = top /\ 1 .. k \subseteq 1 .. m)
    OBVIOUS
  <2> QED
    BY <1>3, <1>4, <2>1
<1>5. /\ IsList(cut) /\ Len(cut) = size /\ DOMAIN cut = 1 .. size
      /\ \A i \in 1 .. size : cut[i] = variants[i]
  <2>1. \A i \in 1 .. size : variants[i] \in {variants[m] : m \in 1 .. size}
    OBVIOUS
  <2>2. /\ cut \in Seq({variants[m] : m \in 1 .. size})
        /\ Len(cut) = IF 1 <= size THEN size - 1 + 1 ELSE 0
        /\ \A i \in 1 .. size - 1 + 1 : cut[i] = variants[1 + i - 1]
    BY <1>4, <2>1, SubSeqProperties
  <2>3. Len(cut) = size /\ size - 1 + 1 = size /\ \A i \in 1 .. size : 1 + i - 1 = i
    BY <1>4, <2>2
  <2> QED
    BY <2>2, <2>3, SequenceIsList, LenProperties
<1> HIDE DEF cut
<1>6. TypeOK'
  <2>1. DistinctItems(cut)
    <3>1. 1 .. size \subseteq DOMAIN variants
      BY <1>within, <1>3
    <3> QED
      BY <1>3, <1>5, <3>1 DEF DistinctItems
  <2>2. IsInjective([i \in DOMAIN variants |-> VariantKey(variants[i])])'
    BY <1>1, <2>1, DistinctIsInjective
  <2> QED
    BY <1>1, <1>4, <1>5, <2>2 DEF TypeOK
<1>7. Untouched'
  BY <1>1 DEF Untouched, Reading, Linking
<1>8. Collected'
  BY <1>1, <1>2, CollectionStays DEF Reading
<1>9. Justified'
  BY <1>1, SameLinks
<1>10. NothingMissed'
  BY <1>1, SameLinks, SamePlaces DEF NothingMissed
<1>11. EveryLinkHasItsItem'
  <2> SUFFICES ASSUME NEW i \in DOMAIN correlations
               PROVE  \/ \E j \in DOMAIN cut, k \in 1 .. i :
                           /\ cut[j] = correlations[k] /\ IsFirst(k)
                           /\ VariantKey(correlations[k]) = VariantKey(correlations[i])
                      \/ /\ Len(cut) = MaxVariants
                         /\ \A j \in DOMAIN cut : \E k \in 1 .. i : correlations[k] = cut[j]
    BY <1>1 DEF EveryLinkHasItsItem, IsFirst
  <2>1. i \in 1 .. c - 1
    BY <1>1, TypeFacts
  <2>2. PICK m \in DOMAIN variants :
          /\ Represents(variants[m], i)
          /\ \A n \in 1 .. m : \E l \in 1 .. i : correlations[l] = variants[n]
    BY <1>1, <2>1 DEF ItemsDone
  <2>3. CASE m \in 1 .. size
    <3>1. m \in DOMAIN cut /\ cut[m] = variants[m]
      BY <1>5, <2>3
    <3>2. QED
      BY <2>2, <3>1 DEF Represents
  <2>4. CASE size = MaxVariants /\ 1 .. size \subseteq 1 .. m
    BY <1>5, <2>2, <2>4
  <2> QED
    BY <1>within, <1>3, <2>3, <2>4
<1>12. FilesDone' /\ HunksDone' /\ RecordsDone' /\ ItemsDone'
  BY <1>1 DEF FilesDone, HunksDone, RecordsDone, ItemsDone, Linking
<1> QED
  BY <1>6, <1>7, <1>8, <1>9, <1>10, <1>11, <1>12

LEMMA StutterInv == IInv /\ UNCHANGED correlationVars => IInv'
<1> SUFFICES ASSUME IInv, UNCHANGED correlationVars
             PROVE  IInv'
  OBVIOUS
<1> USE DEF IInv
<1>1. /\ UNCHANGED input /\ audit' = audit /\ patch' = patch /\ pc' = pc
      /\ records' = records /\ d' = d /\ f' = f /\ h' = h /\ r' = r
      /\ hunkMatched' = hunkMatched /\ correlations' = correlations /\ c' = c
      /\ variants' = variants
  BY DEF correlationVars, stage, input
<1>2. TypeOK' /\ Untouched' /\ Collected'
  BY <1>1 DEF TypeOK, Untouched, Collected, Reading, Linking
<1>3. Justified' /\ FilesDone'
  BY <1>1, SameLinks DEF FilesDone, Linking
<1>4. HunksDone' /\ RecordsDone'
  <2>1. \A y, i, j : Reported(i, j, y)' <=> Reported(i, j, y)
    BY <1>1, SameLinks
  <2> QED
    BY <1>1, <2>1, SamePlaces DEF HunksDone, RecordsDone, Visited
<1>5. NothingMissed'
  BY <1>1, SameLinks, SamePlaces DEF NothingMissed
<1>6. ItemsDone' /\ EveryLinkHasItsItem'
  BY <1>1 DEF ItemsDone, Represents, IsFirst, EveryLinkHasItsItem
<1> QED
  BY <1>2, <1>3, <1>4, <1>5, <1>6

LEMMA NextInv == IInv /\ [CorrelationNext]_correlationVars => IInv'
<1> QED
  BY AddRecordInv, NextDetectionInv, EndOfAuditInv, MatchHunkInv, NextHunkInv,
     EndOfHunksInv, LinkFileInv, NextFileInv, EndOfPatchInv, BuildVariantInv,
     CutVariantsInv, StutterInv
  DEF CorrelationNext

--------------------------------------------------------------------------------
(* The command.                                                            *)

(* The correlation waits, without a patch, for the parser to end. *)
Waiting == parsing # "done" => AtStart /\ patch = <<>>

CommandIInv == ParserIInv /\ IInv /\ Waiting

LEMMA CommandInitInv == Init => CommandIInv
<1> SUFFICES ASSUME Init PROVE CommandIInv
  OBVIOUS
<1>1. ParserInit /\ diff \in Diffs /\ audit \in AuditsOf(diff) /\ patch = <<>> /\ AtStart
  BY DEF Init, ParserInit
<1>2. ParserIInv
  BY <1>1, ParserInitInv
<1>3. IsAudit(audit)
  BY <1>1, AuditsAssumption
<1>4. IsPatch(<<>>)
  BY EmptyList DEF IsPatch
<1>5. IInv
  BY <1>1, <1>3, <1>4, StartInv
<1>6. QED
  BY <1>1, <1>2, <1>5 DEF CommandIInv, Waiting

LEMMA ParseInv == CommandIInv /\ Parse => CommandIInv'
<1> SUFFICES ASSUME CommandIInv, Parse PROVE CommandIInv'
  OBVIOUS
<1>1. /\ ParserIInv /\ IInv /\ Waiting /\ ParserNext /\ audit' = audit /\ UNCHANGED stage
      /\ patch' = IF parsing' = "done" THEN AsPatch(parsed) ELSE patch
  BY DEF CommandIInv, Parse
<1>2. ParserIInv'
  BY <1>1, ParserStepInv
<1>3. parsing = "reading"
  BY <1>1 DEF ParserNext, StartFile, FileMode, RenameLine, NameLine, HunkLine, AddedLine,
              RemovedLine, ContextLine, Ignore, Refuse, Finish, Reads
<1>4. AtStart /\ patch = <<>>
  BY <1>1, <1>3 DEF Waiting
<1>5. AtStart'
  BY <1>1, <1>4 DEF AtStart, stage
<1>6. CASE parsing' = "done"
  <2>1. Typed(parsed) /\ IsAudit(audit)
    BY <1>1 DEF ParserIInv, IInv, TypeOK
  <2>2. IsPatch(patch)' /\ IsAudit(audit)'
    BY <1>1, <1>6, <2>1, RecordsAreAPatch
  <2>3. IInv'
    BY <1>5, <2>2, StartInv, PTL
  <2>4. QED
    BY <1>2, <1>6, <2>3 DEF CommandIInv, Waiting
<1>7. CASE parsing' # "done"
  <2>1. UNCHANGED correlationVars
    BY <1>1, <1>7 DEF correlationVars, input
  <2>2. IInv'
    BY <1>1, <2>1, StutterInv
  <2>3. patch' = <<>>
    BY <1>1, <1>4, <1>7
  <2>4. QED
    BY <1>2, <1>5, <2>2, <2>3 DEF CommandIInv, Waiting
<1>8. QED
  BY <1>6, <1>7

LEMMA CorrelateInv == CommandIInv /\ Correlate => CommandIInv'
<1> SUFFICES ASSUME CommandIInv, Correlate PROVE CommandIInv'
  OBVIOUS
<1>1. ParserIInv /\ IInv /\ parsing = "done" /\ CorrelationNext /\ UNCHANGED parserVars
  BY DEF CommandIInv, Correlate
<1>2. ParserIInv'
  BY <1>1, ParserStutterInv
<1>3. IInv'
  BY <1>1, NextInv
<1>4. parsing' = "done"
  BY <1>1 DEF parserVars
<1>5. QED
  BY <1>2, <1>3, <1>4 DEF CommandIInv, Waiting

(* The invariant that carries everything below.                            *)
THEOREM CommandInvariance == Spec => []CommandIInv
<1>1. CommandIInv /\ UNCHANGED vars => CommandIInv'
  <2> SUFFICES ASSUME CommandIInv, UNCHANGED vars PROVE CommandIInv'
    OBVIOUS
  <2>1. UNCHANGED parserVars /\ UNCHANGED correlationVars
    BY DEF vars
  <2>2. ParserIInv' /\ IInv'
    BY <2>1, ParserStutterInv, StutterInv DEF CommandIInv
  <2>3. parsing' = parsing /\ UNCHANGED stage /\ patch' = patch
    BY <2>1 DEF parserVars, correlationVars, input
  <2>4. Waiting'
    BY <2>3 DEF CommandIInv, Waiting, AtStart, stage
  <2>5. QED
    BY <2>2, <2>4 DEF CommandIInv
<1>2. QED
  BY <1>1, CommandInitInv, ParseInv, CorrelateInv, PTL DEF Spec, Next

(* The command parses as module PatchParser says, so what is proved of     *)
(* parse_unified_diff holds of it.                                         *)
THEOREM CommandParses == Spec => ParserSpec
<1>1. Init => ParserInit
  BY DEF Init
<1>2. [Next]_vars => [ParserNext]_parserVars
  BY DEF Next, vars, Parse, Correlate
<1>3. QED
  BY <1>1, <1>2, PTL DEF Spec, ParserSpec

(* Whatever diff git prints and parse_unified_diff accepts, however its    *)
(* lines are broken, build_patch_diff_result is given what it takes for a  *)
(* patch: nothing below assumes more of the diff.                          *)
THEOREM ParsedFilesAreAPatch == Spec => [](parsing = "done" => IsPatch(patch))
<1>1. CommandIInv => IsPatch(patch)
  BY DEF CommandIInv, IInv, TypeOK
<1> QED
  BY <1>1, CommandInvariance, PTL

(* The variables keep their types, no two links and no two review items    *)
(* have one key, and both caps are kept (_append_correlation,              *)
(* _build_variants).                                                       *)
THEOREM TypeCorrectness == Spec => []TypeOK
<1>1. IInv => TypeOK
  BY DEF IInv
<1> QED
  BY <1>1, CommandInvariance, PTL DEF CommandIInv

(* Every link rests on evidence as near as its type says, every link of a  *)
(* whole file on there being none near (_build_correlations).              *)
THEOREM LinksRestOnEvidence == Spec => []LinksAreJustified
<1>1. IInv => LinksAreJustified
  BY JustificationFollows
<1> QED
  BY <1>1, CommandInvariance, PTL DEF CommandIInv

(* Every hunk is linked to every detection with evidence near it, and a    *)
(* file without such a hunk to each of its detections, up to the cap       *)
(* (_build_correlations, the mark and the two returns at the cap).         *)
THEOREM NothingIsMissed == Spec => []NothingNearIsMissed
<1>1. IInv => NothingNearIsMissed
  BY CompletenessFollows
<1> QED
  BY <1>1, CommandInvariance, PTL DEF CommandIInv

(* Every link has a review item, or the items of earlier links fill the    *)
(* cap (_build_variants and the slice).                                    *)
THEOREM LinksHaveItems == Spec => []EveryLinkHasItsItem
<1>1. IInv => EveryLinkHasItsItem
  BY DEF IInv
<1> QED
  BY <1>1, CommandInvariance, PTL DEF CommandIInv
================================================================================
