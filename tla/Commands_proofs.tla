--------------------------- MODULE Commands_proofs ---------------------------
(* That the leftmost program of PATH runs, and that the status of a command    *)
(* which is not run tells why, whatever happens to the files while it is       *)
(* looked for.                                                                 *)
EXTENDS Commands, SequenceTheorems, NatSetTheorems

(***************************************************************************)
(* The directories of PATH make a sequence of candidates.                  *)
(***************************************************************************)
Elements(s) == {s[k] : k \in DOMAIN s}

\* A function on 1 .. m is a sequence of its values.
LEMMA IsSequence ==
    ASSUME NEW m \in Nat, NEW f, f = [k \in 1 .. m |-> f[k]]
    PROVE  f \in Seq(Elements(f)) /\ Len(f) = m
<1>1. f \in [1 .. m -> Elements(f)]
  BY DEF Elements
<1>2. f \in Seq(Elements(f))
  BY <1>1, SeqDef
<1>3. Len(f) \in Nat /\ DOMAIN f = 1 .. Len(f)
  BY <1>2, LenProperties
<1>4. 1 .. m = 1 .. Len(f)
  BY <1>1, <1>3
<1> QED BY <1>2, <1>3, <1>4

\* x_split cuts a value into as many directories as begin in it.
LEMMA SplitDomain ==
    ASSUME NEW s \in Seq(STRING)
    PROVE  \E m \in Nat : DOMAIN x_split(s) = 1 .. m
<1> DEFINE B == DirBegins(s)
<1>1. Len(s) \in Nat /\ DOMAIN s = 1 .. Len(s)
  BY LenProperties
<1>2. B \subseteq 1 .. Len(s)
  BY <1>1 DEF DirBegins
<1>3. IsFiniteSet(B)
  <2> HIDE DEF B
  <2>1. IsFiniteSet(1 .. Len(s))
    BY <1>1, FS_Interval
  <2> QED BY <1>2, <2>1, FS_Subset
<1>4. Cardinality(B) \in Nat
  BY <1>3, FS_CardinalityType
<1>5. DOMAIN Ordered(B) = 1 .. Cardinality(B)
  BY DEF Ordered
<1>6. DOMAIN x_split(s) = 1 .. Cardinality(B)
  BY <1>5 DEF x_split
<1> QED BY <1>4, <1>6

(***************************************************************************)
(* The invariant.                                                          *)
(***************************************************************************)
\* What is at a path is among what was seen there.
FilesSeen ==
    /\ fs \in [Files -> Kinds] /\ seen \in [Files -> SUBSET Kinds]
    /\ \A p \in Files : fs[p] \in seen[p]

PathTyped == PATH \in Seq(Seq(STRING)) /\ cwd \in Seq(Seq(STRING))

Direct == {"direct", "stat", "direct X_OK"}
AlongPath == {"F_OK", "X_OK"}

\* Where the search is.
SearchAt ==
    /\ i \in Nat /\ candidates \in Seq(Elements(candidates))
    /\ pc = "run_external" => i = 0 /\ candidates = << >>
    /\ pc = "F_OK" => i <= Len(candidates)
    /\ pc \in {"X_OK", "execve", "running"} => i < Len(candidates)
    /\ pc \in Direct => i = 0 /\ Len(candidates) = 1

\* Why the candidates before this one were given up.
GivenUp == \A k \in 1 .. i : PassedOver(candidates[k])

\* What the system calls before this one have told: something is there, and
\* before execve something that can be executed.
Told ==
    /\ pc = "X_OK" => Seen(candidates[i + 1]) \cap Exists # {}
    /\ pc = "execve" => Seen(candidates[i + 1]) \cap (Exists \ {"plain"}) # {}

\* Something that is no reason to go on with the next candidate.
Stops(p) == ~ (Seen(p) \subseteq {"absent", "plain"})

\* The candidate of the moment, if there is one, is neither a program that was
\* there all the time nor a reason to go on.
EndsHere ==
    /\ i + 1 <= Len(candidates) => Seen(candidates[i + 1]) # {"program"}
    /\ i + 1 < Len(candidates) => Stops(candidates[i + 1])

NoneOverlooked ==
    ~ \E k \in DOMAIN candidates :
        /\ Seen(candidates[k]) = {"program"}
        /\ \A j \in 1 .. k - 1 : Seen(candidates[j]) \subseteq {"absent", "plain"}

IInv ==
    /\ FilesSeen /\ PathTyped /\ SearchAt
    /\ pc \in AlongPath \cup {"execve", "running"} => GivenUp
    /\ Told
    /\ pc = "running" => "program" \in Seen(candidates[i + 1])
    /\ pc = "failed" => NoneOverlooked

(***************************************************************************)
(* Files.                                                                  *)
(***************************************************************************)
\* A system call sees one of the kinds, and the history keeps it.
LEMMA IsSeen ==
    ASSUME FilesSeen, NEW p
    PROVE  FileAt(p) \in Kinds /\ FileAt(p) \in Seen(p)
BY DEF FilesSeen, FileAt, Seen, Kinds

\* The errors of access, by what is there.
LEMMA AccessTells ==
    ASSUME FilesSeen, NEW p
    PROVE  /\ access_F_OK(p) = "OK" <=> FileAt(p) \in Exists
           /\ access_F_OK(p) = "ENOENT" <=> FileAt(p) = "absent"
           /\ access_X_OK(p) = "OK" <=> FileAt(p) \in Exists \ {"plain"}
BY IsSeen DEF access_F_OK, access_X_OK, Exists, Kinds

\* What was a reason to pass over a candidate keeps it from being a program
\* that was there all the time.
LEMMA PassedOverFails ==
    ASSUME NEW p, PassedOver(p) PROVE Seen(p) # {"program"}
BY DEF PassedOver, Exists, Kinds

\* A search that ends has overlooked nothing when the candidates up to here
\* were given up and this one, if there is one, is no reason to go on.
LEMMA NothingOverlooked ==
    ASSUME SearchAt, GivenUp, EndsHere
    PROVE  NoneOverlooked
<1>1. i \in Nat /\ Len(candidates) \in Nat /\ DOMAIN candidates = 1 .. Len(candidates)
  BY LenProperties DEF SearchAt
<1>2. SUFFICES ASSUME NEW k \in DOMAIN candidates, Seen(candidates[k]) = {"program"},
                      \A j \in 1 .. k - 1 : Seen(candidates[j]) \subseteq {"absent", "plain"}
               PROVE  FALSE
  BY DEF NoneOverlooked
<1>3. k \in Nat /\ 1 <= k /\ k <= Len(candidates)
  BY <1>1
<1>4. CASE k <= i
  <2>1. k \in 1 .. i
    BY <1>1, <1>3, <1>4
  <2>2. PassedOver(candidates[k])
    BY <2>1 DEF GivenUp
  <2> QED BY <1>2, <2>2, PassedOverFails
<1>5. CASE k = i + 1
  <2>1. i + 1 <= Len(candidates) /\ k = i + 1
    BY <1>1, <1>3, <1>5
  <2> QED BY <1>2, <2>1 DEF EndsHere
<1>6. CASE k > i + 1
  <2>1. i + 1 < Len(candidates)
    BY <1>1, <1>3, <1>6
  <2>2. i + 1 \in 1 .. k - 1
    BY <1>1, <1>3, <1>6
  <2>3. Seen(candidates[i + 1]) \subseteq {"absent", "plain"}
    BY <1>2, <2>2
  <2> QED BY <2>1, <2>3 DEF Stops, EndsHere
<1> QED BY <1>1, <1>3, <1>4, <1>5, <1>6

\* What is known of a path depends on the files and on their history.
LEMMA SameFiles ==
    ASSUME UNCHANGED <<fs, seen>>
    PROVE  /\ FilesSeen <=> FilesSeen'
           /\ \A p : Seen(p)' = Seen(p) /\ (PassedOver(p)' <=> PassedOver(p))
BY DEF FilesSeen, Seen, FileAt, PassedOver

\* A file that changes adds to what was seen.
LEMMA MoreIsSeen ==
    ASSUME FilesSeen, FileChanges
    PROVE  /\ FilesSeen'
           /\ \A p : Seen(p) \subseteq Seen(p)'
           /\ \A p : PassedOver(p) => PassedOver(p)'
<1>1. FilesSeen'
  BY FamiliesAssumption DEF FilesSeen, FileChanges
<1>2. \A p : Seen(p) \subseteq Seen(p)'
  BY DEF FilesSeen, FileChanges, Seen, FileAt
<1>3. \A p : PassedOver(p) => PassedOver(p)'
  BY <1>2 DEF PassedOver
<1> QED BY <1>1, <1>2, <1>3

(***************************************************************************)
(* Steps.                                                                  *)
(***************************************************************************)
\* A session begins at a prompt, having seen what there is.
LEMMA InitInv == Init => IInv
<1> SUFFICES ASSUME Init PROVE IInv
  OBVIOUS
<1>1. PICK k \in DOMAIN Families :
        \E s \in Families[k].scripts, v \in Families[k].PATHs, d \in Families[k].cwds,
           files \in [Files -> Families[k].kinds] :
          script = s /\ PATH = v /\ cwd = d /\ fs = files
  BY DEF Init
<1>2. FilesSeen
  BY <1>1, FamiliesAssumption DEF Init, FilesSeen
<1>3. PathTyped
  BY <1>1, FamiliesAssumption DEF PathTyped
<1>4. SearchAt
  BY EmptySeq DEF Init, SearchAt, Direct
<1> QED BY <1>2, <1>3, <1>4 DEF Init, IInv, Told, AlongPath

\* A command begins with no candidates.
LEMMA ReadLineInv ==
    ASSUME IInv, ReadLine PROVE IInv'
<1>1. FilesSeen'
  BY DEF IInv, FilesSeen, ReadLine
<1>2. PathTyped'
  BY DEF IInv, PathTyped, ReadLine
<1>3. SearchAt'
  BY EmptySeq DEF ReadLine, SearchAt, Direct
<1> QED BY <1>1, <1>2, <1>3 DEF IInv, ReadLine, Told, AlongPath

\* The way to the candidates, or to none.
LEMMA ResolveInv ==
    ASSUME IInv, resolve_executable_path PROVE IInv'
<1> DEFINE cmd == WithoutSlashes(words[1])
           value == get_resolved_path_env
           dirs == x_split(value[1])
<1>1. FilesSeen' /\ PathTyped' /\ i' = 0 /\ candidates = << >>
  BY SameFiles DEF IInv, PathTyped, SearchAt, resolve_executable_path, line
<1>2. CASE pc' = "failed" /\ candidates' = << >>
  <2>1. SearchAt'
    BY <1>1, <1>2, EmptySeq DEF SearchAt, Direct
  <2> QED BY <1>1, <1>2, <2>1 DEF IInv, Told, AlongPath, NoneOverlooked
<1>3. CASE pc' = "direct" /\ candidates' = <<cmd>>
  <2>1. Len(candidates') = 1 /\ candidates' = [k \in 1 .. 1 |-> candidates'[k]]
    BY <1>3
  <2>2. SearchAt'
    BY <1>1, <1>3, <2>1, IsSequence DEF SearchAt, Direct
  <2> QED BY <1>1, <1>3, <2>2 DEF IInv, Told, AlongPath
<1>4. CASE /\ pc' = "F_OK" /\ value # << >>
           /\ candidates' = [k \in DOMAIN dirs |-> build_candidate_path(dirs[k], cmd)]
  <2>1. value \in Seq(Seq(STRING))
    BY DEF IInv, PathTyped, get_resolved_path_env
  <2>2. value[1] \in Seq(STRING)
    <3>1. 1 \in 1 .. Len(value)
      BY <1>4, <2>1, EmptySeq
    <3> QED BY <2>1, <3>1, ElementOfSeq
  <2>3. PICK m \in Nat : DOMAIN dirs = 1 .. m
    BY <2>2, SplitDomain
  <2>4. candidates' = [k \in 1 .. m |-> candidates'[k]]
    BY <1>4, <2>3
  <2>5. candidates' \in Seq(Elements(candidates')) /\ Len(candidates') = m
    BY <2>4, IsSequence
  <2>6. SearchAt'
    BY <1>1, <1>4, <2>5 DEF SearchAt, Direct, Elements
  <2> QED BY <1>1, <1>4, <2>6 DEF IInv, Told, AlongPath, GivenUp
<1> QED BY <1>1, <1>2, <1>3, <1>4 DEF resolve_executable_path, Fail, Go

\* access(path, F_OK) along PATH: on to X_OK, on to the next one, or the end.
LEMMA F_OKInv ==
    ASSUME IInv, check_executable_F_OK PROVE IInv'
<1> DEFINE p == candidates[i + 1]
<1>1. /\ UNCHANGED <<fs, seen, candidates, PATH, cwd>>
      /\ pc = "F_OK" /\ i < Len(candidates)
  BY DEF check_executable_F_OK, line
<1>2. FilesSeen' /\ PathTyped' /\ GivenUp
  BY <1>1, SameFiles DEF IInv, PathTyped, AlongPath
<1>3. i \in Nat /\ Len(candidates) \in Nat /\ candidates \in Seq(Elements(candidates))
  BY LenProperties DEF IInv, SearchAt
<1>4. \A q : Seen(q)' = Seen(q) /\ (PassedOver(q)' <=> PassedOver(q))
  BY <1>1, SameFiles
<1>5. FileAt(p) \in Seen(p)
  BY IsSeen DEF IInv
<1>6. CASE access_F_OK(p) = "OK" /\ pc' = "X_OK" /\ i' = i
  <2>1. Seen(p) \cap Exists # {}
    BY <1>5, <1>6, AccessTells DEF IInv
  <2>2. SearchAt'
    BY <1>1, <1>3, <1>6 DEF SearchAt, Direct, Elements
  <2>3. GivenUp'
    BY <1>1, <1>2, <1>4, <1>6 DEF GivenUp
  <2>4. Told'
    BY <1>1, <1>4, <1>6, <2>1 DEF Told, Candidate
  <2> QED BY <1>2, <1>6, <2>2, <2>3, <2>4 DEF IInv
<1>7. CASE access_F_OK(p) = "ENOENT" /\ pc' = "F_OK" /\ i' = i + 1
  <2>1. PassedOver(p)
    BY <1>5, <1>7, AccessTells DEF IInv, PassedOver
  <2>2. SearchAt'
    BY <1>1, <1>3, <1>7 DEF SearchAt, Direct, Elements
  <2>3. GivenUp'
    <3>1. SUFFICES ASSUME NEW k \in 1 .. i + 1 PROVE PassedOver(candidates[k])
      BY <1>1, <1>4, <1>7 DEF GivenUp
    <3>2. k \in 1 .. i \/ k = i + 1
      BY <1>3
    <3> QED BY <1>2, <2>1, <3>2 DEF GivenUp
  <2> QED BY <1>2, <1>7, <2>2, <2>3 DEF IInv, Told
<1>8. CASE /\ access_F_OK(p) \notin {"OK", "ENOENT"}
           /\ pc' = "failed" /\ i' = i
  <2>1. Seen(p) # {"program"} /\ Stops(p)
    <3>1. FileAt(p) \in Kinds /\ FileAt(p) \notin Exists \cup {"absent"}
      BY <1>8, IsSeen, AccessTells DEF IInv
    <3> QED BY <1>5, <3>1 DEF Stops, Exists
  <2>2. EndsHere
    BY <2>1 DEF EndsHere
  <2>3. NoneOverlooked
    BY <1>2, <2>2, NothingOverlooked DEF IInv
  <2>4. NoneOverlooked'
    BY <1>1, <1>4, <2>3 DEF NoneOverlooked
  <2>5. SearchAt'
    BY <1>1, <1>3, <1>8 DEF SearchAt, Direct, Elements
  <2> QED BY <1>2, <1>8, <2>4, <2>5 DEF IInv, Told, AlongPath
<1> QED BY <1>6, <1>7, <1>8 DEF check_executable_F_OK, Candidate, Go, Fail, GoesOn

\* access(path, X_OK) along PATH: on to execve, or to the next one.
LEMMA X_OKInv ==
    ASSUME IInv, check_executable_X_OK PROVE IInv'
<1> DEFINE p == candidates[i + 1]
<1>1. /\ UNCHANGED <<fs, seen, candidates, PATH, cwd>>
      /\ pc = "X_OK"
  BY DEF check_executable_X_OK, line
<1>2. FilesSeen' /\ PathTyped' /\ GivenUp /\ i < Len(candidates)
  BY <1>1, SameFiles DEF IInv, PathTyped, AlongPath, SearchAt
<1>3. i \in Nat /\ Len(candidates) \in Nat /\ candidates \in Seq(Elements(candidates))
  BY LenProperties DEF IInv, SearchAt
<1>4. \A q : Seen(q)' = Seen(q) /\ (PassedOver(q)' <=> PassedOver(q))
  BY <1>1, SameFiles
<1>5. FileAt(p) \in Seen(p) /\ FileAt(p) \in Kinds /\ Seen(p) \cap Exists # {}
  BY <1>1, IsSeen DEF IInv, Told, Candidate
<1>6. CASE access_X_OK(p) = "OK" /\ pc' = "execve" /\ i' = i
  <2>1. Seen(p) \cap (Exists \ {"plain"}) # {}
    BY <1>5, <1>6, AccessTells DEF IInv
  <2>2. SearchAt'
    BY <1>1, <1>2, <1>3, <1>6 DEF SearchAt, Direct, Elements
  <2>3. GivenUp'
    BY <1>1, <1>2, <1>4, <1>6 DEF GivenUp
  <2>4. Told'
    BY <1>1, <1>4, <1>6, <2>1 DEF Told, Candidate
  <2> QED BY <1>2, <1>6, <2>2, <2>3, <2>4 DEF IInv
<1>7. CASE access_X_OK(p) # "OK" /\ pc' = "F_OK" /\ i' = i + 1
  <2>1. FileAt(p) \in {"absent", "denied", "notdir", "plain"}
    BY <1>5, <1>7, AccessTells DEF IInv, Exists
  <2>2. PassedOver(p)
    BY <1>5, <2>1 DEF PassedOver
  <2>3. SearchAt'
    BY <1>1, <1>2, <1>3, <1>7 DEF SearchAt, Direct, Elements
  <2>4. GivenUp'
    <3>1. SUFFICES ASSUME NEW k \in 1 .. i + 1 PROVE PassedOver(candidates[k])
      BY <1>1, <1>4, <1>7 DEF GivenUp
    <3>2. k \in 1 .. i \/ k = i + 1
      BY <1>3
    <3> QED BY <1>2, <2>2, <3>2 DEF GivenUp
  <2> QED BY <1>2, <1>7, <2>3, <2>4 DEF IInv, Told
<1> QED BY <1>6, <1>7 DEF check_executable_X_OK, Candidate, Go

\* The end of PATH: every candidate was given up.
LEMMA SearchEndInv ==
    ASSUME IInv, search_path_env_or_exit PROVE IInv'
<1>1. /\ UNCHANGED <<fs, seen, candidates, i, PATH, cwd>>
      /\ pc = "F_OK" /\ i = Len(candidates) /\ pc' = "failed"
  BY DEF search_path_env_or_exit, line, Fail
<1>2. FilesSeen' /\ PathTyped' /\ GivenUp
  BY <1>1, SameFiles DEF IInv, PathTyped, AlongPath
<1>3. i \in Nat /\ candidates \in Seq(Elements(candidates))
  BY DEF IInv, SearchAt
<1>4. EndsHere
  BY <1>1, <1>3 DEF EndsHere
<1>5. NoneOverlooked
  BY <1>2, <1>4, NothingOverlooked DEF IInv
<1>6. NoneOverlooked'
  BY <1>1, <1>5, SameFiles DEF NoneOverlooked
<1>7. SearchAt'
  BY <1>1, <1>3 DEF SearchAt, Direct, Elements
<1> QED BY <1>1, <1>2, <1>6, <1>7 DEF IInv, Told, AlongPath

\* The path the command is called by: on to the next system call, or the end.
LEMMA DirectInv ==
    ASSUME IInv, verify_direct_path_or_exit PROVE IInv'
<1> DEFINE p == candidates[i + 1]
<1>1. /\ UNCHANGED <<fs, seen, candidates, i, PATH, cwd>>
      /\ pc \in Direct
  BY DEF verify_direct_path_or_exit, line, Direct
<1>2. FilesSeen' /\ PathTyped' /\ i = 0 /\ Len(candidates) = 1
  BY <1>1, SameFiles DEF IInv, PathTyped, SearchAt
<1>3. GivenUp /\ GivenUp'
  BY <1>1, <1>2 DEF GivenUp
<1>4. candidates \in Seq(Elements(candidates))
  BY DEF IInv, SearchAt
<1>5. FileAt(p) \in Seen(p)
  BY IsSeen DEF IInv
<1>6. CASE pc' \in Direct
  <2>1. SearchAt'
    BY <1>1, <1>2, <1>4, <1>6 DEF SearchAt, Direct, Elements
  <2> QED BY <1>2, <1>6, <2>1 DEF IInv, Told, AlongPath, Direct
<1>7. CASE pc' = "execve" /\ access_X_OK(p) = "OK"
  <2>1. Seen(p) \cap (Exists \ {"plain"}) # {}
    BY <1>5, <1>7, AccessTells DEF IInv
  <2>2. SearchAt'
    <3>1. i' \in Nat /\ i' < Len(candidates')
      BY <1>1, <1>2
    <3> QED BY <1>1, <1>4, <1>7, <3>1 DEF SearchAt, Direct, Elements
  <2>3. Told'
    BY <1>1, <1>7, <2>1, SameFiles DEF Told, Candidate
  <2> QED BY <1>2, <1>3, <1>7, <2>2, <2>3 DEF IInv
<1>8. CASE pc' = "failed" /\ FileAt(p) # "program"
  <2>1. EndsHere
    BY <1>2, <1>5, <1>8 DEF EndsHere
  <2>2. NoneOverlooked
    BY <1>3, <2>1, NothingOverlooked DEF IInv
  <2>3. NoneOverlooked'
    BY <1>1, <2>2, SameFiles DEF NoneOverlooked
  <2>4. SearchAt'
    BY <1>1, <1>2, <1>4, <1>8 DEF SearchAt, Direct, Elements
  <2> QED BY <1>2, <1>8, <2>3, <2>4 DEF IInv, Told, AlongPath
<1>9. CASE pc = "direct"
  <2>1. pc' \in Direct \/ (pc' = "failed" /\ access_F_OK(p) # "OK")
    BY <1>9 DEF verify_direct_path_or_exit, Candidate, Go, Fail, Direct
  <2>2. access_F_OK(p) # "OK" => FileAt(p) # "program"
    BY AccessTells DEF IInv, Exists, Kinds
  <2> QED BY <1>6, <1>8, <2>1, <2>2
<1>10. CASE pc = "stat"
  <2>1. \/ pc' \in Direct
        \/ pc' = "failed" /\ (access_F_OK(p) # "OK" \/ FileAt(p) = "directory")
    BY <1>10 DEF verify_direct_path_or_exit, Candidate, Go, Fail, Direct
  <2>2. access_F_OK(p) # "OK" => FileAt(p) # "program"
    BY AccessTells DEF IInv, Exists, Kinds
  <2> QED BY <1>6, <1>8, <2>1, <2>2
<1>11. CASE pc = "direct X_OK"
  <2>1. \/ pc' = "execve" /\ access_X_OK(p) = "OK"
        \/ pc' = "failed" /\ access_X_OK(p) # "OK"
    BY <1>11 DEF verify_direct_path_or_exit, Candidate, Go, Fail
  <2>2. access_X_OK(p) # "OK" => FileAt(p) # "program"
    BY AccessTells DEF IInv, Exists, Kinds
  <2> QED BY <1>7, <1>8, <2>1, <2>2
<1> QED BY <1>1, <1>9, <1>10, <1>11 DEF Direct

\* execve runs what is a program when it is called, and fails otherwise.
LEMMA ExecveInv ==
    ASSUME IInv, run_external PROVE IInv'
<1> DEFINE p == candidates[i + 1]
<1>1. /\ UNCHANGED <<fs, seen, candidates, i, PATH, cwd>>
      /\ pc = "execve"
  BY DEF run_external, line
<1>2. FilesSeen' /\ PathTyped' /\ GivenUp /\ i < Len(candidates)
  BY <1>1, SameFiles DEF IInv, PathTyped, AlongPath, SearchAt
<1>3. i \in Nat /\ candidates \in Seq(Elements(candidates))
  BY DEF IInv, SearchAt
<1>4. FileAt(p) \in Seen(p) /\ Seen(p) \cap (Exists \ {"plain"}) # {}
  BY <1>1, IsSeen DEF IInv, Told, Candidate
<1>5. CASE pc' = "running" /\ FileAt(p) = "program"
  <2>1. SearchAt'
    BY <1>1, <1>2, <1>3, <1>5 DEF SearchAt, Direct, Elements
  <2>2. GivenUp' /\ Seen(p)' = Seen(p)
    BY <1>1, <1>2, SameFiles DEF GivenUp
  <2>3. "program" \in Seen(candidates[i + 1])'
    BY <1>1, <1>4, <1>5, SameFiles
  <2> QED BY <1>2, <1>5, <2>1, <2>2, <2>3 DEF IInv, Told
<1>6. CASE pc' = "failed" /\ FileAt(p) # "program"
  <2>1. Seen(p) # {"program"} /\ Stops(p)
    BY <1>4, <1>6 DEF Stops, Exists
  <2>2. EndsHere
    BY <2>1 DEF EndsHere
  <2>3. NoneOverlooked
    BY <1>2, <2>2, NothingOverlooked DEF IInv
  <2>4. NoneOverlooked'
    BY <1>1, <2>3, SameFiles DEF NoneOverlooked
  <2>5. SearchAt'
    BY <1>1, <1>3, <1>6 DEF SearchAt, Direct, Elements
  <2> QED BY <1>2, <1>6, <2>4, <2>5 DEF IInv, Told, AlongPath
<1> QED BY <1>5, <1>6 DEF run_external, Candidate, Go, Fail

\* A file that changes takes back nothing that a system call has told.
LEMMA FileChangesInv ==
    ASSUME IInv, FileChanges PROVE IInv'
<1>1. UNCHANGED <<candidates, i, pc, PATH, cwd>> /\ pc \in Looking
  BY DEF FileChanges, line
<1>2. FilesSeen' /\ PathTyped'
  BY <1>1, MoreIsSeen DEF IInv, PathTyped
<1>3. SearchAt'
  BY <1>1 DEF IInv, SearchAt, Elements
<1>4. GivenUp => GivenUp'
  BY <1>1, MoreIsSeen DEF IInv, GivenUp
<1>5. Told'
  <2>1. Seen(candidates[i + 1]) \subseteq Seen(candidates[i + 1])'
    BY <1>1, MoreIsSeen DEF IInv
  <2> QED BY <1>1, <2>1 DEF IInv, Told, Candidate
<1> QED BY <1>1, <1>2, <1>3, <1>4, <1>5 DEF IInv, Looking

\* What happens outside the search leaves its files and candidates alone.
LEMMA OtherInv ==
    ASSUME IInv, UNCHANGED <<fs, seen, candidates, i, PATH, cwd>>,
           pc' \in {"exited", "prompt", "left"}
    PROVE  IInv'
<1>1. FilesSeen' /\ PathTyped'
  BY SameFiles DEF IInv, PathTyped
<1>2. SearchAt'
  BY DEF IInv, SearchAt, Direct, Elements
<1> QED BY <1>1, <1>2 DEF IInv, Told, AlongPath

\* A step that changes nothing.
LEMMA StutterInv ==
    ASSUME IInv, UNCHANGED vars PROVE IInv'
<1>1. UNCHANGED <<fs, seen, candidates, i, pc, PATH, cwd>>
  BY DEF vars
<1>2. FilesSeen' /\ PathTyped' /\ SearchAt'
  BY <1>1, SameFiles DEF IInv, PathTyped, SearchAt, Elements
<1>3. (GivenUp <=> GivenUp') /\ (NoneOverlooked <=> NoneOverlooked')
  BY <1>1, SameFiles DEF GivenUp, NoneOverlooked
<1>4. Seen(candidates[i + 1])' = Seen(candidates[i + 1])
  BY <1>1, SameFiles
<1> QED BY <1>1, <1>2, <1>3, <1>4 DEF IInv, Told

\* Every step keeps the invariant.
LEMMA StepInv ==
    ASSUME IInv, [Next]_vars PROVE IInv'
<1>1. CASE ReadLine
  BY <1>1, ReadLineInv
<1>2. CASE resolve_executable_path
  BY <1>2, ResolveInv
<1>3. CASE check_executable_F_OK
  BY <1>3, F_OKInv
<1>4. CASE check_executable_X_OK
  BY <1>4, X_OKInv
<1>5. CASE search_path_env_or_exit
  BY <1>5, SearchEndInv
<1>6. CASE verify_direct_path_or_exit
  BY <1>6, DirectInv
<1>7. CASE run_external
  BY <1>7, ExecveInv
<1>8. CASE FileChanges
  BY <1>8, FileChangesInv
<1>9. CASE ProgramExits
  BY <1>9, OtherInv DEF ProgramExits, line
<1>10. CASE wait_children_status
  BY <1>10, OtherInv DEF wait_children_status, line
<1>11. CASE handle_too_many_args
  <2>1. UNCHANGED <<fs, seen, candidates, i, PATH, cwd>>
    BY <1>11 DEF handle_too_many_args, line
  <2>2. pc' \in {"exited", "prompt", "left"}
    BY <1>11 DEF handle_too_many_args, Leave
  <2> QED BY <2>1, <2>2, OtherInv
<1>12. CASE builtin_exit
  <2>1. UNCHANGED <<fs, seen, candidates, i, PATH, cwd>>
    BY <1>12 DEF builtin_exit, line
  <2>2. pc' \in {"exited", "prompt", "left"}
    BY <1>12 DEF builtin_exit, Leave
  <2> QED BY <2>1, <2>2, OtherInv
<1>13. CASE UNCHANGED vars
  BY <1>13, StutterInv
<1> QED BY <1>1, <1>2, <1>3, <1>4, <1>5, <1>6, <1>7, <1>8, <1>9, <1>10, <1>11, <1>12,
           <1>13 DEF Next

(***************************************************************************)
(* The theorem.                                                            *)
(***************************************************************************)
\* However often and wherever files change while a program is looked for, and
\* whatever PATH holds: what runs is the leftmost program, and a program that
\* was there all the time behind missing and plain files only is run.
THEOREM LeftmostProgramRuns == Spec => []LeftmostRuns
<1>1. IInv => LeftmostRuns
  BY DEF IInv, LeftmostRuns, NoneOverlooked, GivenUp, AlongPath, Candidate
<1>2. Init => IInv
  BY InitInv
<1>3. IInv /\ [Next]_vars => IInv'
  BY StepInv
<1> QED BY <1>1, <1>2, <1>3, PTL DEF Spec

(***************************************************************************)
(* The directories of PATH are what is between its colons.                 *)
(***************************************************************************)
\* How many of S there are up to m.
UpTo(S, m) == Cardinality({j \in S : j <= m})

\* The more of S, the further.
LEMMA UpToGrows ==
    ASSUME NEW S, S \subseteq Nat, IsFiniteSet(S), NEW a \in S, NEW b \in S, a < b
    PROVE  UpTo(S, a) # UpTo(S, b)
<1> DEFINE A == {j \in S : j <= a}
           B == {j \in S : j <= b}
<1>1. A \subseteq B /\ b \in B /\ b \notin A /\ B \subseteq S
  <2>1. \A j \in S : j <= a => j <= b
    OBVIOUS
  <2>2. b <= b /\ ~ (b <= a)
    OBVIOUS
  <2> QED BY <2>1, <2>2
<1>2. IsFiniteSet(B)
  <2> HIDE DEF A, B
  <2> QED BY <1>1, FS_Subset
<1>3. Cardinality(A) # Cardinality(B)
  <2> HIDE DEF A, B
  <2>1. Cardinality(B) = Cardinality(A) => B = A
    BY <1>1, <1>2, FS_Subset
  <2> QED BY <1>1, <2>1
<1> QED BY <1>3 DEF UpTo

\* Ordered lists all of a set.
LEMMA OrderedLists ==
    ASSUME NEW S, S \subseteq Nat, IsFiniteSet(S)
    PROVE  /\ DOMAIN Ordered(S) = 1 .. Cardinality(S)
           /\ \A k \in DOMAIN Ordered(S) : Ordered(S)[k] \in S
           /\ \A m \in S : \E k \in DOMAIN Ordered(S) : Ordered(S)[k] = m
           /\ \A k \in DOMAIN Ordered(S) : UpTo(S, Ordered(S)[k]) = k
<1>1. Cardinality(S) \in Nat /\ DOMAIN Ordered(S) = 1 .. Cardinality(S)
  BY FS_CardinalityType DEF Ordered
<1>2. \A k \in DOMAIN Ordered(S) :
        Ordered(S)[k] = CHOOSE m \in S : UpTo(S, m) = k
  BY DEF Ordered, UpTo
<1>3. ASSUME NEW k \in DOMAIN Ordered(S)
      PROVE  Ordered(S)[k] \in S /\ UpTo(S, Ordered(S)[k]) = k
  <2>1. k - 1 \in Nat /\ k - 1 < Cardinality(S) /\ k \in Nat
    BY <1>1
  <2>2. PICK x \in S : Cardinality({y \in S : y < x}) = k - 1
    BY <2>1, NthExists
  <2> DEFINE B == {y \in S : y < x}
  <2>3. {j \in S : j <= x} = B \cup {x} /\ x \notin B /\ B \subseteq S
    <3>1. \A j \in S : (j <= x <=> j < x \/ j = x) /\ ~ (x < x)
      OBVIOUS
    <3> QED BY <3>1
  <2>4. IsFiniteSet(B)
    <3> HIDE DEF B
    <3> QED BY <2>3, FS_Subset
  <2>5. Cardinality(B \cup {x}) = Cardinality(B) + 1
    <3> HIDE DEF B
    <3> QED BY <2>3, <2>4, FS_AddElement
  <2>6. UpTo(S, x) = k
    BY <2>1, <2>2, <2>3, <2>5 DEF UpTo
  <2> QED BY <1>2, <2>2, <2>6
<1>4. ASSUME NEW m \in S
      PROVE  \E k \in DOMAIN Ordered(S) : Ordered(S)[k] = m
  <2> DEFINE B == {j \in S : j <= m}
             k == UpTo(S, m)
  <2>1. B \subseteq S /\ m \in B
    OBVIOUS
  <2>2. IsFiniteSet(B) /\ Cardinality(B) <= Cardinality(S)
    <3> HIDE DEF B
    <3> QED BY <2>1, FS_Subset
  <2>3. Cardinality(B) \in Nat /\ Cardinality(B) # 0
    <3> HIDE DEF B
    <3> QED BY <2>1, <2>2, FS_CardinalityType, FS_EmptySet
  <2>4. k \in DOMAIN Ordered(S)
    BY <1>1, <2>2, <2>3 DEF UpTo
  <2>5. Ordered(S)[k] \in S /\ UpTo(S, Ordered(S)[k]) = k
    BY <1>3, <2>4
  <2>6. Ordered(S)[k] = m
    <3> DEFINE x == Ordered(S)[k]
    <3>1. x \in Nat /\ m \in Nat /\ x \in S /\ UpTo(S, x) = UpTo(S, m)
      BY <2>5
    <3> HIDE DEF x, k
    <3>2. ~ (x < m) /\ ~ (m < x)
      BY <3>1, UpToGrows
    <3>3. x = m
      BY <3>1, <3>2
    <3> QED BY <3>3 DEF x
  <2> QED BY <2>4, <2>6
<1> QED BY <1>1, <1>3, <1>4

\* In order, an interval counts.
LEMMA OrderedInterval ==
    ASSUME NEW a \in Nat, NEW b \in Nat, a <= b
    PROVE  Ordered(a .. b) = [k \in 1 .. b - a + 1 |-> a + k - 1]
<1> DEFINE S == a .. b
<1>1. S \subseteq Nat /\ IsFiniteSet(S) /\ Cardinality(S) = b - a + 1
  BY FS_Interval
<1>2. \A m \in S : UpTo(S, m) = m - a + 1
  <2>1. ASSUME NEW m \in S PROVE UpTo(S, m) = m - a + 1
    <3>1. {j \in S : j <= m} = a .. m /\ m \in Int /\ a <= m
      OBVIOUS
    <3>2. Cardinality(a .. m) = m - a + 1
      BY <3>1, FS_Interval
    <3> QED BY <3>1, <3>2 DEF UpTo
  <2> QED BY <2>1
<1>3. DOMAIN Ordered(S) = 1 .. b - a + 1
  <2> HIDE DEF S
  <2> QED BY <1>1, OrderedLists
<1>4. \A k \in DOMAIN Ordered(S) : Ordered(S)[k] \in S /\ UpTo(S, Ordered(S)[k]) = k
  <2> HIDE DEF S
  <2> QED BY <1>1, OrderedLists
<1>5. \A k \in 1 .. b - a + 1 : Ordered(S)[k] = a + k - 1
  <2>1. ASSUME NEW k \in 1 .. b - a + 1 PROVE Ordered(S)[k] = a + k - 1
    <3> DEFINE x == Ordered(S)[k]
    <3>1. x \in S /\ UpTo(S, x) = k
      BY <1>3, <1>4
    <3>2. x - a + 1 = k /\ x \in Nat
      BY <1>1, <1>2, <3>1
    <3> HIDE DEF x
    <3>3. x = a + k - 1
      BY <3>2
    <3> QED BY <3>3 DEF x
  <2> QED BY <2>1
<1> QED BY <1>3, <1>5 DEF Ordered

\* The colons up to k, and what stands behind c colons.
Colons(s, k) == Cardinality({j \in 1 .. k : s[j] = ":"})
Block(s, c) == {k \in DOMAIN s : s[k] # ":" /\ Colons(s, k) = c}
Dir(s, c) == LET at == Ordered(Block(s, c)) IN [k \in DOMAIN at |-> s[at[k]]]

\* As many colons up to j as up to k: none between them.
LEMMA SameColons ==
    ASSUME NEW s, NEW j \in Nat, NEW k \in Nat, j <= k
    PROVE  Colons(s, j) = Colons(s, k) <=> \A m \in j + 1 .. k : s[m] # ":"
<1> DEFINE A == {m \in 1 .. j : s[m] = ":"}
           B == {m \in 1 .. k : s[m] = ":"}
<1>1. A \subseteq B /\ B \subseteq 1 .. k
  OBVIOUS
<1>2. IsFiniteSet(1 .. k)
  BY FS_Interval
<1>3. IsFiniteSet(B) /\ (Cardinality(B) = Cardinality(A) <=> B = A)
  <2> HIDE DEF A, B
  <2> QED BY <1>1, <1>2, FS_Subset
<1>4. B = A <=> \A m \in j + 1 .. k : s[m] # ":"
  <2>1. ASSUME NEW m \in j + 1 .. k PROVE m \in 1 .. k /\ m \notin 1 .. j
    OBVIOUS
  <2>2. ASSUME NEW m \in 1 .. k, m \notin 1 .. j PROVE m \in j + 1 .. k
    <3>1. m \in Int /\ 1 <= m /\ m <= k /\ ~ (m <= j)
      BY <2>2
    <3> QED BY <3>1
  <2> QED BY <1>1, <2>1, <2>2
<1> QED BY <1>3, <1>4 DEF Colons
\* No colon from b to e, but behind e, if anything is.
UpToColon(s, b, e) ==
    /\ \A m \in b .. e : s[m] # ":"
    /\ e = Len(s) \/ s[e + 1] = ":"

\* A block is what stands from where a directory begins to the next colon.
LEMMA BlockIs ==
    ASSUME NEW s \in Seq(STRING), NEW b \in DirBegins(s), NEW e \in b .. Len(s), UpToColon(s, b, e)
    PROVE  Block(s, Colons(s, b)) = b .. e
<1>1. Len(s) \in Nat /\ DOMAIN s = 1 .. Len(s)
  BY LenProperties
<1>2. b \in 1 .. Len(s) /\ s[b] # ":" /\ (b = 1 \/ s[b - 1] = ":")
  BY <1>1 DEF DirBegins
<1>3. b \in Nat /\ e \in Nat /\ b <= e /\ e <= Len(s)
  BY <1>1, <1>2
<1>4. ASSUME NEW k \in b .. e PROVE k \in Block(s, Colons(s, b))
  <2>1. \A m \in b + 1 .. k : s[m] # ":"
    <3>1. \A m \in b + 1 .. k : m \in b .. e
      BY <1>3
    <3> QED BY <3>1 DEF UpToColon
  <2>2. Colons(s, b) = Colons(s, k)
    <3>1. b \in Nat /\ k \in Nat /\ b <= k
      BY <1>2
    <3> QED BY <2>1, <3>1, SameColons
  <2>3. k \in DOMAIN s
    <3>1. k \in Nat /\ 1 <= k /\ k <= Len(s)
      BY <1>2, <1>3
    <3> QED BY <1>1, <3>1
  <2>4. s[k] # ":"
    BY DEF UpToColon
  <2> QED BY <2>2, <2>3, <2>4 DEF Block
<1>5. ASSUME NEW k \in Block(s, Colons(s, b)) PROVE k \in b .. e
  <2>1. k \in 1 .. Len(s) /\ s[k] # ":" /\ Colons(s, k) = Colons(s, b)
    BY <1>1 DEF Block
  <2>2. ASSUME k < b PROVE FALSE
    <3>1. s[b - 1] = ":"
      BY <1>2, <2>1, <2>2
    <3>2. k # b - 1
      BY <2>1, <3>1
    <3>3. b - 1 \in k + 1 .. b /\ k \in Nat /\ b \in Nat /\ k <= b
      BY <1>2, <2>1, <2>2, <3>2
    <3> QED BY <2>1, <3>1, <3>3, SameColons
  <2>3. ASSUME k > e PROVE FALSE
    <3>1. s[e + 1] = ":"
      <4>1. e # Len(s)
        BY <1>3, <2>1, <2>3
      <4> QED BY <4>1 DEF UpToColon
    <3>2. e + 1 \in b + 1 .. k /\ k \in Nat /\ b \in Nat /\ b <= k
      BY <1>2, <1>3, <2>1, <2>3
    <3> QED BY <2>1, <3>1, <3>2, SameColons
  <2>4. k \in Int /\ b \in Int /\ e \in Int
    BY <1>2, <1>3, <2>1
  <2> QED BY <2>2, <2>3, <2>4
<1> QED BY <1>4, <1>5

\* Where the directory that begins at b ends.
EndOf(s, b) == FirstIn({j \in b .. Len(s) - 1 : At(s, j) = ":"}, Len(s))

\* The directory that begins at b ends at the next colon, or at the end of the text.
LEMMA EndIs ==
    ASSUME NEW s \in Seq(STRING), NEW b \in DirBegins(s)
    PROVE  EndOf(s, b) \in b .. Len(s) /\ UpToColon(s, b, EndOf(s, b))
<1> DEFINE C == {j \in b .. Len(s) - 1 : At(s, j) = ":"}
           e == EndOf(s, b)
<1>1. Len(s) \in Nat /\ DOMAIN s = 1 .. Len(s)
  BY LenProperties
<1>2. b \in 1 .. Len(s) /\ s[b] # ":"
  BY <1>1 DEF DirBegins
<1>3. \A j \in b .. Len(s) - 1 : j \in C <=> s[j + 1] = ":"
  <2>1. ASSUME NEW j \in b .. Len(s) - 1 PROVE At(s, j) = s[j + 1]
    <3>1. j < Len(s)
      BY <1>1
    <3> QED BY <3>1 DEF At
  <2> QED BY <2>1
<1>4. e = FirstIn(C, Len(s))
  BY DEF EndOf
<1>5. CASE C = {}
  <2>1. e = Len(s)
    BY <1>4, <1>5 DEF FirstIn
  <2>2. ASSUME NEW m \in b .. Len(s) PROVE s[m] # ":"
    <3>1. m = b \/ m - 1 \in b .. Len(s) - 1
      BY <1>1, <1>2
    <3>2. m - 1 + 1 = m
      BY <1>2
    <3> QED BY <1>2, <1>3, <1>5, <3>1, <3>2
  <2>3. Len(s) \in b .. Len(s)
    BY <1>1, <1>2
  <2> QED BY <2>1, <2>2, <2>3 DEF UpToColon
<1>6. CASE C # {}
  <2>1. C \subseteq Nat /\ C \subseteq b .. Len(s) - 1
    BY <1>1, <1>2
  <2>2. e \in C /\ \A j \in C : e <= j
    <3> HIDE DEF C
    <3>1. \E x \in C : \A y \in C : x <= y
      BY <1>6, <2>1, NatMin
    <3>2. e = CHOOSE x \in C : \A y \in C : x <= y
      BY <1>4, <1>6 DEF FirstIn
    <3> HIDE DEF e
    <3> QED BY <3>1, <3>2
  <2> HIDE DEF e
  <2>3. e \in b .. Len(s) - 1 /\ s[e + 1] = ":"
    BY <1>3, <2>1, <2>2
  <2>4. ASSUME NEW m \in b .. e PROVE s[m] # ":"
    <3>1. m = b \/ m - 1 \in b .. Len(s) - 1
      BY <1>1, <1>2, <2>3
    <3>2. m - 1 + 1 = m /\ ~ (e <= m - 1)
      BY <1>2, <2>3
    <3> QED BY <1>2, <1>3, <2>2, <3>1, <3>2
  <2>5. e \in b .. Len(s)
    BY <1>1, <2>3
  <2>6. EndOf(s, b) \in b .. Len(s) /\ s[EndOf(s, b) + 1] = ":"
        /\ \A m \in b .. EndOf(s, b) : s[m] # ":"
    BY <2>3, <2>4, <2>5 DEF e
  <2> QED BY <2>6 DEF UpToColon
<1> QED BY <1>5, <1>6

\* The piece that begins at b is what stands behind the colons in front of it.
LEMMA PieceIs ==
    ASSUME NEW s \in Seq(STRING), NEW b \in DirBegins(s)
    PROVE  SubSeq(s, b, EndOf(s, b)) = Dir(s, Colons(s, b))
<1> DEFINE e == EndOf(s, b)
<1>1. Len(s) \in Nat /\ DOMAIN s = 1 .. Len(s)
  BY LenProperties
<1>2. b \in 1 .. Len(s)
  BY <1>1 DEF DirBegins
<1>3. e \in b .. Len(s) /\ Block(s, Colons(s, b)) = b .. e
  BY EndIs, BlockIs
<1> HIDE DEF e
<1>4. b \in Nat /\ e \in Nat /\ b <= e
  BY <1>1, <1>2, <1>3
<1>5. Ordered(b .. e) = [k \in 1 .. e - b + 1 |-> b + k - 1]
  BY <1>4, OrderedInterval
<1>6. Dir(s, Colons(s, b)) = [k \in 1 .. e - b + 1 |-> s[b + k - 1]]
  BY <1>3, <1>5 DEF Dir
<1>7. SubSeq(s, b, e) = [k \in 1 .. e - b + 1 |-> s[b + k - 1]]
  BY <1>4
<1> QED BY <1>6, <1>7 DEF e

\* Colons up to k are at most k.
LEMMA FewColons ==
    ASSUME NEW s, NEW k \in Nat
    PROVE  Colons(s, k) \in 0 .. k
<1> DEFINE A == {j \in 1 .. k : s[j] = ":"}
<1>1. A \subseteq 1 .. k
  OBVIOUS
<1>2. IsFiniteSet(1 .. k) /\ Cardinality(1 .. k) = k
  BY FS_Interval
<1>3. IsFiniteSet(A) /\ Cardinality(A) <= k /\ Cardinality(A) \in Nat
  <2> HIDE DEF A
  <2> QED BY <1>1, <1>2, FS_Subset, FS_CardinalityType
<1> QED BY <1>3 DEF Colons

\* x_split cuts a value at its colons, and drops what is empty.
LEMMA SplitsAtColons ==
    ASSUME NEW s \in Seq(STRING)
    PROVE  Elements(x_split(s)) = DirsOf(s)
<1> DEFINE B == DirBegins(s)
           begins == Ordered(B)
<1>1. Len(s) \in Nat /\ DOMAIN s = 1 .. Len(s)
  BY LenProperties
<1>2. B \subseteq 1 .. Len(s) /\ B \subseteq Nat
  BY <1>1 DEF DirBegins
<1>3. IsFiniteSet(B)
  <2> HIDE DEF B
  <2>1. IsFiniteSet(1 .. Len(s))
    BY <1>1, FS_Interval
  <2> QED BY <1>2, <2>1, FS_Subset
<1>4. /\ \A k \in DOMAIN begins : begins[k] \in B
      /\ \A m \in B : \E k \in DOMAIN begins : begins[k] = m
  <2> HIDE DEF B
  <2> QED BY <1>2, <1>3, OrderedLists
<1>5. x_split(s) = [k \in DOMAIN begins |-> SubSeq(s, begins[k], EndOf(s, begins[k]))]
  BY DEF x_split, EndOf
<1>6. DirsOf(s) = {Dir(s, c) : c \in 0 .. Len(s)} \ {<< >>}
  BY DEF DirsOf, Dir, Block, Colons
<1>7. ASSUME NEW b \in B
      PROVE  SubSeq(s, b, EndOf(s, b)) \in DirsOf(s)
  <2>1. Colons(s, b) \in 0 .. Len(s)
    <3>1. b \in Nat /\ b <= Len(s)
      BY <1>1, <1>2
    <3>2. Colons(s, b) \in 0 .. b
      BY <3>1, FewColons
    <3> QED BY <1>1, <3>1, <3>2
  <2>2. SubSeq(s, b, EndOf(s, b)) = Dir(s, Colons(s, b))
    BY PieceIs
  <2>3. SubSeq(s, b, EndOf(s, b)) # << >>
    <3>1. EndOf(s, b) \in b .. Len(s)
      BY EndIs
    <3>2. b \in Nat /\ EndOf(s, b) \in Nat /\ b <= EndOf(s, b)
      BY <1>1, <1>2, <3>1
    <3>3. 1 \in 1 .. EndOf(s, b) - b + 1
      BY <3>2
    <3>4. DOMAIN SubSeq(s, b, EndOf(s, b)) = 1 .. EndOf(s, b) - b + 1
      BY <3>2
    <3>5. DOMAIN << >> = {}
      OBVIOUS
    <3> QED BY <3>3, <3>4, <3>5
  <2> QED BY <1>6, <2>1, <2>2, <2>3
<1>8. ASSUME NEW c \in 0 .. Len(s), Dir(s, c) # << >>
      PROVE  \E b \in B : Dir(s, c) = SubSeq(s, b, EndOf(s, b))
  <2>1. Block(s, c) # {}
    <3>1. SUFFICES ASSUME Block(s, c) = {} PROVE Dir(s, c) = << >>
      BY <1>8
    <3>2. Cardinality(Block(s, c)) = 0
      BY <3>1, FS_EmptySet
    <3>3. DOMAIN Ordered(Block(s, c)) = {}
      BY <3>2 DEF Ordered
    <3> QED BY <3>3 DEF Dir
  <2>2. Block(s, c) \subseteq 1 .. Len(s) /\ Block(s, c) \subseteq Nat
    BY <1>1 DEF Block
  <2>3. PICK b \in Block(s, c) : \A k \in Block(s, c) : b <= k
    BY <2>1, <2>2, NatMin
  <2>4. b \in 1 .. Len(s) /\ s[b] # ":" /\ Colons(s, b) = c
    BY <1>1 DEF Block
  <2>5. ASSUME b # 1, s[b - 1] # ":" PROVE FALSE
    <3>1. b - 1 \in 1 .. Len(s) /\ b - 1 \in Nat /\ b \in Nat /\ b - 1 <= b
      BY <1>1, <2>4, <2>5
    <3>2. \A m \in b - 1 + 1 .. b : m = b
      BY <3>1
    <3>3. Colons(s, b - 1) = c
      BY <2>4, <3>1, <3>2, SameColons
    <3>4. b - 1 \in Block(s, c)
      BY <1>1, <2>5, <3>1, <3>3 DEF Block
    <3>5. ~ (b <= b - 1)
      BY <3>1
    <3> QED BY <2>3, <3>4, <3>5
  <2>6. b \in B
    BY <1>1, <2>4, <2>5 DEF DirBegins
  <2>7. Dir(s, c) = SubSeq(s, b, EndOf(s, b))
    BY <2>4, <2>6, PieceIs
  <2> QED BY <2>6, <2>7
<1>9. ASSUME NEW d \in Elements(x_split(s)) PROVE d \in DirsOf(s)
  <2> HIDE DEF begins
  <2>1. PICK k \in DOMAIN begins : d = SubSeq(s, begins[k], EndOf(s, begins[k]))
    BY <1>5 DEF Elements
  <2> QED BY <1>4, <1>7, <2>1
<1>10. ASSUME NEW d \in DirsOf(s) PROVE d \in Elements(x_split(s))
  <2>1. PICK b \in B : d = SubSeq(s, b, EndOf(s, b))
    BY <1>6, <1>8
  <2> HIDE DEF begins
  <2>2. PICK k \in DOMAIN begins : begins[k] = b
    BY <1>4
  <2> QED BY <1>5, <2>1, <2>2 DEF Elements
<1> QED BY <1>9, <1>10

(***************************************************************************)
(* What the search tells.                                                  *)
(***************************************************************************)
Called == WithoutSlashes(words[1])

\* A place that shows that a command was there, but no program all the time.
Shows(p) == Seen(p) \notin {{"absent"}, {"program"}}

\* The candidates are all the places that there are.
AllPlaces ==
    pc \in Looking =>
      /\ Elements(candidates) = Places
      /\ pc \in Direct => HasSlash(Called)

\* Until a file is found that cannot be executed, all were missing.
MissingSoFar ==
    pc \in AlongPath =>
      /\ ~ found_non_exec => \A k \in 1 .. i : "absent" \in Seen(candidates[k])
      /\ found_non_exec => \E k \in 1 .. i : Shows(candidates[k])

Tells ==
    /\ AllPlaces /\ MissingSoFar
    /\ pc = "run_external" => ~ found_non_exec
    /\ StatusTellsWhy

\* A value of PATH, or none.
OneValue == Len(PATH) <= 1 /\ Len(cwd) <= 1

\* Seen through a change of files.
LEMMA ShowsOn ==
    ASSUME IInv, FileChanges
    PROVE  \A p : Shows(p) => Shows(p)'
<1>1. ASSUME NEW p, Shows(p) PROVE Shows(p)'
  <2>1. Seen(p) \subseteq Seen(p)'
    BY MoreIsSeen DEF IInv
  <2>2. FileAt(p) \in Seen(p)
    BY IsSeen DEF IInv
  <2>3. Seen(p) # {"absent"} /\ Seen(p) # {"program"}
    BY <1>1 DEF Shows
  <2>4. Seen(p)' # {"absent"} /\ Seen(p)' # {"program"}
    BY <2>1, <2>2, <2>3
  <2> QED BY <2>4 DEF Shows
<1> QED BY <1>1

\* The places do not change while the command is the same.
LEMMA SamePlaces ==
    ASSUME UNCHANGED <<PATH, cwd, words>>
    PROVE  Places' = Places /\ Called' = Called
BY DEF Places, Called, get_resolved_path_env

\* Where a command is looked for.
LEMMA PlacesAre ==
    ASSUME PathTyped, OneValue
    PROVE  /\ words[1] \in {<<".">>, <<".", ".">>} => Places = {}
           /\ words[1] \notin {<<".">>, <<".", ".">>} /\ HasSlash(Called)
                => Places = {Called}
           /\ /\ words[1] \notin {<<".">>, <<".", ".">>} /\ ~ HasSlash(Called)
              /\ get_resolved_path_env = << >>
              => Places = {}
           /\ /\ words[1] \notin {<<".">>, <<".", ".">>} /\ ~ HasSlash(Called)
              /\ get_resolved_path_env # << >>
              => /\ get_resolved_path_env[1] \in Seq(STRING)
                 /\ Places = {build_candidate_path(dir, Called) :
                                dir \in DirsOf(get_resolved_path_env[1])}
<1> DEFINE value == get_resolved_path_env
           cmd == Called
<1>1. value \in Seq(Seq(STRING)) /\ Len(value) <= 1
  BY DEF get_resolved_path_env, PathTyped, OneValue
<1>2. Len(value) \in Nat /\ DOMAIN value = 1 .. Len(value)
  BY <1>1, LenProperties
<1>3. CASE words[1] \in {<<".">>, <<".", ".">>}
  BY <1>3 DEF Places
<1>4. CASE words[1] \notin {<<".">>, <<".", ".">>} /\ HasSlash(Called)
  BY <1>4 DEF Places, Called
<1>5. CASE words[1] \notin {<<".">>, <<".", ".">>} /\ ~ HasSlash(Called)
  <2>1. Places = {build_candidate_path(dir, Called) :
                    dir \in UNION {DirsOf(value[k]) : k \in DOMAIN value}}
    BY <1>5 DEF Places, Called
  <2>2. CASE value = << >>
    <3>1. DOMAIN value = {}
      BY <2>2
    <3>2. Places = {}
      BY <2>1, <3>1
    <3> QED BY <1>5, <2>2, <3>2
  <2>3. CASE value # << >>
    <3>1. Len(value) # 0
      BY <1>1, <2>3, EmptySeq
    <3>2. DOMAIN value = {1}
      BY <1>1, <1>2, <3>1
    <3>3. value[1] \in Seq(STRING)
      BY <1>1, <3>2, ElementOfSeq, <1>2
    <3>4. UNION {DirsOf(value[k]) : k \in DOMAIN value} = DirsOf(value[1])
      BY <3>2
    <3> QED BY <1>5, <2>1, <2>3, <3>3, <3>4
  <2> QED BY <2>2, <2>3
<1> QED BY <1>3, <1>4, <1>5

\* Nothing is told at the start,
LEMMA TellsFirst == Init => Tells /\ OneValue
<1> SUFFICES ASSUME Init PROVE Tells /\ OneValue
  OBVIOUS
<1>1. PICK k \in DOMAIN Families :
        \E s \in Families[k].scripts, v \in Families[k].PATHs, d \in Families[k].cwds,
           files \in [Files -> Families[k].kinds] :
          script = s /\ PATH = v /\ cwd = d /\ fs = files
  BY DEF Init
<1>2. OneValue
  BY <1>1, FamiliesAssumption DEF OneValue
<1>3. Tells
  BY DEF Init, Tells, AllPlaces, MissingSoFar, StatusTellsWhy, Looking, AlongPath
<1> QED BY <1>2, <1>3

\* no step changes PATH,
LEMMA OneValueKept ==
    ASSUME OneValue, [Next]_vars PROVE OneValue'
<1>1. UNCHANGED <<PATH, cwd>>
  BY DEF Next, vars, line, ReadLine, resolve_executable_path, check_executable_F_OK,
         check_executable_X_OK, search_path_env_or_exit, verify_direct_path_or_exit,
         run_external, ProgramExits, FileChanges, wait_children_status,
         handle_too_many_args, builtin_exit
<1> QED BY <1>1 DEF OneValue

\* The way to the candidates.
LEMMA ResolveTells ==
    ASSUME IInv, OneValue, Tells, resolve_executable_path PROVE Tells'
<1> DEFINE value == get_resolved_path_env
           dirs == x_split(value[1])
<1>1. UNCHANGED <<fs, seen, PATH, cwd, words, i, found_non_exec>> /\ pc = "run_external"
  BY DEF resolve_executable_path, line
<1>2. i = 0 /\ PathTyped /\ ~ found_non_exec
  BY <1>1 DEF IInv, SearchAt, Tells
<1>3. Places' = Places /\ Called' = Called
  BY <1>1, SamePlaces
<1>4. CASE pc' = "failed" /\ status' = 127 /\ Places = {}
  <2>1. StatusTellsWhy'
    BY <1>3, <1>4 DEF StatusTellsWhy
  <2> QED BY <1>4, <2>1 DEF Tells, AllPlaces, MissingSoFar, Looking, AlongPath
<1>5. CASE /\ pc' = "direct" /\ candidates' = <<Called>>
           /\ HasSlash(Called) /\ words[1] \notin {<<".">>, <<".", ".">>}
  <2>1. Places = {Called}
    BY <1>2, <1>5, PlacesAre
  <2>2. Elements(<<Called>>) = {Called}
    <3>1. DOMAIN <<Called>> = {1} /\ <<Called>>[1] = Called
      OBVIOUS
    <3> QED BY <3>1 DEF Elements
  <2>3. Elements(candidates)' = Elements(candidates')
    BY DEF Elements
  <2>4. AllPlaces'
    BY <1>3, <1>5, <2>1, <2>2, <2>3 DEF AllPlaces
  <2> QED BY <1>5, <2>4 DEF Tells, MissingSoFar, AlongPath, StatusTellsWhy
<1>6. CASE /\ pc' = "F_OK" /\ value # << >>
           /\ candidates' = [k \in DOMAIN dirs |-> build_candidate_path(dirs[k], Called)]
           /\ ~ HasSlash(Called) /\ words[1] \notin {<<".">>, <<".", ".">>}
  <2>1. /\ value[1] \in Seq(STRING)
        /\ Places = {build_candidate_path(dir, Called) : dir \in DirsOf(value[1])}
    BY <1>2, <1>6, PlacesAre
  <2>2. Elements(dirs) = DirsOf(value[1])
    BY <2>1, SplitsAtColons
  <2>3. Elements(candidates)' = {build_candidate_path(dirs[k], Called) : k \in DOMAIN dirs}
    <3> HIDE DEF dirs
    <3> QED BY <1>6 DEF Elements
  <2>4. Elements(candidates)' = Places
    <3> HIDE DEF dirs
    <3> QED BY <2>1, <2>2, <2>3 DEF Elements
  <2>5. AllPlaces'
    BY <1>3, <1>6, <2>4 DEF AllPlaces, Direct
  <2>6. MissingSoFar'
    BY <1>1, <1>2 DEF MissingSoFar
  <2> QED BY <1>6, <2>5, <2>6 DEF Tells, StatusTellsWhy
<1>7. \/ /\ words[1] \in {<<".">>, <<".", ".">>}
         /\ pc' = "failed" /\ status' = 127
      \/ /\ words[1] \notin {<<".">>, <<".", ".">>} /\ HasSlash(Called)
         /\ pc' = "direct" /\ candidates' = <<Called>>
      \/ /\ words[1] \notin {<<".">>, <<".", ".">>} /\ ~ HasSlash(Called)
         /\ \/ value = << >> /\ pc' = "failed" /\ status' = 127
            \/ /\ value # << >> /\ pc' = "F_OK"
               /\ candidates' = [k \in DOMAIN dirs |-> build_candidate_path(dirs[k], Called)]
  BY DEF resolve_executable_path, Fail, Go, Called
<1>8. pc' = "failed" /\ status' = 127 /\ words[1] \in {<<".">>, <<".", ".">>} => Places = {}
  BY <1>2, PlacesAre
<1>9. words[1] \notin {<<".">>, <<".", ".">>} /\ ~ HasSlash(Called) /\ value = << >>
        => Places = {}
  BY <1>2, PlacesAre
<1> QED BY <1>4, <1>5, <1>6, <1>7, <1>8, <1>9

\* What a step of the search leaves alone.
SameSearch == UNCHANGED <<fs, seen, PATH, cwd, words, candidates>>

\* Then the places are the same, and what they show.
LEMMA SameTelling ==
    ASSUME SameSearch
    PROVE  /\ Places' = Places /\ Called' = Called
           /\ Elements(candidates)' = Elements(candidates)
           /\ \A p : Seen(p)' = Seen(p) /\ (Shows(p)' <=> Shows(p))
<1>1. Places' = Places /\ Called' = Called
  BY SamePlaces DEF SameSearch
<1>2. \A p : Seen(p)' = Seen(p)
  BY SameFiles DEF SameSearch
<1> QED BY <1>1, <1>2 DEF SameSearch, Elements, Shows

\* A command that fails for a file which shows something.
LEMMA ShownTells ==
    ASSUME Tells, SameSearch, pc \in Looking, pc' = "failed", status' = 126,
           NEW p \in Elements(candidates), Shows(p)
    PROVE  Tells'
<1>1. p \in Places'
  BY SameTelling DEF Tells, AllPlaces
<1>2. Seen(p)' \notin {{"absent"}, {"program"}}
  BY SameTelling DEF Shows
<1>3. StatusTellsWhy'
  BY <1>1, <1>2 DEF StatusTellsWhy
<1> QED BY <1>3 DEF Tells, AllPlaces, MissingSoFar, Looking, AlongPath

\* and each system call tells no more than it found: that nothing is there,
LEMMA F_OKTells ==
    ASSUME IInv, Tells, check_executable_F_OK PROVE Tells'
<1> DEFINE p == candidates[i + 1]
<1>1. /\ SameSearch /\ pc = "F_OK" /\ i < Len(candidates) /\ found_non_exec' = found_non_exec
  BY DEF check_executable_F_OK, line, SameSearch
<1>2. i \in Nat /\ Len(candidates) \in Nat /\ DOMAIN candidates = 1 .. Len(candidates)
  BY LenProperties DEF IInv, SearchAt
<1>3. p \in Elements(candidates)
  <2>1. i + 1 \in DOMAIN candidates
    BY <1>1, <1>2
  <2> QED BY <2>1 DEF Elements
<1>4. FileAt(p) \in Seen(p) /\ FileAt(p) \in Kinds
  BY IsSeen DEF IInv
<1>5. ASSUME pc' \in {"F_OK", "X_OK"} PROVE AllPlaces'
  BY <1>1, <1>5, SameTelling DEF Tells, AllPlaces, Looking, Direct
<1>6. MissingSoFar
  BY DEF Tells
<1>7. CASE pc' = "X_OK" /\ i' = i
  <2>1. MissingSoFar'
    BY <1>1, <1>6, <1>7, SameTelling DEF MissingSoFar, AlongPath, SameSearch
  <2> QED BY <1>5, <1>7, <2>1 DEF Tells, StatusTellsWhy
<1>8. CASE access_F_OK(p) = "ENOENT" /\ pc' = "F_OK" /\ i' = i + 1
  <2>1. "absent" \in Seen(p)
    BY <1>4, <1>8, AccessTells DEF IInv
  <2>2. \A k \in 1 .. i + 1 : k \in 1 .. i \/ k = i + 1
    BY <1>2
  <2>3. \A k \in 1 .. i : k \in 1 .. i + 1
    BY <1>2
  <2>4. ~ found_non_exec => \A k \in 1 .. i + 1 : "absent" \in Seen(candidates[k])
    BY <1>1, <1>6, <2>1, <2>2 DEF MissingSoFar, AlongPath
  <2>5. found_non_exec => \E k \in 1 .. i + 1 : Shows(candidates[k])
    BY <1>1, <1>6, <2>3 DEF MissingSoFar, AlongPath
  <2>6. MissingSoFar'
    BY <1>1, <1>8, <2>4, <2>5, SameTelling DEF MissingSoFar, SameSearch
  <2> QED BY <1>5, <1>8, <2>6 DEF Tells, StatusTellsWhy
<1>9. CASE access_F_OK(p) \notin {"OK", "ENOENT"} /\ pc' = "failed" /\ status' = 126
  <2>1. FileAt(p) \notin {"absent", "program"}
    BY <1>4, <1>9, AccessTells DEF IInv, Exists
  <2>2. Shows(p)
    BY <1>4, <2>1 DEF Shows
  <2> QED BY <1>1, <1>3, <1>9, <2>2, ShownTells DEF Looking
<1> QED BY <1>7, <1>8, <1>9 DEF check_executable_F_OK, Candidate, Go, Fail, GoesOn

\* that it may not be executed,
LEMMA X_OKTells ==
    ASSUME IInv, Tells, check_executable_X_OK PROVE Tells'
<1> DEFINE p == candidates[i + 1]
<1>1. SameSearch /\ pc = "X_OK"
  BY DEF check_executable_X_OK, line, SameSearch
<1>2. i \in Nat
  BY DEF IInv, SearchAt
<1>3. FileAt(p) \in Seen(p) /\ FileAt(p) \in Kinds /\ Seen(p) \cap Exists # {}
  BY <1>1, IsSeen DEF IInv, Told
<1>4. CASE pc' = "execve"
  BY <1>1, <1>4, SameTelling
     DEF Tells, AllPlaces, MissingSoFar, StatusTellsWhy, Looking, Direct, AlongPath
<1>5. CASE /\ access_X_OK(p) # "OK" /\ pc' = "F_OK"
           /\ i' = i + 1 /\ found_non_exec' = TRUE
  <2>1. FileAt(p) \notin Exists \ {"plain"}
    BY <1>5, AccessTells DEF IInv
  <2>2. Shows(p)
    BY <1>3, <2>1 DEF Shows, Exists
  <2>3. i + 1 \in 1 .. i + 1
    BY <1>2
  <2>4. MissingSoFar'
    BY <1>1, <1>5, <2>2, <2>3, SameTelling DEF MissingSoFar, SameSearch
  <2>5. AllPlaces'
    BY <1>1, <1>5, SameTelling DEF Tells, AllPlaces, Looking, Direct
  <2> QED BY <1>5, <2>4, <2>5 DEF Tells, StatusTellsWhy
<1> QED BY <1>4, <1>5 DEF check_executable_X_OK, Candidate, Go

\* that the search is over,
LEMMA SearchEndTells ==
    ASSUME IInv, Tells, search_path_env_or_exit PROVE Tells'
<1>1. /\ SameSearch /\ pc = "F_OK" /\ i = Len(candidates) /\ pc' = "failed"
      /\ status' = IF found_non_exec THEN 126 ELSE 127
  BY DEF search_path_env_or_exit, line, Fail, SameSearch
<1>2. DOMAIN candidates = 1 .. i
  BY <1>1, LenProperties DEF IInv, SearchAt
<1>3. Elements(candidates) = Places /\ MissingSoFar
  BY <1>1 DEF Tells, AllPlaces, Looking
<1>4. CASE found_non_exec
  <2>1. PICK k \in 1 .. i : Shows(candidates[k])
    BY <1>1, <1>3, <1>4 DEF MissingSoFar, AlongPath
  <2>2. candidates[k] \in Elements(candidates)
    BY <1>2 DEF Elements
  <2> QED BY <1>1, <1>4, <2>1, <2>2, ShownTells DEF Looking
<1>5. CASE ~ found_non_exec
  <2>1. \A k \in 1 .. i : "absent" \in Seen(candidates[k])
    BY <1>1, <1>3, <1>5 DEF MissingSoFar, AlongPath
  <2>2. \A p \in Places : "absent" \in Seen(p)
    BY <1>2, <1>3, <2>1 DEF Elements
  <2>3. \A p \in Places' : "absent" \in Seen(p)'
    BY <1>1, <2>2, SameTelling
  <2>4. StatusTellsWhy'
    BY <1>1, <1>5, <2>3 DEF StatusTellsWhy
  <2> QED BY <1>1, <2>4 DEF Tells, AllPlaces, MissingSoFar, Looking, AlongPath
<1> QED BY <1>4, <1>5

\* The errors of access at the path itself.
LEMMA DeniedTells ==
    ASSUME FilesSeen, NEW p, NEW errno,
           \/ errno = access_F_OK(p) /\ FileAt(p) \notin Exists
           \/ errno = access_X_OK(p) /\ FileAt(p) \notin Exists \ {"plain"}
    PROVE  /\ Denied(errno) = 126 => FileAt(p) \in {"denied", "plain"}
           /\ Denied(errno) # 126 => Denied(errno) = 127 /\ FileAt(p) \in {"absent", "notdir"}
<1>1. FileAt(p) \in Kinds
  BY IsSeen
<1>2. access_F_OK(p) = CASE FileAt(p) = "absent" -> "ENOENT" [] FileAt(p) = "denied" -> "EACCES"
                         [] FileAt(p) = "notdir" -> "ENOTDIR" [] OTHER -> "OK"
  BY DEF access_F_OK
<1>3. CASE FileAt(p) \in {"absent", "notdir"}
  BY <1>2, <1>3 DEF Denied, access_X_OK
<1>4. CASE FileAt(p) \in {"denied", "plain"}
  BY <1>2, <1>4 DEF Denied, access_X_OK, Exists, Kinds
<1>5. CASE FileAt(p) \notin {"absent", "notdir", "denied", "plain"}
  BY <1>1, <1>5 DEF Exists, Kinds
<1> QED BY <1>3, <1>4, <1>5

\* what is at a path that is given,
LEMMA DirectTells ==
    ASSUME IInv, Tells, verify_direct_path_or_exit PROVE Tells'
<1> DEFINE p == candidates[i + 1]
<1>1. SameSearch /\ pc \in Direct /\ i' = i
  BY DEF verify_direct_path_or_exit, line, Direct, SameSearch
<1>2. i = 0 /\ Len(candidates) = 1 /\ candidates \in Seq(Elements(candidates))
  BY <1>1 DEF IInv, SearchAt
<1>3. DOMAIN candidates = {1} /\ p = candidates[1]
  BY <1>2, LenProperties
<1>4. Elements(candidates) = {p} /\ Elements(candidates) = Places /\ HasSlash(Called)
  BY <1>1, <1>3 DEF Elements, Tells, AllPlaces, Looking, Direct
<1>5. FileAt(p) \in Seen(p) /\ FilesSeen
  BY IsSeen DEF IInv
<1>6. CASE pc' \in Direct \cup {"execve"}
  BY <1>1, <1>6, SameTelling
     DEF Tells, AllPlaces, MissingSoFar, StatusTellsWhy, Looking, Direct, AlongPath
<1>7. CASE pc' = "failed" /\ status' = 126 /\ FileAt(p) \in {"denied", "plain", "directory"}
  <2>1. Shows(p)
    BY <1>5, <1>7 DEF Shows
  <2> QED BY <1>1, <1>4, <1>7, <2>1, ShownTells DEF Looking, Direct
<1>8. CASE pc' = "failed" /\ status' = 127 /\ FileAt(p) \in {"absent", "notdir"}
  <2>1. Places' = {p} /\ HasSlash(Called)' /\ Seen(p)' = Seen(p)
    BY <1>1, <1>4, SameTelling DEF SameSearch
  <2>2. "absent" \in Seen(p)' \/ ("notdir" \in Seen(p)' /\ HasSlash(Called)')
    BY <1>5, <1>8, <2>1
  <2>3. \A q \in Places' : "absent" \in Seen(q)' \/ ("notdir" \in Seen(q)' /\ HasSlash(Called)')
    <3>1. ASSUME NEW q \in Places' PROVE q = p /\ p' = p
      BY <1>1, <2>1 DEF SameSearch
    <3>2. \A q : Seen(q)' = Seen(q)
      BY <1>1, SameTelling
    <3>3. "absent" \in Seen(p) \/ ("notdir" \in Seen(p) /\ HasSlash(Called)')
      BY <2>1, <2>2
    <3> QED BY <3>1, <3>2, <3>3
  <2>4. StatusTellsWhy'
    BY <1>8, <2>3 DEF StatusTellsWhy, Called
  <2> QED BY <1>8, <2>4 DEF Tells, AllPlaces, MissingSoFar, Looking, AlongPath
<1>9. CASE pc \in {"direct", "stat"}
  <2>1. \/ pc' \in Direct
        \/ pc' = "failed" /\ access_F_OK(p) # "OK" /\ status' = Denied(access_F_OK(p))
        \/ pc' = "failed" /\ status' = 126 /\ FileAt(p) = "directory"
    BY <1>9 DEF verify_direct_path_or_exit, Candidate, Go, Fail, Direct
  <2>2. access_F_OK(p) # "OK" => FileAt(p) \notin Exists
    BY <1>5, AccessTells
  <2>3. access_F_OK(p) # "OK" =>
          /\ Denied(access_F_OK(p)) = 126 => FileAt(p) \in {"denied", "plain"}
          /\ Denied(access_F_OK(p)) # 126 =>
               Denied(access_F_OK(p)) = 127 /\ FileAt(p) \in {"absent", "notdir"}
    BY <1>5, <2>2, DeniedTells
  <2> QED BY <1>6, <1>7, <1>8, <2>1, <2>3
<1>10. CASE pc = "direct X_OK"
  <2>1. \/ pc' = "execve"
        \/ pc' = "failed" /\ access_X_OK(p) # "OK" /\ status' = Denied(access_X_OK(p))
    BY <1>10 DEF verify_direct_path_or_exit, Candidate, Go, Fail
  <2>2. access_X_OK(p) # "OK" => FileAt(p) \notin Exists \ {"plain"}
    BY <1>5, AccessTells
  <2>3. access_X_OK(p) # "OK" =>
          /\ Denied(access_X_OK(p)) = 126 => FileAt(p) \in {"denied", "plain"}
          /\ Denied(access_X_OK(p)) # 126 =>
               Denied(access_X_OK(p)) = 127 /\ FileAt(p) \in {"absent", "notdir"}
    BY <1>5, <2>2, DeniedTells
  <2> QED BY <1>6, <1>7, <1>8, <2>1, <2>3
<1> QED BY <1>1, <1>9, <1>10 DEF Direct

\* and what execve says.
LEMMA ExecveTells ==
    ASSUME IInv, Tells, run_external PROVE Tells'
<1> DEFINE p == candidates[i + 1]
<1>1. SameSearch /\ pc = "execve"
  BY DEF run_external, line, SameSearch
<1>2. i \in Nat /\ i < Len(candidates) /\ Len(candidates) \in Nat
      /\ DOMAIN candidates = 1 .. Len(candidates)
  BY <1>1, LenProperties DEF IInv, SearchAt
<1>3. p \in Elements(candidates)
  <2>1. i + 1 \in DOMAIN candidates
    BY <1>2
  <2> QED BY <2>1 DEF Elements
<1>4. FileAt(p) \in Seen(p) /\ Seen(p) \cap (Exists \ {"plain"}) # {}
  BY <1>1, IsSeen DEF IInv, Told
<1>5. CASE pc' = "running"
  BY <1>5 DEF Tells, AllPlaces, MissingSoFar, StatusTellsWhy, Looking, AlongPath
<1>6. CASE pc' = "failed" /\ status' = 126 /\ FileAt(p) # "program"
  <2>1. Shows(p)
    BY <1>4, <1>6 DEF Shows, Exists
  <2> QED BY <1>1, <1>3, <1>6, <2>1, ShownTells DEF Looking
<1> QED BY <1>5, <1>6 DEF run_external, Candidate, Go, Fail

\* A change of a file tells nothing,
LEMMA FileChangesTells ==
    ASSUME IInv, Tells, FileChanges PROVE Tells'
<1>1. UNCHANGED <<candidates, i, pc, PATH, cwd, words, found_non_exec, status>> /\ pc \in Looking
  BY DEF FileChanges, line
<1>2. Places' = Places /\ Called' = Called /\ Elements(candidates)' = Elements(candidates)
  BY <1>1, SamePlaces DEF Elements
<1>3. \A p : Seen(p) \subseteq Seen(p)' /\ (Shows(p) => Shows(p)')
  BY MoreIsSeen, ShowsOn DEF IInv
<1>4. AllPlaces'
  BY <1>1, <1>2 DEF Tells, AllPlaces
<1>5. MissingSoFar'
  BY <1>1, <1>3 DEF Tells, MissingSoFar
<1> QED BY <1>1, <1>4, <1>5 DEF Tells, StatusTellsWhy, Looking

\* and so does nothing at all.
LEMMA StutterTells ==
    ASSUME IInv, Tells, UNCHANGED vars PROVE Tells'
<1>1. SameSearch /\ UNCHANGED <<pc, i, found_non_exec, status, candidates, words>>
  BY DEF vars, SameSearch
<1>2. AllPlaces'
  BY <1>1, SameTelling DEF Tells, AllPlaces
<1>3. ASSUME NEW k PROVE /\ Seen(candidates[k])' = Seen(candidates[k])
                         /\ Shows(candidates[k])' <=> Shows(candidates[k])
  BY <1>1, SameTelling
<1>4. MissingSoFar'
  <2>1. CASE pc \in AlongPath /\ ~ found_non_exec
    <3>1. \A k \in 1 .. i : "absent" \in Seen(candidates[k])
      BY <2>1 DEF Tells, MissingSoFar
    <3>2. \A k \in 1 .. i' : "absent" \in Seen(candidates[k])'
      BY <1>1, <1>3, <3>1
    <3> QED BY <1>1, <2>1, <3>2 DEF MissingSoFar
  <2>2. CASE pc \in AlongPath /\ found_non_exec
    <3>1. PICK k \in 1 .. i : Shows(candidates[k])
      BY <2>2 DEF Tells, MissingSoFar
    <3>2. k \in 1 .. i' /\ Shows(candidates[k])'
      BY <1>1, <1>3, <3>1
    <3> QED BY <1>1, <2>2, <3>2 DEF MissingSoFar
  <2>3. CASE pc \notin AlongPath
    BY <1>1, <2>3 DEF MissingSoFar, AlongPath
  <2> QED BY <2>1, <2>2, <2>3
<1>5. StatusTellsWhy'
  <2>1. WithoutSlashes(words[1])' = WithoutSlashes(words[1])
    BY <1>1
  <2> QED BY <1>1, <2>1, SameTelling DEF Tells, StatusTellsWhy
<1> QED BY <1>1, <1>2, <1>4, <1>5 DEF Tells

\* Every step keeps it.
LEMMA StepTells ==
    ASSUME IInv, OneValue, Tells, [Next]_vars PROVE Tells'
<1> USE DEF Tells, AllPlaces, MissingSoFar, StatusTellsWhy, Looking, AlongPath
<1>1. CASE ReadLine
  BY <1>1 DEF ReadLine
<1>2. CASE resolve_executable_path
  BY <1>2, ResolveTells
<1>3. CASE check_executable_F_OK
  BY <1>3, F_OKTells
<1>4. CASE check_executable_X_OK
  BY <1>4, X_OKTells
<1>5. CASE search_path_env_or_exit
  BY <1>5, SearchEndTells
<1>6. CASE verify_direct_path_or_exit
  BY <1>6, DirectTells
<1>7. CASE run_external
  BY <1>7, ExecveTells
<1>8. CASE FileChanges
  BY <1>8, FileChangesTells
<1>9. CASE ProgramExits \/ wait_children_status
  BY <1>9 DEF ProgramExits, wait_children_status
<1>10. CASE handle_too_many_args \/ builtin_exit
  <2>1. pc' \in {"exited", "prompt", "left"}
    BY <1>10 DEF handle_too_many_args, builtin_exit, Leave
  <2> QED BY <2>1
<1>11. CASE UNCHANGED vars
  BY <1>11, StutterTells
<1> QED BY <1>1, <1>2, <1>3, <1>4, <1>5, <1>6, <1>7, <1>8, <1>9, <1>10, <1>11 DEF Next

\* Whatever happens to the files while a program is looked for: 127 is the
\* status only when the command was missing from every place it was looked for
\* at, 126 only when there was something in one of them that is no program.
THEOREM FailureIsTold == Spec => []StatusTellsWhy
<1>1. Init => IInv /\ Tells /\ OneValue
  BY InitInv, TellsFirst
<1>2. IInv /\ Tells /\ OneValue /\ [Next]_vars => (IInv /\ Tells /\ OneValue)'
  BY StepInv, StepTells, OneValueKept
<1>3. Tells => StatusTellsWhy
  BY DEF Tells
<1> QED BY <1>1, <1>2, <1>3, PTL DEF Spec
=============================================================================
