-------------------------- MODULE ApiServerProofs --------------------------
(***************************************************************************)
(* Proofs about Config and ApiServer, for any directories, services and    *)
(* requests: a configuration that is accepted is what the directories      *)
(* hold; the API shows it; and the mutex of handleGraph is enough for      *)
(* requests that call the parser once.  (Those that call it twice are the  *)
(* run Api_race.)                                                          *)
(***************************************************************************)
EXTENDS ApiServer, FiniteSetTheorems, WellFoundedInduction, TLAPS

-----------------------------------------------------------------------------
(* Induction over the numbers of the services, which a fold goes through.  *)

\* A set of naturals that is not empty has a least one.
LEMMA Least ==
  ASSUME NEW T \in SUBSET Nat, T # {}
  PROVE  \E k \in T : \A n \in T : k <= n
<1>1. PICK k \in T : \A n \in T : <<n, k>> \notin OpToRel(<, Nat)
  BY NatLessThanWellFounded, WFMin
<1>2. \A n \in T : ~(n < k)
  BY <1>1 DEF OpToRel
<1> QED
  BY <1>2

\* Induction over the naturals.
LEMMA NaturalSteps ==
  ASSUME NEW T, 0 \in T, \A k \in Nat : k \in T => k + 1 \in T
  PROVE  Nat \subseteq T
<1> SUFFICES ASSUME Nat \ T # {} PROVE FALSE
  OBVIOUS
<1>1. PICK k \in Nat \ T : \A n \in Nat \ T : k <= n
  BY Least
<1>2. k # 0 /\ k - 1 \in Nat /\ (k - 1) + 1 = k
  BY <1>1
<1>3. k - 1 \in T
  BY <1>1, <1>2
<1> QED
  BY <1>1, <1>2, <1>3

\* Of finitely many numbers one is the greatest.
LEMMA Greatest ==
  ASSUME NEW n \in Nat, NEW D \in SUBSET (1..n), D # {}
  PROVE  Max(D) \in D /\ \A k \in D : k <= Max(D)
<1> DEFINE B == {b \in Nat : \A k \in D : k <= b}
<1>1. n \in B
  OBVIOUS
<1>2. PICK b \in B : \A c \in B : b <= c
  BY <1>1, Least
<1>3. b \in D
  <2> SUFFICES ASSUME b \notin D PROVE FALSE
    OBVIOUS
  <2>1. \A k \in D : k <= b - 1 /\ k >= 1
    BY <1>2
  <2>2. b \in Nat /\ b - 1 \in Nat
    <3>1. PICK k \in D : k >= 1 /\ k <= b - 1
      BY <2>1
    <3>2. b \in Nat
      OBVIOUS
    <3> QED
      BY <3>1, <3>2
  <2>3. b - 1 \in B
    BY <2>1, <2>2
  <2> QED
    BY <1>2, <2>3
<1>4. \A k \in D : b >= k
  BY <1>2
<1>5. \E x \in D : \A k \in D : x >= k
  BY <1>3, <1>4
<1> HIDE DEF B
<1>6. Max(D) \in D /\ \A k \in D : Max(D) >= k
  BY <1>5 DEF Max
<1> QED
  BY <1>6

-----------------------------------------------------------------------------
(* The configuration: the loops of config.New read what is before the      *)
(* place where they are.                                                   *)


\* The first files of a directory, before file n.
ContentsBefore(dir, n) ==
  {dir[k].contents : k \in {m \in 1..(n - 1) : dir[m].kind # "skipped"}}

IsPoolBefore(dir, n) ==
  /\ \A k \in 1..(n - 1) : dir[k].kind \in {"skipped", "ok"} /\ (dir[k].kind = "ok" => dir[k].id # "")
  /\ \A k, m \in 1..(n - 1) :
       k # m /\ dir[k].kind = "ok" /\ dir[m].kind = "ok" => dir[k].contents # dir[m].contents

\* A place in a directory, or its end.
IsPlace(dir, n) == n \in 1..(Len(dir) + 1) /\ Len(dir) \in Nat /\ DOMAIN dir = 1..Len(dir)

\* A pool of which nothing is enabled yet.
PoolRead(dir, n, pool) ==
  /\ IsPlace(dir, n)
  /\ IsPoolBefore(dir, n)
  /\ DOMAIN pool = ContentsBefore(dir, n)
  /\ \A h \in DOMAIN pool : "Enabled" \in DOMAIN pool[h] /\ pool[h].Enabled = FALSE

\* The flags and the list of what is enabled, and what was not found.
EnabledRead(dir, n, pool, list, missed) ==
  /\ IsPlace(dir, n)
  /\ \A k \in 1..(n - 1) : dir[k].kind # "unreadable"
  /\ list \in Seq(DOMAIN pool)
  /\ Range(list) = ContentsBefore(dir, n) \cap DOMAIN pool
  /\ \A h \in DOMAIN pool :
       /\ "Enabled" \in DOMAIN pool[h]
       /\ pool[h].Enabled \in BOOLEAN
       /\ pool[h].Enabled <=> h \in ContentsBefore(dir, n)
  /\ missed = {} <=> ContentsBefore(dir, n) \subseteq DOMAIN pool

-----------------------------------------------------------------------------
(* What one more file changes.                                             *)

LEMMA OneMore ==
  ASSUME NEW dir, NEW n, IsPlace(dir, n), n <= Len(dir)
  PROVE  /\ IsPlace(dir, n + 1)
         /\ n \in DOMAIN dir /\ n \notin 1..(n - 1) /\ 1..(n - 1) \subseteq DOMAIN dir
         /\ 1..((n + 1) - 1) = 1..(n - 1) \cup {n}
         /\ dir[n].kind = "skipped" => ContentsBefore(dir, n + 1) = ContentsBefore(dir, n)
         /\ dir[n].kind # "skipped" =>
              ContentsBefore(dir, n + 1) = ContentsBefore(dir, n) \cup {dir[n].contents}
<1>1. /\ IsPlace(dir, n + 1)
      /\ n \in DOMAIN dir /\ n \notin 1..(n - 1) /\ 1..(n - 1) \subseteq DOMAIN dir
      /\ 1..((n + 1) - 1) = 1..(n - 1) \cup {n}
  BY DEF IsPlace
<1> QED
  BY <1>1 DEF ContentsBefore

\* A list that is not empty has something in it.
LEMMA NotEmpty ==
  ASSUME NEW S, NEW s \in Seq(S)
  PROVE  Range(s) # {} <=> s # <<>>
<1>1. DOMAIN s = {} <=> s = <<>>
  <2>1. DOMAIN s = 1..Len(s) /\ Len(s) \in Nat
    OBVIOUS
  <2>2. ASSUME DOMAIN s = {} PROVE s = <<>>
    BY <2>1, <2>2
  <2> QED
    BY <2>2
<1> QED
  BY <1>1 DEF Range

LEMMA AtTheEnd ==
  ASSUME NEW dir, NEW n, IsPlace(dir, n), n > Len(dir)
  PROVE  n = Len(dir) + 1
BY DEF IsPlace

\* The place inside of a service moves.
LEMMA Moves ==
  ASSUME NEW p \in Nat \X Nat, NEW k \in Nat
  PROVE  LET q == [p EXCEPT ![2] = k] IN q \in Nat \X Nat /\ q[1] = p[1] /\ q[2] = k
OBVIOUS

LEMMA MovesOn ==
  ASSUME place \in Nat \X Nat, NextTemplateFile
  PROVE  place' \in Nat \X Nat /\ place'[1] = place[1] /\ place'[2] = place[2] + 1
<1>1. place' = [place EXCEPT ![2] = place[2] + 1] /\ place[2] + 1 \in Nat
  BY DEF NextTemplateFile
<1> QED
  BY <1>1, Moves

LEMMA MovesToNextFile ==
  ASSUME place \in Nat \X Nat, NextFile
  PROVE  place' \in Nat \X Nat /\ place'[1] = place[1] + 1 /\ place'[2] = 1
<1>1. place[1] + 1 \in Nat
  OBVIOUS
<1> QED
  BY <1>1 DEF NextFile

\* All of them.
LEMMA AllRead ==
  ASSUME NEW dir, IsPlace(dir, Len(dir) + 1)
  PROVE  /\ ContentsBefore(dir, Len(dir) + 1) = Contents(dir)
         /\ IsPoolBefore(dir, Len(dir) + 1) = IsPool(dir)
<1>1. DOMAIN dir = 1..((Len(dir) + 1) - 1)
  BY DEF IsPlace
<1> QED
  BY <1>1 DEF ContentsBefore, Contents, IsPoolBefore, IsPool

\* None of them.
LEMMA NoneRead ==
  ASSUME NEW dir, dir \in Seq(Range(dir))
  PROVE  /\ IsPlace(dir, 1) /\ ContentsBefore(dir, 1) = {} /\ IsPoolBefore(dir, 1)
<1>1. Len(dir) \in Nat /\ DOMAIN dir = 1..Len(dir) /\ 1..(1 - 1) = {}
  OBVIOUS
<1> QED
  BY <1>1 DEF IsPlace, ContentsBefore, IsPoolBefore

\* A pool: a file is skipped,
LEMMA PoolSkips ==
  ASSUME NEW dir, NEW n, NEW pool, PoolRead(dir, n, pool), n <= Len(dir), dir[n].kind = "skipped"
  PROVE  PoolRead(dir, n + 1, pool)
<1>1. IsPlace(dir, n + 1) /\ ContentsBefore(dir, n + 1) = ContentsBefore(dir, n)
  BY OneMore DEF PoolRead
<1>2. 1..((n + 1) - 1) = 1..(n - 1) \cup {n}
  BY OneMore DEF PoolRead
<1>3. IsPoolBefore(dir, n + 1)
  BY <1>2 DEF PoolRead, IsPoolBefore
<1> QED
  BY <1>1, <1>3 DEF PoolRead

\* or legal and new,
LEMMA PoolAdds ==
  ASSUME NEW dir, NEW n, NEW pool, PoolRead(dir, n, pool), n <= Len(dir),
         dir[n].kind = "ok", dir[n].id # "", ~Duplicate(pool, dir[n].contents),
         NEW x, "Enabled" \in DOMAIN x, x.Enabled = FALSE
  PROVE  PoolRead(dir, n + 1, Set(pool, dir[n].contents, x))
<1>1. /\ IsPlace(dir, n + 1)
      /\ ContentsBefore(dir, n + 1) = ContentsBefore(dir, n) \cup {dir[n].contents}
  BY OneMore DEF PoolRead
<1>2. 1..((n + 1) - 1) = 1..(n - 1) \cup {n}
  BY OneMore DEF PoolRead
<1>3. dir[n].contents \notin ContentsBefore(dir, n)
  BY DEF PoolRead, Duplicate
<1>4. \A k \in 1..(n - 1) : dir[k].kind = "ok" => dir[k].contents # dir[n].contents
  BY <1>3 DEF ContentsBefore
<1>5. IsPoolBefore(dir, n + 1)
  BY <1>2, <1>4 DEF PoolRead, IsPoolBefore
<1>6. /\ DOMAIN Set(pool, dir[n].contents, x) = ContentsBefore(dir, n + 1)
      /\ \A h \in ContentsBefore(dir, n + 1) :
           Set(pool, dir[n].contents, x)[h] = IF h = dir[n].contents THEN x ELSE pool[h]
  BY <1>1 DEF Set, PoolRead
<1> QED
  BY <1>1, <1>5, <1>6 DEF PoolRead

\* or this is not a pool.
LEMMA PoolRefuses ==
  ASSUME NEW dir, NEW n, NEW pool, PoolRead(dir, n, pool), n <= Len(dir), dir[n].kind # "skipped",
         ~(dir[n].kind = "ok" /\ dir[n].id # "") \/ Duplicate(pool, dir[n].contents)
  PROVE  ~IsPool(dir)
<1>1. n \in DOMAIN dir /\ 1..(n - 1) \subseteq DOMAIN dir /\ n \notin 1..(n - 1)
  BY OneMore DEF PoolRead
<1>2. CASE ~(dir[n].kind = "ok" /\ dir[n].id # "")
  BY <1>1, <1>2 DEF IsPool
<1>3. CASE dir[n].kind = "ok" /\ Duplicate(pool, dir[n].contents)
  <2>1. PICK k \in 1..(n - 1) : dir[k].kind # "skipped" /\ dir[k].contents = dir[n].contents
    BY <1>3 DEF Duplicate, PoolRead, ContentsBefore
  <2>2. dir[k].kind = "ok"
    BY <2>1 DEF PoolRead, IsPoolBefore
  <2> QED
    BY <1>1, <1>3, <2>1, <2>2 DEF IsPool
<1> QED
  BY <1>2, <1>3

\* The enabled ones: a file is skipped,
LEMMA EnabledSkips ==
  ASSUME NEW dir, NEW n, NEW pool, NEW list, NEW missed, EnabledRead(dir, n, pool, list, missed),
         n <= Len(dir), dir[n].kind = "skipped"
  PROVE  EnabledRead(dir, n + 1, pool, list, missed)
<1>1. IsPlace(dir, n + 1) /\ ContentsBefore(dir, n + 1) = ContentsBefore(dir, n)
  BY OneMore DEF EnabledRead
<1>2. 1..((n + 1) - 1) = 1..(n - 1) \cup {n}
  BY OneMore DEF EnabledRead
<1>3. \A k \in 1..((n + 1) - 1) : dir[k].kind # "unreadable"
  BY <1>2 DEF EnabledRead
<1> QED
  BY <1>1, <1>3 DEF EnabledRead

Flag(pool, c) == [pool EXCEPT ![c].Enabled = TRUE]

\* or found in the pool,
LEMMA EnabledFinds ==
  ASSUME NEW dir, NEW n, NEW pool, NEW list, NEW missed, EnabledRead(dir, n, pool, list, missed),
         n <= Len(dir), dir[n].kind \notin {"skipped", "unreadable"}, dir[n].contents \in DOMAIN pool
  PROVE  EnabledRead(dir, n + 1, Flag(pool, dir[n].contents), Append(list, dir[n].contents), missed)
<1> DEFINE c == dir[n].contents
<1>1. IsPlace(dir, n + 1) /\ ContentsBefore(dir, n + 1) = ContentsBefore(dir, n) \cup {c}
  BY OneMore DEF EnabledRead
<1>2. 1..((n + 1) - 1) = 1..(n - 1) \cup {n}
  BY OneMore DEF EnabledRead
<1>3. \A k \in 1..((n + 1) - 1) : dir[k].kind # "unreadable"
  BY <1>2 DEF EnabledRead
<1>4. /\ DOMAIN Flag(pool, c) = DOMAIN pool
      /\ \A h \in DOMAIN pool \ {c} : Flag(pool, c)[h] = pool[h]
      /\ "Enabled" \in DOMAIN Flag(pool, c)[c] /\ Flag(pool, c)[c].Enabled = TRUE
  <2>1. /\ DOMAIN Flag(pool, c) = DOMAIN pool
        /\ \A h \in DOMAIN pool \ {c} : Flag(pool, c)[h] = pool[h]
        /\ Flag(pool, c)[c] = [pool[c] EXCEPT !.Enabled = TRUE]
    BY DEF Flag
  <2>2. "Enabled" \in DOMAIN pool[c]
    BY DEF EnabledRead
  <2> QED
    BY <2>1, <2>2
<1>5. Append(list, c) \in Seq(DOMAIN pool) /\ Range(Append(list, c)) = Range(list) \cup {c}
  <2>1. list \in Seq(DOMAIN pool)
    BY DEF EnabledRead
  <2>2. /\ DOMAIN Append(list, c) = DOMAIN list \cup {Len(list) + 1}
        /\ \A k \in DOMAIN list : Append(list, c)[k] = list[k]
        /\ Append(list, c)[Len(list) + 1] = c
    BY <2>1
  <2> QED
    BY <2>1, <2>2 DEF Range
<1>6. \A h \in DOMAIN pool :
        /\ "Enabled" \in DOMAIN Flag(pool, c)[h]
        /\ Flag(pool, c)[h].Enabled \in BOOLEAN
        /\ Flag(pool, c)[h].Enabled <=> h \in ContentsBefore(dir, n + 1)
  <2> SUFFICES ASSUME NEW h \in DOMAIN pool
               PROVE  /\ "Enabled" \in DOMAIN Flag(pool, c)[h]
                      /\ Flag(pool, c)[h].Enabled \in BOOLEAN
                      /\ Flag(pool, c)[h].Enabled <=> h \in ContentsBefore(dir, n + 1)
    OBVIOUS
  <2>1. CASE h = c
    BY <2>1, <1>1, <1>4
  <2>2. CASE h # c
    BY <2>2, <1>1, <1>4 DEF EnabledRead
  <2> QED
    BY <2>1, <2>2
<1>7. Range(Append(list, c)) = ContentsBefore(dir, n + 1) \cap DOMAIN pool
  BY <1>1, <1>5 DEF EnabledRead
<1>8. missed = {} <=> ContentsBefore(dir, n + 1) \subseteq DOMAIN pool
  BY <1>1 DEF EnabledRead
<1> HIDE DEF c
<1> QED
  BY <1>1, <1>3, <1>4, <1>5, <1>6, <1>7, <1>8 DEF EnabledRead, c

\* or not.
LEMMA EnabledMisses ==
  ASSUME NEW dir, NEW n, NEW pool, NEW list, NEW missed, EnabledRead(dir, n, pool, list, missed),
         n <= Len(dir), dir[n].kind \notin {"skipped", "unreadable"},
         dir[n].contents \notin DOMAIN pool, NEW name
  PROVE  EnabledRead(dir, n + 1, pool, list, missed \cup {name})
<1>1. /\ IsPlace(dir, n + 1)
      /\ ContentsBefore(dir, n + 1) = ContentsBefore(dir, n) \cup {dir[n].contents}
  BY OneMore DEF EnabledRead
<1>2. 1..((n + 1) - 1) = 1..(n - 1) \cup {n}
  BY OneMore DEF EnabledRead
<1>3. \A k \in 1..((n + 1) - 1) : dir[k].kind # "unreadable"
  BY <1>2 DEF EnabledRead
<1> QED
  BY <1>1, <1>3 DEF EnabledRead

\* At the end, what was missed tells whether this is a choice of the pool.
LEMMA EnabledEnds ==
  ASSUME NEW all, NEW dir, NEW pool, NEW list, NEW missed,
         EnabledRead(dir, Len(dir) + 1, pool, list, missed),
         IsPool(all), DOMAIN pool = Contents(all)
  PROVE  /\ missed = {} <=> IsSelected(all, dir)
         /\ missed = {} => Flagged(pool) = Contents(dir) /\ Range(list) = Contents(dir)
<1>1. IsPlace(dir, Len(dir) + 1) /\ ContentsBefore(dir, Len(dir) + 1) = Contents(dir)
  BY AllRead DEF EnabledRead
<1>2. \A k \in DOMAIN dir : dir[k].kind # "unreadable"
  BY <1>1 DEF EnabledRead, IsPlace
<1>3. missed = {} <=> IsSelected(all, dir)
  BY <1>1, <1>2 DEF EnabledRead, IsSelected
<1>4. ASSUME missed = {} PROVE Flagged(pool) = Contents(dir) /\ Range(list) = Contents(dir)
  BY <1>1, <1>4 DEF EnabledRead, Flagged
<1> QED
  BY <1>3, <1>4

\* A pool of which nothing is enabled is where the second loop begins.
LEMMA EnabledBegins ==
  ASSUME NEW dir, NEW pool, dir \in Seq(Range(dir)),
         \A h \in DOMAIN pool : "Enabled" \in DOMAIN pool[h] /\ pool[h].Enabled = FALSE
  PROVE  EnabledRead(dir, 1, pool, <<>>, {})
<1>1. Range(<<>>) = {} /\ <<>> \in Seq(DOMAIN pool) /\ 1..(1 - 1) = {}
  BY DEF Range
<1> QED
  BY <1>1, NoneRead DEF EnabledRead

-----------------------------------------------------------------------------
(* The invariant.                                                          *)

Loops   == {"services", "templates", "enabled templates"}
Reading == {"server", "enabled services", "read", "failed"} \cup Loops

\* A service that was read is what its directories hold.
IsRead(s, c) ==
  /\ {"Enabled", "Templates", "TemplatesEnabled"} \subseteq DOMAIN s
  /\ IsSelected(c.all, c.enabled)
  /\ DOMAIN s.Templates = Contents(c.all)
  /\ Flagged(s.Templates) = Contents(c.enabled)
  /\ Range(s.TemplatesEnabled) = Contents(c.enabled)
  /\ s.TemplatesEnabled \in Seq(Contents(c.all))

AllAreRead == \A c \in DOMAIN conf.Services : IsRead(conf.Services[c], c)

Shape ==
  /\ disk \in Disks
  /\ place \in Nat \X Nat
  /\ conf = [api |-> conf.api, Services |-> conf.Services, ServicesEnabled |-> conf.ServicesEnabled]

StartInv ==
  pc = "server" => place = <<1, 1>>

\* readAllServices has read the services before the place.
ServicesInv ==
  pc \in Loops =>
    /\ disk.server = "ok"
    /\ PoolRead(disk.all, place[1], conf.Services)
    /\ conf.ServicesEnabled = <<>>
    /\ AllAreRead
    /\ pc = "services" => place[2] = 1

\* Of the service at the place, the templates before the place,
ServiceInv ==
  pc \in {"templates", "enabled templates"} =>
    /\ place[1] <= Len(disk.all) /\ File.kind = "ok" /\ File.id # ""
    /\ {"Enabled", "Templates", "TemplatesEnabled"} \subseteq DOMAIN service
    /\ service.Enabled = FALSE

TemplatesInv ==
  pc = "templates" =>
    /\ PoolRead(File.contents.all, place[2], service.Templates)
    /\ service.TemplatesEnabled = <<>>
    /\ alien = {}

\* and of the enabled ones those before the place.
EnabledTemplatesInv ==
  pc = "enabled templates" =>
    /\ IsPool(File.contents.all)
    /\ DOMAIN service.Templates = Contents(File.contents.all)
    /\ EnabledRead(File.contents.enabled, place[2], service.Templates, service.TemplatesEnabled, alien)

EnabledServicesInv ==
  pc = "enabled services" =>
    /\ disk.server = "ok"
    /\ IsPool(disk.all) /\ DOMAIN conf.Services = Contents(disk.all)
    /\ AllAreRead
    /\ EnabledRead(disk.enabled, place[1], conf.Services, conf.ServicesEnabled, alien)

Legal ==
  /\ disk.server = "ok" /\ IsSelected(disk.all, disk.enabled)
  /\ \A c \in Contents(disk.all) : IsSelected(c.all, c.enabled)

Serves ==
  /\ Contents(disk.enabled) # {}
  /\ \A c \in Contents(disk.enabled) : Contents(c.enabled) # {}

\* The configuration is what the directories hold.
Agrees ==
  /\ Legal
  /\ AllAreRead
  /\ DOMAIN conf.Services = Contents(disk.all)
  /\ Flagged(conf.Services) = Contents(disk.enabled)
  /\ Range(conf.ServicesEnabled) = Contents(disk.enabled)
  /\ conf.ServicesEnabled \in Seq(Contents(disk.all))

EndInv ==
  /\ pc = "read" => Agrees
  /\ pc \notin Reading => Agrees /\ Serves
  /\ pc = "failed" => ~(Legal /\ Serves)

ConfigInv ==
  /\ Shape /\ StartInv
  /\ ServicesInv /\ ServiceInv /\ TemplatesInv /\ EnabledTemplatesInv
  /\ EnabledServicesInv /\ EndInv

LEMMA ConfigInitInv == ConfigInit => ConfigInv
<1> SUFFICES ASSUME ConfigInit PROVE ConfigInv
  OBVIOUS
<1>1. pc = "server" /\ disk \in Disks /\ place = <<1, 1>> /\ conf = NoConfig
  BY DEF ConfigInit
<1>2. Shape /\ StartInv
  BY <1>1 DEF Shape, StartInv, NoConfig
<1>3. ServicesInv /\ ServiceInv /\ TemplatesInv /\ EnabledTemplatesInv /\ EnabledServicesInv /\ EndInv
  BY <1>1 DEF ServicesInv, ServiceInv, TemplatesInv, EnabledTemplatesInv, EnabledServicesInv, EndInv,
              Loops, Reading
<1> QED
  BY <1>2, <1>3 DEF ConfigInv

\* The directories of the disk, and those of a service, are sequences.
LEMMA Listed ==
  ASSUME Shape
  PROVE  /\ disk.all \in Seq(Range(disk.all)) /\ disk.enabled \in Seq(Range(disk.enabled))
         /\ \A n \in DOMAIN disk.all : disk.all[n].kind = "ok" =>
              /\ disk.all[n].contents.all \in Seq(Range(disk.all[n].contents.all))
              /\ disk.all[n].contents.enabled \in Seq(Range(disk.all[n].contents.enabled))
BY DisksAssumption DEF Shape

\* A step that refuses what is not legal.
LEMMA FailStep ==
  ASSUME ConfigInv, pc' = "failed", UNCHANGED disk, Shape', ~(Legal /\ Serves)
  PROVE  ConfigInv'
<1>1. ~(Legal /\ Serves)'
  BY DEF Legal, Serves
<1>2. EndInv'
  BY <1>1 DEF EndInv, Reading
<1>3. StartInv' /\ ServicesInv' /\ ServiceInv' /\ TemplatesInv' /\ EnabledTemplatesInv' /\ EnabledServicesInv'
  BY DEF StartInv, ServicesInv, ServiceInv, TemplatesInv, EnabledTemplatesInv, EnabledServicesInv, Loops
<1> QED
  BY <1>2, <1>3 DEF ConfigInv

LEMMA FailKeepsShape ==
  ASSUME Shape, UNCHANGED confvars
  PROVE  Shape'
BY DEF Shape, confvars

\* The server's own file comes first.
LEMMA readServerConfigStep ==
  ASSUME ConfigInv, readServerConfig
  PROVE  ConfigInv'
<1>1. CASE disk.server # "ok"
  <2>1. pc' = "failed" /\ UNCHANGED confvars
    BY <1>1 DEF readServerConfig, Fail
  <2>2. ~Legal
    BY <1>1 DEF Legal
  <2> QED
    BY <2>1, <2>2, FailStep, FailKeepsShape DEF ConfigInv, confvars
<1>2. CASE disk.server = "ok"
  <2>1. /\ pc' = "services" /\ UNCHANGED <<disk, place, service, alien>>
        /\ conf' = [NoConfig EXCEPT !.api = disk.api]
        /\ place = <<1, 1>>
    BY <1>2 DEF readServerConfig, Goto, Fail, ConfigInv, StartInv
  <2>2. /\ conf'.Services = <<>> /\ conf'.ServicesEnabled = <<>>
        /\ Shape'
    BY <2>1 DEF NoConfig, Shape, ConfigInv
  <2>3. PoolRead(disk.all, 1, <<>>)
    BY Listed, NoneRead DEF ConfigInv, PoolRead
  <2>4. ServicesInv'
    BY <1>2, <2>1, <2>2, <2>3 DEF ServicesInv, AllAreRead
  <2>5. StartInv' /\ ServiceInv' /\ TemplatesInv' /\ EnabledTemplatesInv' /\ EnabledServicesInv' /\ EndInv'
    BY <2>1 DEF StartInv, ServiceInv, TemplatesInv, EnabledTemplatesInv, EnabledServicesInv, EndInv,
                Reading, Loops
  <2> QED
    BY <2>2, <2>4, <2>5 DEF ConfigInv
<1> QED
  BY <1>1, <1>2

\* Reading a file of the pool of services.
LEMMA readAllServicesStep ==
  ASSUME ConfigInv, readAllServices
  PROVE  ConfigInv'
<1>1. /\ pc = "services" /\ place[1] <= Len(disk.all)
      /\ PoolRead(disk.all, place[1], conf.Services) /\ place[2] = 1
      /\ disk.server = "ok" /\ conf.ServicesEnabled = <<>> /\ AllAreRead
      /\ place \in Nat \X Nat /\ Shape
  BY DEF readAllServices, ConfigInv, ServicesInv, Loops, Shape
<1>2. CASE File.kind = "skipped" /\ NextFile /\ UNCHANGED <<disk, pc, conf, service, alien>>
  <2>1. place' = <<place[1] + 1, 1>> /\ place'[1] = place[1] + 1 /\ place'[2] = 1
    BY <1>2 DEF NextFile
  <2>2. PoolRead(disk.all, place[1] + 1, conf.Services)
    BY <1>1, <1>2, PoolSkips DEF File
  <2>3. ServicesInv'
    BY <1>1, <1>2, <2>1, <2>2 DEF ServicesInv, AllAreRead
  <2>4. Shape'
    BY <1>1, <1>2, <2>1 DEF Shape
  <2>5. StartInv' /\ ServiceInv' /\ TemplatesInv' /\ EnabledTemplatesInv' /\ EnabledServicesInv' /\ EndInv'
    BY <1>1, <1>2 DEF StartInv, ServiceInv, TemplatesInv, EnabledTemplatesInv, EnabledServicesInv, EndInv,
                Reading, Loops
  <2> QED
    BY <2>3, <2>4, <2>5 DEF ConfigInv
<1>3. CASE /\ File.kind = "ok" /\ File.id # "" /\ Goto("templates")
           /\ service' = [id |-> File.id, FilePath |-> File.name, Path |-> File.contents.path,
                          Enabled |-> FALSE, Templates |-> <<>>, TemplatesEnabled |-> <<>>]
           /\ alien' = {} /\ UNCHANGED <<disk, place, conf>>
  <2>1. File' = File /\ pc' = "templates"
    BY <1>3 DEF File, Goto
  <2>2. place[1] \in DOMAIN disk.all
    BY <1>1, OneMore DEF PoolRead
  <2>3. PoolRead(File.contents.all, 1, <<>>)
    <3>1. File.contents.all \in Seq(Range(File.contents.all))
      BY <1>1, <1>3, <2>2, Listed DEF File
    <3> QED
      BY <3>1, NoneRead DEF PoolRead
  <2>4. service'.Templates = <<>> /\ service'.TemplatesEnabled = <<>> /\ service'.Enabled = FALSE
        /\ {"Enabled", "Templates", "TemplatesEnabled"} \subseteq DOMAIN service'
    BY <1>3
  <2>5. TemplatesInv'
    BY <1>1, <1>3, <2>1, <2>3, <2>4 DEF TemplatesInv
  <2>6. ServicesInv' /\ Shape'
    BY <1>1, <1>3, <2>1 DEF ServicesInv, AllAreRead, Shape
  <2>7. ServiceInv'
    BY <1>1, <1>3, <2>1, <2>4 DEF ServiceInv
  <2>8. StartInv' /\ EnabledTemplatesInv' /\ EnabledServicesInv' /\ EndInv'
    BY <2>1 DEF StartInv, EnabledTemplatesInv, EnabledServicesInv, EndInv, Reading, Loops
  <2> QED
    BY <2>5, <2>6, <2>7, <2>8 DEF ConfigInv
<1>4. CASE /\ File.kind \in {"unreadable", "illegal"} \/ (File.kind = "ok" /\ File.id = "")
           /\ Fail
  <2>1. pc' = "failed" /\ UNCHANGED confvars
    BY <1>4 DEF Fail
  <2>2. ~IsPool(disk.all)
    BY <1>1, <1>4, PoolRefuses DEF File
  <2>3. ~Legal
    BY <2>2 DEF Legal, IsSelected
  <2> QED
    BY <2>1, <2>3, FailStep, FailKeepsShape DEF ConfigInv, confvars
<1> QED
  BY <1>2, <1>3, <1>4 DEF readAllServices

\* Reading a template of the pool of a service.
LEMMA readAllTemplatesStep ==
  ASSUME ConfigInv, readAllTemplates
  PROVE  ConfigInv'
<1> DEFINE dir == File.contents.all
           t == dir[place[2]]
<1>1. /\ pc = "templates" /\ place \in Nat \X Nat /\ Shape /\ ServicesInv /\ ServiceInv
      /\ PoolRead(dir, place[2], service.Templates)
      /\ service.TemplatesEnabled = <<>> /\ alien = {}
  BY DEF readAllTemplates, ConfigInv, TemplatesInv, Shape
<1>2. /\ place[1] <= Len(disk.all) /\ File.kind = "ok" /\ File.id # ""
      /\ {"Enabled", "Templates", "TemplatesEnabled"} \subseteq DOMAIN service
      /\ service.Enabled = FALSE
  BY <1>1 DEF ServiceInv
<1>3. place[1] \in DOMAIN disk.all
  BY <1>1, <1>2, OneMore DEF ServicesInv, Loops, PoolRead
<1>4. CASE /\ place[2] > Len(dir) /\ Goto("enabled templates")
           /\ place' = [place EXCEPT ![2] = 1] /\ UNCHANGED <<disk, conf, service, alien>>
  <2>1. /\ pc' = "enabled templates" /\ place' \in Nat \X Nat
        /\ place'[1] = place[1] /\ place'[2] = 1 /\ File' = File
    BY <1>1, <1>4, Moves DEF Goto, File
  <2>2. place[2] = Len(dir) + 1
    BY <1>1, <1>4, AtTheEnd DEF PoolRead
  <2>3. IsPool(dir) /\ DOMAIN service.Templates = Contents(dir)
    BY <1>1, <2>2, AllRead DEF PoolRead
  <2>4. File.contents.enabled \in Seq(Range(File.contents.enabled))
    BY <1>1, <1>2, <1>3, Listed DEF File
  <2>5. EnabledRead(File.contents.enabled, 1, service.Templates, <<>>, {})
    BY <1>1, <2>4, EnabledBegins DEF PoolRead
  <2>6. EnabledTemplatesInv'
    BY <1>1, <1>4, <2>1, <2>3, <2>5 DEF EnabledTemplatesInv
  <2>7. ServicesInv' /\ ServiceInv' /\ Shape'
    BY <1>1, <1>2, <1>4, <2>1 DEF ServicesInv, ServiceInv, AllAreRead, Shape, Loops
  <2>8. StartInv' /\ TemplatesInv' /\ EnabledServicesInv' /\ EndInv'
    BY <2>1 DEF StartInv, TemplatesInv, EnabledServicesInv, EndInv, Reading, Loops
  <2> QED
    BY <2>6, <2>7, <2>8 DEF ConfigInv
<1>5. ASSUME NEW pool, PoolRead(dir, place[2] + 1, pool),
             service'.Templates = pool, service'.TemplatesEnabled = service.TemplatesEnabled,
             service'.Enabled = service.Enabled, DOMAIN service' = DOMAIN service,
             NextTemplateFile, UNCHANGED <<disk, pc, conf, alien>>
      PROVE  ConfigInv'
  <2>1. /\ place' \in Nat \X Nat /\ place'[1] = place[1] /\ place'[2] = place[2] + 1
        /\ File' = File /\ pc' = "templates"
    BY <1>1, <1>5, MovesOn DEF File
  <2>3. TemplatesInv'
    BY <1>1, <1>5, <2>1 DEF TemplatesInv
  <2>4. ServicesInv' /\ Shape'
    BY <1>1, <1>5, <2>1 DEF ServicesInv, AllAreRead, Shape, Loops
  <2>5. ServiceInv'
    BY <1>2, <1>5, <2>1 DEF ServiceInv
  <2>6. StartInv' /\ EnabledTemplatesInv' /\ EnabledServicesInv' /\ EndInv'
    BY <2>1 DEF StartInv, EnabledTemplatesInv, EnabledServicesInv, EndInv, Reading, Loops
  <2> QED
    BY <2>3, <2>4, <2>5, <2>6 DEF ConfigInv
<1>6. CASE /\ place[2] <= Len(dir) /\ t.kind = "skipped" /\ NextTemplateFile
           /\ UNCHANGED <<disk, pc, conf, service, alien>>
  <2>1. PoolRead(dir, place[2] + 1, service.Templates)
    BY <1>1, <1>6, PoolSkips
  <2> QED
    BY <1>5, <1>6, <2>1
<1>7. CASE /\ place[2] <= Len(dir) /\ IsTemplate(t) /\ ~Duplicate(service.Templates, t.contents)
           /\ service' = [service EXCEPT !.Templates =
                            Set(@, t.contents, [ID |-> t.id, Enabled |-> FALSE])]
           /\ NextTemplateFile /\ UNCHANGED <<disk, pc, conf, alien>>
  <2> DEFINE x == [ID |-> t.id, Enabled |-> FALSE]
             pool == Set(service.Templates, t.contents, x)
  <2>1. "Enabled" \in DOMAIN x /\ x.Enabled = FALSE
    OBVIOUS
  <2> HIDE DEF x
  <2>2. PoolRead(dir, place[2] + 1, pool)
    BY <1>1, <1>7, <2>1, PoolAdds DEF IsTemplate
  <2>3. /\ service'.Templates = pool /\ service'.TemplatesEnabled = service.TemplatesEnabled
        /\ service'.Enabled = service.Enabled /\ DOMAIN service' = DOMAIN service
    BY <1>2, <1>7 DEF x
  <2> HIDE DEF pool
  <2> QED
    BY <1>5, <1>7, <2>2, <2>3
<1>8. CASE /\ place[2] <= Len(dir) /\ t.kind # "skipped"
           /\ ~IsTemplate(t) \/ Duplicate(service.Templates, t.contents)
           /\ Fail
  <2>1. pc' = "failed" /\ UNCHANGED confvars
    BY <1>8 DEF Fail
  <2>2. ~IsPool(dir)
    BY <1>1, <1>8, PoolRefuses DEF IsTemplate
  <2>3. File.contents \in Contents(disk.all)
    BY <1>2, <1>3 DEF Contents, File
  <2>4. ~Legal
    BY <2>2, <2>3 DEF Legal, IsSelected
  <2> QED
    BY <2>1, <2>4, <1>1, FailStep, FailKeepsShape DEF confvars
<1> QED
  BY <1>4, <1>6, <1>7, <1>8 DEF readAllTemplates

\* Reading an enabled template.
LEMMA readEnabledTemplatesStep ==
  ASSUME ConfigInv, readEnabledTemplates
  PROVE  ConfigInv'
<1> DEFINE dir == File.contents.enabled
           t == dir[place[2]]
<1>1. /\ pc = "enabled templates" /\ place \in Nat \X Nat /\ Shape /\ ServicesInv /\ ServiceInv
      /\ IsPool(File.contents.all)
      /\ DOMAIN service.Templates = Contents(File.contents.all)
      /\ EnabledRead(dir, place[2], service.Templates, service.TemplatesEnabled, alien)
      /\ place[2] <= Len(dir) /\ UNCHANGED <<disk, conf>>
  BY DEF readEnabledTemplates, ConfigInv, EnabledTemplatesInv, Shape
<1>2. /\ place[1] <= Len(disk.all) /\ File.kind = "ok" /\ File.id # ""
      /\ {"Enabled", "Templates", "TemplatesEnabled"} \subseteq DOMAIN service
      /\ service.Enabled = FALSE
  BY <1>1 DEF ServiceInv
<1>3. ASSUME EnabledRead(dir, place[2] + 1, service'.Templates, service'.TemplatesEnabled, alien'),
             DOMAIN service'.Templates = DOMAIN service.Templates,
             DOMAIN service' = DOMAIN service, service'.Enabled = FALSE,
             NextTemplateFile, UNCHANGED pc
      PROVE  ConfigInv'
  <2>1. /\ place' \in Nat \X Nat /\ place'[1] = place[1] /\ place'[2] = place[2] + 1
        /\ File' = File /\ pc' = "enabled templates"
    BY <1>1, <1>3, MovesOn DEF File
  <2>2. EnabledTemplatesInv'
    BY <1>1, <1>3, <2>1 DEF EnabledTemplatesInv
  <2>3. ServicesInv' /\ Shape'
    BY <1>1, <2>1 DEF ServicesInv, AllAreRead, Shape, Loops
  <2>4. ServiceInv'
    BY <1>1, <1>2, <1>3, <2>1 DEF ServiceInv
  <2>5. StartInv' /\ TemplatesInv' /\ EnabledServicesInv' /\ EndInv'
    BY <2>1 DEF StartInv, TemplatesInv, EnabledServicesInv, EndInv, Reading, Loops
  <2> QED
    BY <2>2, <2>3, <2>4, <2>5 DEF ConfigInv
<1>4. CASE t.kind = "skipped" /\ NextTemplateFile /\ UNCHANGED <<pc, service, alien>>
  BY <1>1, <1>2, <1>3, <1>4, EnabledSkips
<1>5. CASE /\ t.kind \notin {"skipped", "unreadable"} /\ t.contents \in DOMAIN service.Templates
           /\ service' = [service EXCEPT !.Templates[t.contents].Enabled = TRUE,
                                         !.TemplatesEnabled = Append(@, t.contents)]
           /\ NextTemplateFile /\ UNCHANGED <<pc, alien>>
  <2>1. /\ service'.Templates = Flag(service.Templates, t.contents)
        /\ service'.TemplatesEnabled = Append(service.TemplatesEnabled, t.contents)
        /\ service'.Enabled = FALSE /\ DOMAIN service' = DOMAIN service
    BY <1>2, <1>5 DEF Flag
  <2>2. DOMAIN Flag(service.Templates, t.contents) = DOMAIN service.Templates
    BY DEF Flag
  <2>3. EnabledRead(dir, place[2] + 1, service'.Templates, service'.TemplatesEnabled, alien')
    <3> HIDE DEF dir
    <3>1. EnabledRead(dir, place[2] + 1, Flag(service.Templates, dir[place[2]].contents),
                      Append(service.TemplatesEnabled, dir[place[2]].contents), alien)
      BY <1>1, <1>5, EnabledFinds
    <3> QED
      BY <1>5, <2>1, <3>1
  <2> QED
    BY <1>3, <1>5, <2>1, <2>2, <2>3
<1>6. CASE /\ t.kind \notin {"skipped", "unreadable"} /\ t.contents \notin DOMAIN service.Templates
           /\ alien' = alien \cup {t.name}
           /\ NextTemplateFile /\ UNCHANGED <<pc, service>>
  BY <1>1, <1>2, <1>3, <1>6, EnabledMisses
<1>7. CASE t.kind = "unreadable" /\ pc' = "failed" /\ UNCHANGED <<place, service, alien>>
  <2>1. place[2] \in DOMAIN dir
    BY <1>1, OneMore DEF EnabledRead
  <2>2. place[1] \in DOMAIN disk.all
    BY <1>1, <1>2, OneMore DEF ServicesInv, Loops, PoolRead
  <2>3. File.contents \in Contents(disk.all)
    BY <1>2, <2>2 DEF Contents, File
  <2>4. ~Legal
    BY <1>7, <2>1, <2>3 DEF Legal, IsSelected
  <2> QED
    BY <1>1, <1>7, <2>4, FailStep, FailKeepsShape DEF confvars
<1> QED
  BY <1>4, <1>5, <1>6, <1>7 DEF readEnabledTemplates

\* The service is complete.
LEMMA AddServiceStep ==
  ASSUME ConfigInv, AddService
  PROVE  ConfigInv'
<1> DEFINE dir == File.contents.enabled
<1>1. /\ pc = "enabled templates" /\ place \in Nat \X Nat /\ Shape
      /\ IsPool(File.contents.all)
      /\ DOMAIN service.Templates = Contents(File.contents.all)
      /\ EnabledRead(dir, place[2], service.Templates, service.TemplatesEnabled, alien)
      /\ place[2] > Len(dir)
  BY DEF AddService, ConfigInv, EnabledTemplatesInv, Shape
<1>2. /\ place[1] <= Len(disk.all) /\ File.kind = "ok" /\ File.id # ""
      /\ {"Enabled", "Templates", "TemplatesEnabled"} \subseteq DOMAIN service
      /\ service.Enabled = FALSE
  BY <1>1 DEF ConfigInv, ServiceInv
<1>3. /\ disk.server = "ok" /\ PoolRead(disk.all, place[1], conf.Services)
      /\ conf.ServicesEnabled = <<>> /\ AllAreRead
  BY <1>1 DEF ConfigInv, ServicesInv, Loops
<1>4. place[1] \in DOMAIN disk.all
  BY <1>2, <1>3, OneMore DEF PoolRead
<1>5. EnabledRead(dir, Len(dir) + 1, service.Templates, service.TemplatesEnabled, alien)
  <2>1. IsPlace(dir, place[2])
    BY <1>1 DEF EnabledRead
  <2>2. place[2] = Len(dir) + 1
    BY <1>1, <2>1, AtTheEnd
  <2> QED
    BY <1>1, <2>2
<1>6. /\ alien = {} <=> IsSelected(File.contents.all, dir)
      /\ alien = {} => /\ Flagged(service.Templates) = Contents(dir)
                       /\ Range(service.TemplatesEnabled) = Contents(dir)
  BY <1>1, <1>5, EnabledEnds
<1>7. CASE /\ alien = {} /\ ~Duplicate(conf.Services, File.contents)
           /\ conf' = [conf EXCEPT !.Services = Set(@, File.contents, service)]
           /\ NextFile /\ Goto("services") /\ UNCHANGED <<disk, service, alien>>
  <2>1. /\ place' \in Nat \X Nat /\ place'[1] = place[1] + 1 /\ place'[2] = 1
        /\ pc' = "services"
    BY <1>1, <1>7, MovesToNextFile DEF Goto
  <2>2. /\ conf'.Services = Set(conf.Services, File.contents, service)
        /\ conf'.ServicesEnabled = <<>>
        /\ conf' = [api |-> conf'.api, Services |-> conf'.Services,
                    ServicesEnabled |-> conf'.ServicesEnabled]
    BY <1>1, <1>3, <1>7 DEF Shape
  <2>3. PoolRead(disk.all, place[1] + 1, Set(conf.Services, File.contents, service))
    BY <1>2, <1>3, <1>7, PoolAdds DEF File
  <2>4. IsRead(service, File.contents)
    BY <1>1, <1>2, <1>5, <1>6, <1>7 DEF IsRead, EnabledRead
  <2>5. AllAreRead'
    BY <1>3, <2>2, <2>4 DEF AllAreRead, Set
  <2>6. ServicesInv'
    BY <1>3, <1>7, <2>1, <2>2, <2>3, <2>5 DEF ServicesInv
  <2>7. Shape'
    BY <1>1, <1>7, <2>1, <2>2 DEF Shape
  <2>8. StartInv' /\ ServiceInv' /\ TemplatesInv' /\ EnabledTemplatesInv' /\ EnabledServicesInv' /\ EndInv'
    BY <2>1 DEF StartInv, ServiceInv, TemplatesInv, EnabledTemplatesInv, EnabledServicesInv, EndInv,
                Reading, Loops
  <2> QED
    BY <2>6, <2>7, <2>8 DEF ConfigInv
<1>8. CASE /\ alien # {} \/ Duplicate(conf.Services, File.contents)
           /\ Fail
  <2>1. pc' = "failed" /\ UNCHANGED confvars
    BY <1>8 DEF Fail
  <2>2. ASSUME alien # {} PROVE ~Legal
    <3>1. File.contents \in Contents(disk.all)
      BY <1>2, <1>4 DEF Contents, File
    <3> QED
      BY <2>2, <3>1, <1>6 DEF Legal
  <2>3. ASSUME Duplicate(conf.Services, File.contents) PROVE ~Legal
    <3>1. ~IsPool(disk.all)
      BY <1>2, <1>3, <2>3, PoolRefuses DEF File
    <3> QED
      BY <3>1 DEF Legal, IsSelected
  <2> QED
    BY <1>8, <2>1, <2>2, <2>3, <1>1, FailStep, FailKeepsShape DEF confvars
<1> QED
  BY <1>7, <1>8 DEF AddService

\* All services of the pool are there.
LEMMA EndOfServicesStep ==
  ASSUME ConfigInv, EndOfServices
  PROVE  ConfigInv'
<1>1. /\ pc = "services" /\ place[1] > Len(disk.all)
      /\ PoolRead(disk.all, place[1], conf.Services)
      /\ disk.server = "ok" /\ conf.ServicesEnabled = <<>> /\ AllAreRead /\ Shape
      /\ pc' = "enabled services" /\ place' = <<1, 1>> /\ alien' = {}
      /\ UNCHANGED <<disk, conf, service>>
  BY DEF EndOfServices, Goto, ConfigInv, ServicesInv, Loops
<1>2. place[1] = Len(disk.all) + 1
  BY <1>1, AtTheEnd DEF PoolRead
<1>3. IsPool(disk.all) /\ DOMAIN conf.Services = Contents(disk.all)
  BY <1>1, <1>2, AllRead DEF PoolRead
<1>4. EnabledRead(disk.enabled, 1, conf.Services, <<>>, {})
  BY <1>1, Listed, EnabledBegins DEF PoolRead
<1>5. EnabledServicesInv'
  BY <1>1, <1>3, <1>4 DEF EnabledServicesInv, AllAreRead
<1>6. Shape'
  BY <1>1 DEF Shape
<1>7. StartInv' /\ ServicesInv' /\ ServiceInv' /\ TemplatesInv' /\ EnabledTemplatesInv' /\ EndInv'
  BY <1>1 DEF StartInv, ServicesInv, ServiceInv, TemplatesInv, EnabledTemplatesInv, EndInv, Reading, Loops
<1> QED
  BY <1>5, <1>6, <1>7 DEF ConfigInv

\* Reading an enabled service.
LEMMA readEnabledServicesStep ==
  ASSUME ConfigInv, readEnabledServices
  PROVE  ConfigInv'
<1> DEFINE file == disk.enabled[place[1]]
<1>1. /\ pc = "enabled services" /\ place \in Nat \X Nat /\ Shape
      /\ disk.server = "ok" /\ IsPool(disk.all) /\ DOMAIN conf.Services = Contents(disk.all)
      /\ AllAreRead
      /\ EnabledRead(disk.enabled, place[1], conf.Services, conf.ServicesEnabled, alien)
      /\ place[1] <= Len(disk.enabled) /\ UNCHANGED <<disk, service>>
  BY DEF readEnabledServices, ConfigInv, EnabledServicesInv, Shape
<1>2. ASSUME EnabledRead(disk.enabled, place[1] + 1, conf'.Services, conf'.ServicesEnabled, alien'),
             DOMAIN conf'.Services = DOMAIN conf.Services, AllAreRead', Shape',
             NextFile, UNCHANGED pc
      PROVE  ConfigInv'
  <2>1. place'[1] = place[1] + 1 /\ pc' = "enabled services"
    BY <1>1, <1>2, MovesToNextFile
  <2>2. EnabledServicesInv'
    BY <1>1, <1>2, <2>1 DEF EnabledServicesInv
  <2>3. StartInv' /\ ServicesInv' /\ ServiceInv' /\ TemplatesInv' /\ EnabledTemplatesInv' /\ EndInv'
    BY <2>1 DEF StartInv, ServicesInv, ServiceInv, TemplatesInv, EnabledTemplatesInv, EndInv, Reading, Loops
  <2> QED
    BY <1>2, <2>2, <2>3 DEF ConfigInv
<1>3. ASSUME NextFile PROVE place' \in Nat \X Nat
  BY <1>1, <1>3, MovesToNextFile
<1>4. ASSUME NextFile, UNCHANGED <<pc, conf>> PROVE AllAreRead' /\ Shape'
  BY <1>1, <1>3, <1>4 DEF AllAreRead, Shape
<1>5. CASE file.kind = "skipped" /\ NextFile /\ UNCHANGED <<pc, conf, alien>>
  BY <1>1, <1>2, <1>4, <1>5, EnabledSkips
<1>6. CASE /\ file.kind \notin {"skipped", "unreadable"} /\ file.contents \in DOMAIN conf.Services
           /\ conf' = [conf EXCEPT !.Services[file.contents].Enabled = TRUE,
                                   !.ServicesEnabled = Append(@, file.contents)]
           /\ NextFile /\ UNCHANGED <<pc, alien>>
  <2>1. /\ conf'.Services = Flag(conf.Services, file.contents)
        /\ conf'.ServicesEnabled = Append(conf.ServicesEnabled, file.contents)
        /\ conf' = [api |-> conf'.api, Services |-> conf'.Services,
                    ServicesEnabled |-> conf'.ServicesEnabled]
    BY <1>1, <1>6 DEF Shape, Flag
  <2>2. /\ DOMAIN conf'.Services = DOMAIN conf.Services
        /\ \A c \in DOMAIN conf.Services \ {file.contents} : conf'.Services[c] = conf.Services[c]
        /\ conf'.Services[file.contents] = [conf.Services[file.contents] EXCEPT !.Enabled = TRUE]
    BY <1>6, <2>1 DEF Flag
  <2>3. Shape'
    BY <1>1, <1>3, <1>6, <2>1 DEF Shape
  <2>4. AllAreRead'
    <3> SUFFICES ASSUME NEW c \in DOMAIN conf.Services PROVE IsRead(conf'.Services[c], c)
      BY <2>2 DEF AllAreRead
    <3>1. IsRead(conf.Services[c], c)
      BY <1>1 DEF AllAreRead
    <3>2. CASE c # file.contents
      BY <2>2, <3>1, <3>2
    <3>3. CASE c = file.contents
      <4>1. conf'.Services[c] = [conf.Services[c] EXCEPT !.Enabled = TRUE]
        BY <2>2, <3>3
      <4>2. /\ DOMAIN conf'.Services[c] = DOMAIN conf.Services[c]
            /\ conf'.Services[c].Templates = conf.Services[c].Templates
            /\ conf'.Services[c].TemplatesEnabled = conf.Services[c].TemplatesEnabled
        BY <3>1, <4>1 DEF IsRead
      <4> QED
        BY <3>1, <4>2 DEF IsRead
    <3> QED
      BY <3>2, <3>3
  <2>5. EnabledRead(disk.enabled, place[1] + 1, Flag(conf.Services, file.contents),
                    Append(conf.ServicesEnabled, file.contents), alien)
    BY <1>1, <1>6, EnabledFinds
  <2> QED
    BY <1>2, <1>6, <2>1, <2>2, <2>3, <2>4, <2>5
<1>7. CASE /\ file.kind \notin {"skipped", "unreadable"} /\ file.contents \notin DOMAIN conf.Services
           /\ alien' = alien \cup {file.name} /\ NextFile /\ UNCHANGED <<pc, conf>>
  BY <1>1, <1>2, <1>4, <1>7, EnabledMisses
<1>8. CASE file.kind = "unreadable" /\ pc' = "failed" /\ UNCHANGED <<place, conf, alien>>
  <2>1. place[1] \in DOMAIN disk.enabled
    BY <1>1, OneMore DEF EnabledRead
  <2>2. ~Legal
    BY <1>8, <2>1 DEF Legal, IsSelected
  <2> QED
    BY <1>1, <1>8, <2>2, FailStep, FailKeepsShape DEF confvars
<1> QED
  BY <1>5, <1>6, <1>7, <1>8 DEF readEnabledServices

\* All that is enabled was found, or not.
LEMMA EndOfEnabledServicesStep ==
  ASSUME ConfigInv, EndOfEnabledServices
  PROVE  ConfigInv'
<1>1. /\ pc = "enabled services" /\ Shape /\ disk.server = "ok"
      /\ IsPool(disk.all) /\ DOMAIN conf.Services = Contents(disk.all) /\ AllAreRead
      /\ EnabledRead(disk.enabled, place[1], conf.Services, conf.ServicesEnabled, alien)
      /\ place[1] > Len(disk.enabled)
      /\ pc' = IF alien = {} THEN "read" ELSE "failed"
      /\ UNCHANGED <<disk, place, conf, service, alien>>
  BY DEF EndOfEnabledServices, ConfigInv, EnabledServicesInv, confvars
<1>2. place[1] = Len(disk.enabled) + 1
  BY <1>1, AtTheEnd DEF EnabledRead
<1>3. /\ alien = {} <=> IsSelected(disk.all, disk.enabled)
      /\ alien = {} => /\ Flagged(conf.Services) = Contents(disk.enabled)
                       /\ Range(conf.ServicesEnabled) = Contents(disk.enabled)
  BY <1>1, <1>2, EnabledEnds
<1>4. Shape'
  BY <1>1 DEF Shape
<1>5. CASE alien = {}
  <2>1. Legal
    BY <1>1, <1>3, <1>5 DEF Legal, AllAreRead, IsRead
  <2>2. Agrees
    BY <1>1, <1>3, <1>5, <2>1 DEF Agrees, EnabledRead
  <2>3. Agrees'
    BY <1>1, <2>2 DEF Agrees, Legal, AllAreRead
  <2>4. StartInv' /\ ServicesInv' /\ ServiceInv' /\ TemplatesInv' /\ EnabledTemplatesInv'
        /\ EnabledServicesInv' /\ EndInv'
    BY <1>1, <1>5, <2>3 DEF StartInv, ServicesInv, ServiceInv, TemplatesInv, EnabledTemplatesInv,
       EnabledServicesInv, EndInv, Reading, Loops
  <2> QED
    BY <1>4, <2>4 DEF ConfigInv
<1>6. CASE alien # {}
  <2>1. ~Legal
    BY <1>3, <1>6 DEF Legal
  <2> QED
    BY <1>1, <1>4, <1>6, <2>1, FailStep
<1> QED
  BY <1>5, <1>6

\* ReadConfig asks for something to serve.
LEMMA ReadConfigStep ==
  ASSUME ConfigInv, ReadConfig
  PROVE  ConfigInv'
<1>1. /\ pc = "read" /\ Shape /\ Agrees
      /\ UNCHANGED <<disk, place, conf, service, alien>>
  BY DEF ReadConfig, ConfigInv, EndInv, confvars
<1> DEFINE list == conf.ServicesEnabled
           Enabled(n) == conf.Services[list[n]].TemplatesEnabled
<1>2. Serves <=> list # <<>> /\ \A n \in DOMAIN list : Enabled(n) # <<>>
  <2>1. list \in Seq(Contents(disk.all)) /\ Range(list) = Contents(disk.enabled)
    BY <1>1 DEF Agrees
  <2>2. Contents(disk.enabled) # {} <=> list # <<>>
    BY <2>1, NotEmpty
  <2>3. ASSUME NEW n \in DOMAIN list
        PROVE  Enabled(n) # <<>> <=> Contents(list[n].enabled) # {}
    <3>1. list[n] \in DOMAIN conf.Services
      BY <1>1, <2>1 DEF Agrees
    <3>2. /\ Enabled(n) \in Seq(Contents(list[n].all))
          /\ Range(Enabled(n)) = Contents(list[n].enabled)
      BY <1>1, <3>1 DEF Agrees, AllAreRead, IsRead
    <3> QED
      BY <3>2, NotEmpty
  <2> QED
    BY <2>1, <2>2, <2>3 DEF Serves, Range
<1>3. Shape'
  BY <1>1 DEF Shape
<1>4. CASE Serves
  <2>1. pc' = "configured"
    BY <1>2, <1>4 DEF ReadConfig
  <2>2. Agrees' /\ Serves'
    BY <1>1, <1>4 DEF Agrees, Legal, AllAreRead, Serves
  <2>3. StartInv' /\ ServicesInv' /\ ServiceInv' /\ TemplatesInv' /\ EnabledTemplatesInv'
        /\ EnabledServicesInv' /\ EndInv'
    BY <2>1, <2>2 DEF StartInv, ServicesInv, ServiceInv, TemplatesInv, EnabledTemplatesInv,
       EnabledServicesInv, EndInv, Reading, Loops
  <2> QED
    BY <1>3, <2>3 DEF ConfigInv
<1>5. CASE ~Serves
  <2>1. pc' = "failed"
    BY <1>2, <1>5 DEF ReadConfig
  <2> QED
    BY <1>1, <1>3, <1>5, <2>1, FailStep
<1> QED
  BY <1>4, <1>5

LEMMA ReadStepInv == ConfigInv /\ ReadStep => ConfigInv'
BY readServerConfigStep, readAllServicesStep, readAllTemplatesStep, readEnabledTemplatesStep,
   AddServiceStep, EndOfServicesStep, readEnabledServicesStep, EndOfEnabledServicesStep,
   ReadConfigStep DEF ReadStep

\* Once a configuration was accepted, it stays what the directories hold.
LEMMA AcceptedStays ==
  ASSUME ConfigInv, pc \notin Reading, pc' \notin Reading, UNCHANGED confvars
  PROVE  ConfigInv'
<1>1. Agrees /\ Serves /\ Shape /\ UNCHANGED <<disk, place, conf, service, alien>>
  BY DEF ConfigInv, EndInv, confvars
<1>2. Agrees' /\ Serves' /\ Shape'
  BY <1>1 DEF Agrees, Legal, AllAreRead, Serves, Shape
<1> QED
  BY <1>2 DEF ConfigInv, StartInv, ServicesInv, ServiceInv, TemplatesInv, EnabledTemplatesInv,
     EnabledServicesInv, EndInv, Reading, Loops

\* What does not touch the configuration keeps the invariant.
LEMMA ConfigStays ==
  ASSUME ConfigInv, UNCHANGED <<pc, confvars>>
  PROVE  ConfigInv'
<1>1. UNCHANGED <<pc, disk, place, conf, service, alien, File>>
  BY DEF confvars, File
<1>2. Agrees' = Agrees /\ Serves' = Serves /\ Legal' = Legal /\ AllAreRead' = AllAreRead /\ Shape' = Shape
  BY <1>1 DEF Agrees, Legal, AllAreRead, Serves, Shape
<1>3. StartInv' /\ ServicesInv' /\ ServiceInv'
  BY <1>1, <1>2 DEF ConfigInv, StartInv, ServicesInv, ServiceInv
<1>4. TemplatesInv' /\ EnabledTemplatesInv' /\ EnabledServicesInv' /\ EndInv'
  BY <1>1, <1>2 DEF ConfigInv, TemplatesInv, EnabledTemplatesInv, EnabledServicesInv, EndInv
<1> QED
  BY <1>2, <1>3, <1>4 DEF ConfigInv

LEMMA Accepted == ConfigInv => ConfigIsOfTheDisk
<1> SUFFICES ASSUME ConfigInv PROVE ConfigIsOfTheDisk
  OBVIOUS
<1>1. pc = "failed" => ~(Legal /\ Serves)
  BY DEF ConfigInv, EndInv
<1>2. pc = "configured" => Agrees /\ Serves
  BY DEF ConfigInv, EndInv, Reading, Loops
<1>3. Agrees => \A c \in DOMAIN conf.Services :
                  /\ DOMAIN conf.Services[c].Templates = Contents(c.all)
                  /\ Flagged(conf.Services[c].Templates) = Contents(c.enabled)
                  /\ Range(conf.Services[c].TemplatesEnabled) = Contents(c.enabled)
  BY DEF Agrees, AllAreRead, IsRead
<1> QED
  BY <1>1, <1>2, <1>3 DEF ConfigIsOfTheDisk, Agrees, Legal, Serves

-----------------------------------------------------------------------------
(* The requests.                                                           *)

\* A request has at most one match.
OneMatch ==
  \A l \in Lines : \A n, m \in DOMAIN l.calls :
    l.calls[n].field = "match" /\ l.calls[m].field = "match" => n = m

Queries == UNION {{l.calls[n].query : n \in DOMAIN l.calls} : l \in Lines}

Stages == Fields \cup {"resolve", "parse", "find", "collect", "write", "done", "error", "loops"}

CallType == [stage : Stages, templates : SUBSET Queries, forwarded : SUBSET Queries]

\* The calls of request r are those of its line.
CallsOK(r) ==
  call[r] = <<>> \/ (line[r] \in Lines /\ call[r] \in [DOMAIN line[r].calls -> CallType])

Types ==
  /\ line \in [Requests -> Lines \cup {None}]
  /\ DOMAIN status = Requests
  /\ call = [r \in Requests |-> call[r]]
  /\ \A r \in Requests : CallsOK(r)
  /\ parser \subseteq Queries
  /\ matcher \in [DOMAIN matcher -> SUBSET Queries]

\* There are no requests before the server serves, and then the tables stay.
Phase ==
  /\ \A r \in Requests : line[r] # None => pc = "serving"
  /\ pc = "serving" => DOMAIN matcher = DOMAIN shown

\* handleGraph is in one request.
Mutex == \A r \in Requests : Executing(r) => lock = r

Query(r, n) == Asked(r, n).query

InMatch == {"match", "parse", "find", "collect", "write"}

\* What a call has in the parser and in its matcher at each place.
CallInv(r, n) ==
  /\ call[r][n].stage \in InMatch => Asked(r, n).field = "match" /\ Asked(r, n).id \in DOMAIN shown
  /\ call[r][n].stage = "parse" /\ Executing(r) => parser = {}
  /\ call[r][n].stage \in {"find", "collect", "write"} /\ Executing(r) => parser = {Query(r, n)}
  /\ call[r][n].stage = "collect" /\ Executing(r) => matcher[Asked(r, n).id] = {Query(r, n)}
  /\ call[r][n].templates \in {{}, {Query(r, n)}}
  /\ call[r][n].forwarded \in {{}, {Query(r, n)}}

Calls == \A r \in Requests : \A n \in DOMAIN call[r] : CallInv(r, n)

IInv == Types /\ Phase /\ Mutex /\ Calls

\* Nothing is being served at the start.
LEMMA InitInv == Init => IInv
<1> SUFFICES ASSUME Init PROVE IInv
  OBVIOUS
<1>1. /\ line = [r \in Requests |-> None] /\ DOMAIN status = Requests
      /\ call = [r \in Requests |-> <<>>] /\ parser = {}
      /\ matcher = <<>> /\ shown = <<>>
  BY DEF Init
<1>2. Types
  BY <1>1 DEF Types, CallsOK
<1>3. Phase /\ Mutex /\ Calls
  BY <1>1 DEF Phase, Mutex, Calls, Executing
<1> QED
  BY <1>2, <1>3 DEF IInv

\* Before the server serves there are no requests, and none come.
LEMMA StartStep ==
  ASSUME IInv, Read \/ NewProxy \/ makeServices
  PROVE  IInv'
<1>1. pc # "serving"
  BY DEF Read, ReadStep, readServerConfig, readAllServices, readAllTemplates, readEnabledTemplates,
         AddService, EndOfServices, readEnabledServices, EndOfEnabledServices, ReadConfig, NewProxy,
         makeServices
<1>2. /\ \A r \in Requests : line[r] = None
      /\ \A r \in Requests : call[r] = <<>>
  BY <1>1, RequestsAssumption DEF IInv, Phase, Types, CallsOK
<1>3. UNCHANGED <<line, status, lock, call, parser>>
  BY DEF Read, served, NewProxy, makeServices
<1>4. /\ matcher' \in [DOMAIN matcher' -> SUBSET Queries]
      /\ pc' = "serving" => DOMAIN matcher' = DOMAIN shown'
  <2>1. CASE Read
    <3>1. pc' # "serving"
      BY <2>1 DEF Read, ReadStep, readServerConfig, readAllServices, readAllTemplates,
         readEnabledTemplates, AddService, EndOfServices, readEnabledServices,
         EndOfEnabledServices, ReadConfig, Goto, Fail
    <3> QED
      BY <2>1, <3>1 DEF Read, served, IInv, Types
  <2>2. CASE NewProxy
    BY <2>2 DEF NewProxy, served, IInv, Types
  <2>3. CASE makeServices
    <3>1. CASE UNCHANGED matcher /\ pc' # "serving"
      BY <3>1 DEF IInv, Types
    <3>2. CASE pc' = "serving"
      <4> DEFINE ids == [c \in DOMAIN conf.Services |-> conf.Services[c].id]
      <4>1. PICK f \in ByID(ids) :
              /\ shown' \in {g \in [DOMAIN f -> UNION {makeService(c) : c \in DOMAIN conf.Services}] :
                               \A id \in DOMAIN f : g[id].contents = f[id]}
              /\ matcher' = [id \in DOMAIN f |-> {}]
        BY <2>3, <3>2 DEF makeServices
      <4> QED
        BY <4>1
    <3> QED
      BY <2>3, <3>1, <3>2 DEF makeServices
  <2> QED
    BY <2>1, <2>2, <2>3
<1>5. Types' /\ Phase'
  BY <1>2, <1>3, <1>4 DEF IInv, Types, Phase, CallsOK
<1>6. Mutex' /\ Calls'
  BY <1>2, <1>3 DEF Mutex, Calls, Executing
<1> QED
  BY <1>5, <1>6 DEF IInv

\* Of a request that is executed; no other is.
LEMMA OnlyOne ==
  ASSUME Mutex, NEW r \in Requests, NEW s \in Requests, Executing(r), Executing(s)
  PROVE  r = s
BY DEF Mutex

\* Steps of a request before its calls begin.
LEMMA ArriveStep ==
  ASSUME IInv, NEW r \in Requests, Arrive(r)
  PROVE  IInv'
<1>1. PICK l \in Lines : line' = [line EXCEPT ![r] = l]
  BY DEF Arrive
<1>2. /\ pc = "serving" /\ line[r] = None
      /\ UNCHANGED <<pc, shown, status, lock, call, parser, matcher>>
  BY DEF Arrive, tables
<1>3. call[r] = <<>>
  BY <1>2, RequestsAssumption DEF IInv, Types, CallsOK
<1>4. \A s \in Requests \ {r} : line'[s] = line[s]
  BY <1>1 DEF IInv, Types
<1>5. Types'
  <2>1. \A s \in Requests : CallsOK(s)'
    BY <1>2, <1>3, <1>4 DEF IInv, Types, CallsOK
  <2> QED
    BY <1>1, <1>2, <2>1 DEF IInv, Types
<1>6. Phase' /\ Mutex'
  BY <1>2 DEF IInv, Phase, Mutex, Executing
<1>7. Calls'
  <2> SUFFICES ASSUME NEW s \in Requests, NEW n \in DOMAIN call[s]
               PROVE  CallInv(s, n)'
    BY <1>2 DEF Calls
  <2>1. s # r /\ line'[s] = line[s] /\ CallInv(s, n)
    BY <1>3, <1>4 DEF IInv, Calls
  <2> QED
    BY <2>1, <1>2 DEF CallInv, Executing, Query, Asked
<1> QED
  BY <1>5, <1>6, <1>7 DEF IInv

LEMMA AnswerStep ==
  ASSUME IInv, NEW r \in Requests, Reject(r) \/ Finish(r)
  PROVE  IInv'
<1>1. UNCHANGED <<pc, shown, line, call, parser, matcher>>
  BY DEF Reject, Finish, tables
<1>2. PICK code \in {200, 401, 403, 404, 405} : status' = [status EXCEPT ![r] = code]
  BY DEF Reject, Finish, Respond
<1>3. /\ DOMAIN status' = Requests
      /\ status'[r] # None
      /\ \A s \in Requests \ {r} : status'[s] = status[s]
  BY <1>2, RequestsAssumption DEF IInv, Types
<1>4. \A s \in Requests : Executing(s)' => Executing(s) /\ s # r
  BY <1>1, <1>3 DEF Executing
<1>5. Types' /\ Phase'
  BY <1>1, <1>3 DEF IInv, Types, Phase, CallsOK
<1>6. Mutex'
  <2>1. CASE Reject(r)
    BY <2>1, <1>4 DEF Reject, Mutex, IInv
  <2>2. CASE Finish(r)
    <3>1. Executing(r)
      BY <2>2 DEF Finish
    <3>2. \A s \in Requests : ~Executing(s)'
      BY <3>1, <1>4, OnlyOne DEF IInv
    <3> QED
      BY <3>2 DEF Mutex
  <2> QED
    BY <2>1, <2>2
<1>7. Calls'
  <2> SUFFICES ASSUME NEW s \in Requests, NEW n \in DOMAIN call[s]
               PROVE  CallInv(s, n)'
    BY <1>1 DEF Calls
  <2>1. CallInv(s, n)
    BY DEF IInv, Calls
  <2>2. Query(s, n)' = Query(s, n) /\ Asked(s, n)' = Asked(s, n)
    BY <1>1 DEF Query, Asked
  <2>3. Executing(s)' => Executing(s)
    BY <1>4
  <2> QED
    BY <2>1, <2>2, <2>3, <1>1 DEF CallInv
<1> QED
  BY <1>5, <1>6, <1>7 DEF IInv

LEMMA LockStep ==
  ASSUME IInv, NEW r \in Requests, Lock(r)
  PROVE  IInv'
<1>1. /\ UNCHANGED <<pc, shown, line, status, parser, matcher>>
      /\ lock = None /\ lock' = r /\ line[r] # None
      /\ Begin(r)
  BY DEF Lock, tables, Waits
<1>2. /\ line[r] \in Lines
      /\ DOMAIN call = Requests
  BY <1>1 DEF IInv, Types
<1>3. /\ call'[r] = [n \in DOMAIN line[r].calls |->
                       [stage |-> "resolve", templates |-> {}, forwarded |-> {}]]
      /\ call' = [s \in Requests |-> call'[s]]
      /\ \A s \in Requests \ {r} : call'[s] = call[s]
  BY <1>1, <1>2 DEF Begin
<1>4. \A s \in Requests : Executing(s)' => s = r
  <2> SUFFICES ASSUME NEW s \in Requests, s # r, Executing(s)'
               PROVE  FALSE
    OBVIOUS
  <2>1. Executing(s)
    BY <1>1, <1>3 DEF Executing
  <2>2. lock = s /\ s = None
    BY <2>1, <1>1 DEF IInv, Mutex
  <2> QED
    BY <2>2, RequestsAssumption
<1>5. Types'
  <2>1. call'[r] \in [DOMAIN line[r].calls -> CallType]
    BY <1>3 DEF CallType, Stages
  <2>2. \A s \in Requests : CallsOK(s)'
    BY <2>1, <1>1, <1>2, <1>3 DEF IInv, Types, CallsOK
  <2> QED
    BY <2>2, <1>1, <1>3 DEF IInv, Types
<1>6. Phase' /\ Mutex'
  BY <1>1, <1>4 DEF IInv, Phase, Mutex
<1>7. Calls'
  <2> SUFFICES ASSUME NEW s \in Requests, NEW n \in DOMAIN call'[s]
               PROVE  CallInv(s, n)'
    BY DEF Calls
  <2>1. CASE s = r
    <3>1. call'[r][n] = [stage |-> "resolve", templates |-> {}, forwarded |-> {}]
      BY <2>1, <1>3
    <3> QED
      BY <2>1, <3>1 DEF CallInv, InMatch
  <2>2. CASE s # r
    <3>1. CallInv(s, n) /\ call'[s] = call[s] /\ ~Executing(s)'
      BY <2>2, <1>3, <1>4 DEF IInv, Calls
    <3> QED
      BY <3>1, <1>1 DEF CallInv, Query, Asked
  <2> QED
    BY <2>1, <2>2
<1> QED
  BY <1>5, <1>6, <1>7 DEF IInv

-----------------------------------------------------------------------------
(* Steps of a resolver.                                                    *)

\* What every step of a resolver of r does, and leaves alone.
Stepped(r, n, c) ==
  /\ Executing(r) /\ n \in DOMAIN call[r]
  /\ call' = [call EXCEPT ![r][n] = c]
  /\ UNCHANGED <<pc, shown, line, status, lock>>
  /\ DOMAIN matcher' = DOMAIN matcher

\* The rest is untouched: only r is executed, and of its calls only one is in
\* match.
LEMMA OthersKept ==
  ASSUME IInv, NEW r \in Requests, NEW n, NEW c \in CallType, Stepped(r, n, c),
         parser' \subseteq Queries, matcher' \in [DOMAIN matcher -> SUBSET Queries],
         OneMatch,
         UNCHANGED <<parser, matcher>> \/ call[r][n].stage \in InMatch,
         CallInv(r, n)'
  PROVE  IInv'
<1>1. /\ Executing(r) /\ n \in DOMAIN call[r]
      /\ call' = [call EXCEPT ![r][n] = c]
      /\ UNCHANGED <<pc, shown, line, status, lock>>
      /\ DOMAIN matcher' = DOMAIN matcher
  BY DEF Stepped
<1>2. /\ call[r] \in [DOMAIN line[r].calls -> CallType]
      /\ line[r] \in Lines
      /\ DOMAIN call = Requests
  BY <1>1 DEF Executing, IInv, Types, CallsOK
<1>3. /\ call'[r] = [call[r] EXCEPT ![n] = c]
      /\ call' = [s \in Requests |-> call'[s]]
      /\ \A s \in Requests \ {r} : call'[s] = call[s]
  BY <1>1, <1>2
<1>4. \A s \in Requests : Executing(s)' => Executing(s)
  BY <1>1, <1>3 DEF Executing
<1>5. Types'
  <2>1. call'[r] \in [DOMAIN line[r].calls -> CallType]
    BY <1>2, <1>3
  <2>2. \A s \in Requests : CallsOK(s)'
    BY <2>1, <1>1, <1>2, <1>3 DEF IInv, Types, CallsOK
  <2> QED
    BY <2>2, <1>1, <1>3 DEF IInv, Types
<1>6. Phase' /\ Mutex'
  BY <1>1, <1>4 DEF IInv, Phase, Mutex
<1>7. Calls'
  <2> SUFFICES ASSUME NEW s \in Requests, NEW m \in DOMAIN call'[s]
               PROVE  CallInv(s, m)'
    BY DEF Calls
  <2>1. CASE s # r
    <3>1. CallInv(s, m) /\ call'[s] = call[s] /\ ~Executing(s)'
      BY <2>1, <1>1, <1>3, <1>4, OnlyOne DEF IInv, Calls
    <3> QED
      BY <3>1, <1>1 DEF CallInv, Query, Asked
  <2>2. CASE s = r /\ m = n
    BY <2>2
  <2>3. CASE s = r /\ m # n
    <3>1. CallInv(r, m) /\ call'[r][m] = call[r][m] /\ m \in DOMAIN line[r].calls
      BY <2>3, <1>2, <1>3 DEF IInv, Calls
    <3>2. CASE UNCHANGED <<parser, matcher>>
      BY <2>3, <3>1, <3>2, <1>1, <1>4 DEF CallInv, Query, Asked
    <3>3. CASE call[r][n].stage \in InMatch
      <4>1. Asked(r, n).field = "match" /\ n \in DOMAIN line[r].calls
        BY <3>3, <1>1, <1>2 DEF IInv, Calls, CallInv
      <4>2. call[r][m].stage \notin InMatch
        BY <4>1, <3>1, <2>3, <1>2 DEF CallInv, OneMatch, Asked
      <4> QED
        BY <2>3, <3>1, <4>2, <1>1 DEF CallInv, Query, Asked, InMatch
    <3> QED
      BY <3>2, <3>3
  <2> QED
    BY <2>1, <2>2, <2>3
<1> QED
  BY <1>5, <1>6, <1>7 DEF IInv

\* What is known of a call that is being resolved.
LEMMA CallFacts ==
  ASSUME IInv, NEW r \in Requests, NEW n \in DOMAIN call[r], Executing(r)
  PROVE  /\ call[r][n] \in CallType
         /\ CallInv(r, n)
         /\ Asked(r, n).field \in Fields
         /\ Query(r, n) \in Queries
         /\ line[r] \in Lines /\ n \in DOMAIN line[r].calls
         /\ pc = "serving" /\ DOMAIN matcher = DOMAIN shown
<1>1. line[r] \in Lines /\ call[r] \in [DOMAIN line[r].calls -> CallType]
  BY DEF Executing, IInv, Types, CallsOK
<1>2. n \in DOMAIN line[r].calls
  BY <1>1
<1>3. Query(r, n) \in Queries
  BY <1>1, <1>2 DEF Query, Asked, Queries
<1>4. line[r] # None
  BY <1>1, RequestsAssumption
<1> QED
  BY <1>1, <1>2, <1>3, <1>4, RequestsAssumption DEF IInv, Phase, Calls, Asked

\* Resolvers that leave the parser and the matchers alone.
LEMMA ReadingStep ==
  ASSUME IInv, OneMatch, NEW r \in Requests, NEW n \in DOMAIN call[r],
         Resolve(r, n) \/ Statistics(r, n) \/ TemplateStatistics(r, n) \/ TemplatesEnabled(r, n)
  PROVE  IInv'
<1>1. Executing(r) /\ Silent /\ UNCHANGED <<parser, matcher>>
  BY DEF Resolve, Statistics, TemplateStatistics, TemplatesEnabled, At
<1>2. \E stage \in Fields \cup {"done", "error"} :
        /\ Goes(r, n, stage)
        /\ stage \in InMatch => stage = Asked(r, n).field /\ Asked(r, n).id \in DOMAIN shown
  BY <1>1, CallFacts DEF Resolve, Statistics, TemplateStatistics, TemplatesEnabled, Fields, InMatch
<1>3. PICK stage \in Fields \cup {"done", "error"} :
        /\ Goes(r, n, stage)
        /\ stage \in InMatch => stage = Asked(r, n).field /\ Asked(r, n).id \in DOMAIN shown
  BY <1>2
<1> DEFINE c == [call[r][n] EXCEPT !.stage = stage]
<1>4. c \in CallType
  BY <1>1, CallFacts DEF CallType, Stages
<1>5. Stepped(r, n, c)
  BY <1>1, <1>3 DEF Goes, Silent, tables, Stepped
<1>6. /\ call'[r][n].stage = stage
      /\ call'[r][n].templates = call[r][n].templates
      /\ call'[r][n].forwarded = call[r][n].forwarded
  BY <1>1, <1>3, CallFacts DEF Goes, CallType, IInv, Types
<1>7. stage \in InMatch => stage = "match"
  BY DEF InMatch, Fields
<1>8. CallInv(r, n)'
  BY <1>1, <1>3, <1>6, <1>7, CallFacts DEF CallInv, InMatch, Query, Asked, Silent, tables
<1> QED
  BY <1>1, <1>4, <1>5, <1>8, OthersKept DEF IInv, Types

\* A match reads what it wrote itself.
LEMMA MatchStep ==
  ASSUME IInv, OneMatch, NEW r \in Requests, NEW n \in DOMAIN call[r],
         ResetParser(r, n) \/ Parse(r, n) \/ FindMatch(r, n) \/ Collect(r, n) \/ WriteForwarded(r, n)
  PROVE  IInv'
<1>1. Executing(r) /\ Silent /\ call[r][n].stage \in InMatch
  BY DEF ResetParser, Parse, FindMatch, Collect, WriteForwarded, At, InMatch
<1> DEFINE Becomes(c) == call' = [call EXCEPT ![r][n] = c]
<1>2. ASSUME NEW c \in CallType, Becomes(c),
             parser' \subseteq Queries, matcher' \in [DOMAIN matcher -> SUBSET Queries],
             CallInv(r, n)'
      PROVE  IInv'
  <2>1. Stepped(r, n, c)
    BY <1>1, <1>2 DEF Stepped, Silent, tables
  <2> QED
    BY <1>1, <1>2, <2>1, OthersKept
<1>3. UNCHANGED <<line, status, shown>> /\ (Executing(r)' => Executing(r))
  BY <1>1 DEF Silent, tables, Executing
<1>4. CASE ResetParser(r, n)
  <2> DEFINE c == [call[r][n] EXCEPT !.stage = "parse"]
  <2>1. Becomes(c) /\ parser' = {} /\ matcher' = matcher
    BY <1>4 DEF ResetParser, Goes
  <2>2. c \in CallType
    BY <1>1, CallFacts DEF CallType, Stages
  <2>3. /\ call'[r][n].stage = "parse"
        /\ call'[r][n].templates = call[r][n].templates
        /\ call'[r][n].forwarded = call[r][n].forwarded
    BY <1>1, <2>1, CallFacts DEF CallType, IInv, Types
  <2>4. CallInv(r, n)'
    BY <1>1, <1>3, <2>1, <2>3, CallFacts DEF CallInv, InMatch, Query, Asked
  <2> QED
    BY <1>2, <2>1, <2>2, <2>4 DEF IInv, Types
<1>5. CASE Parse(r, n)
  <2> DEFINE stage == Parsed(Asked(r, n).query)
             c == [call[r][n] EXCEPT !.stage = stage]
  <2>1. Becomes(c) /\ matcher' = matcher
    BY <1>5 DEF Parse, Goes
  <2>2. parser' = {Query(r, n)}
    <3>1. parser = {}
      BY <1>5, <1>1, CallFacts DEF Parse, CallInv, At
    <3> QED
      BY <1>5, <3>1 DEF Parse, Query
  <2>3. c \in CallType
    BY <1>1, CallFacts DEF CallType, Stages, Parsed
  <2>4. /\ call'[r][n].stage = stage
        /\ call'[r][n].templates = call[r][n].templates
        /\ call'[r][n].forwarded = call[r][n].forwarded
    BY <1>1, <2>1, <2>2, CallFacts DEF CallType, IInv, Types
  <2>5. CallInv(r, n)'
    <3>1. Asked(r, n).field = "match" /\ Asked(r, n).id \in DOMAIN shown
      BY <1>1, CallFacts DEF CallInv
    <3>2. /\ Query(r, n)' = Query(r, n) /\ Asked(r, n)' = Asked(r, n) /\ shown' = shown
      BY <1>3 DEF Query, Asked
    <3>3. /\ call[r][n].templates \in {{}, {Query(r, n)}}
          /\ call[r][n].forwarded \in {{}, {Query(r, n)}}
      BY <1>1, CallFacts DEF CallInv
    <3>4. call'[r][n].stage \in {"loops", "error", "find"}
      BY <2>4 DEF Parsed
    <3> HIDE DEF stage
    <3> QED
      BY <3>1, <3>2, <3>3, <3>4, <2>2, <2>4 DEF CallInv
  <2> QED
    <3>1. Query(r, n) \in Queries
      BY <1>1, CallFacts
    <3>2. parser' \subseteq Queries
      BY <3>1, <2>2
    <3>3. matcher' \in [DOMAIN matcher -> SUBSET Queries]
      BY <2>1 DEF IInv, Types
    <3> QED
      BY <3>2, <3>3, <1>2, <2>1, <2>3, <2>5
<1>6. CASE FindMatch(r, n)
  <2> DEFINE c == [call[r][n] EXCEPT !.stage = "collect"]
  <2>1. /\ Becomes(c) /\ parser' = parser
        /\ matcher' = [matcher EXCEPT ![Asked(r, n).id] = parser]
    BY <1>6 DEF FindMatch, Goes
  <2>2. parser = {Query(r, n)} /\ Asked(r, n).id \in DOMAIN matcher
    BY <1>6, <1>1, CallFacts DEF FindMatch, CallInv, At
  <2>3. c \in CallType
    BY <1>1, CallFacts DEF CallType, Stages
  <2>4. /\ call'[r][n].stage = "collect"
        /\ call'[r][n].templates = call[r][n].templates
        /\ call'[r][n].forwarded = call[r][n].forwarded
    BY <1>1, <2>1, <2>2, CallFacts DEF CallType, IInv, Types
  <2>5. CallInv(r, n)'
    BY <1>1, <1>3, <2>1, <2>2, <2>4, CallFacts DEF CallInv, InMatch, Query, Asked
  <2> QED
    BY <1>2, <2>1, <2>2, <2>3, <2>5 DEF IInv, Types
<1>7. CASE Collect(r, n)
  <2> DEFINE c == [call[r][n] EXCEPT !.stage = "write", !.templates = matcher[Asked(r, n).id]]
  <2>1. Becomes(c) /\ UNCHANGED <<parser, matcher>>
    BY <1>7 DEF Collect
  <2>2. matcher[Asked(r, n).id] = {Query(r, n)} /\ parser = {Query(r, n)}
    BY <1>7, <1>1, CallFacts DEF Collect, CallInv, At
  <2>3. c \in CallType
    BY <1>1, <2>2, CallFacts DEF CallType, Stages
  <2>4. /\ call'[r][n].stage = "write"
        /\ call'[r][n].templates = {Query(r, n)}
        /\ call'[r][n].forwarded = call[r][n].forwarded
    BY <1>1, <2>1, <2>2, CallFacts DEF CallType, IInv, Types
  <2>5. CallInv(r, n)'
    BY <1>1, <1>3, <2>1, <2>2, <2>4, CallFacts DEF CallInv, InMatch, Query, Asked
  <2> QED
    BY <1>2, <2>1, <2>3, <2>5 DEF IInv, Types
<1>8. CASE WriteForwarded(r, n)
  <2> DEFINE c == [call[r][n] EXCEPT !.stage = "done", !.forwarded = parser]
  <2>1. Becomes(c) /\ UNCHANGED <<parser, matcher>>
    BY <1>8 DEF WriteForwarded
  <2>2. parser = {Query(r, n)}
    BY <1>8, <1>1, CallFacts DEF WriteForwarded, CallInv, At
  <2>3. c \in CallType
    BY <1>1, <2>2, CallFacts DEF CallType, Stages
  <2>4. /\ call'[r][n].stage = "done"
        /\ call'[r][n].templates = call[r][n].templates
        /\ call'[r][n].forwarded = {Query(r, n)}
    BY <1>1, <2>1, <2>2, CallFacts DEF CallType, IInv, Types
  <2>5. CallInv(r, n)'
    BY <1>1, <1>3, <2>1, <2>2, <2>4, CallFacts DEF CallInv, InMatch, Query, Asked
  <2> QED
    BY <1>2, <2>1, <2>3, <2>5 DEF IInv, Types
<1> QED
  BY <1>4, <1>5, <1>6, <1>7, <1>8

LEMMA NextInv ==
  ASSUME OneMatch
  PROVE  IInv /\ [Next]_vars => IInv'
<1> SUFFICES ASSUME IInv, [Next]_vars
             PROVE  IInv'
  OBVIOUS
<1>1. CASE Read \/ NewProxy \/ makeServices
  BY <1>1, StartStep
<1>2. ASSUME NEW r \in Requests, Arrive(r) \/ Serve(r)
      PROVE  IInv'
  <2>1. CASE Arrive(r)
    BY <2>1, ArriveStep
  <2>2. CASE Reject(r) \/ Finish(r)
    BY <2>2, AnswerStep
  <2>3. CASE Lock(r)
    BY <2>3, LockStep
  <2>4. CASE \E n \in DOMAIN call[r] : Resolver(r, n)
    BY <2>4, ReadingStep, MatchStep DEF Resolver
  <2> QED
    BY <1>2, <2>1, <2>2, <2>3, <2>4 DEF Serve
<1>3. CASE UNCHANGED vars
  <2>1. UNCHANGED <<pc, shown, line, status, lock, call, parser, matcher>>
    BY <1>3 DEF vars, tables, served
  <2>2. Types' /\ Phase' /\ Mutex'
    BY <2>1 DEF IInv, Types, CallsOK, Phase, Mutex, Executing
  <2>3. Calls'
    <3> SUFFICES ASSUME NEW r \in Requests, NEW n \in DOMAIN call[r]
                 PROVE  CallInv(r, n)'
      BY <2>1 DEF Calls
    <3>1. CallInv(r, n)
      BY DEF IInv, Calls
    <3>2. Query(r, n)' = Query(r, n) /\ Asked(r, n)' = Asked(r, n) /\ Executing(r)' = Executing(r)
      BY <2>1 DEF Query, Asked, Executing
    <3> QED
      BY <3>1, <3>2, <2>1 DEF CallInv
  <2> QED
    BY <2>2, <2>3 DEF IInv
<1> QED
  BY <1>1, <1>2, <1>3 DEF Next

\* handleGraph's mutex is enough for requests with one match each: what match
\* answers is about the query it was asked (schema.resolvers.go:52-148), and
\* the tokens in the parser are not those of another request.
THEOREM MutexSeparatesRequests ==
  ASSUME OneMatch
  PROVE  Spec => []MatchIsOfTheQuery
<1>1. IInv => MatchIsOfTheQuery
  BY DEF IInv, Calls, CallInv, MatchIsOfTheQuery, Query, Asked
<1> QED
  BY InitInv, NextInv, <1>1, PTL DEF Spec

-----------------------------------------------------------------------------
(* The configuration.                                                      *)

\* After config.New no step touches it.
LEMMA ConfigStep ==
  ASSUME ConfigInv, [Next]_vars
  PROVE  ConfigInv'
<1>1. CASE Read
  BY <1>1, ReadStepInv DEF Read
<1>2. CASE NewProxy \/ makeServices
  <2>1. /\ UNCHANGED confvars /\ pc \in {"configured", "proxy"}
        /\ pc' \in {"proxy", "no API", "panicked", "serving"}
    BY <1>2 DEF NewProxy, makeServices
  <2> QED
    BY <2>1, AcceptedStays DEF Reading, Loops
<1>3. ASSUME NEW r \in Requests, Arrive(r) \/ Serve(r) PROVE UNCHANGED <<pc, confvars>>
  <2>1. CASE \E n \in DOMAIN call[r] : Resolver(r, n)
    BY <2>1 DEF Resolver, Silent, Resolve, Statistics, TemplateStatistics, TemplatesEnabled,
       ResetParser, Parse, FindMatch, Collect, WriteForwarded
  <2> QED
    BY <1>3, <2>1 DEF Arrive, Serve, Reject, Lock, Finish
<1>4. CASE UNCHANGED vars
  BY <1>4, ConfigStays DEF vars
<1> QED
  BY <1>1, <1>2, <1>3, <1>4, ConfigStays DEF Next

\* A configuration is accepted exactly if the directories are legal and
\* something is enabled in them, and then it is what they hold: config.New
\* (config.go:152-165, 318-398, 431-568) and ReadConfig (read_config.go), for any directories.
THEOREM ConfigurationIsOfTheDisk == Spec => []ConfigIsOfTheDisk
<1>1. Init => ConfigInv
  BY ConfigInitInv DEF Init
<1>2. ConfigInv /\ [Next]_vars => ConfigInv'
  BY ConfigStep
<1> QED
  BY <1>1, <1>2, Accepted, PTL DEF Spec

-----------------------------------------------------------------------------
(* The tables.                                                             *)

PathOfNth(n) == conf.Services[conf.ServicesEnabled[n]].Path
IdOfNth(n)   == conf.Services[conf.ServicesEnabled[n]].id

\* A table of the first enabled services: each path of one of them has the id
\* of one with that path.
TableOf(table, k) ==
  /\ DOMAIN table = {PathOfNth(n) : n \in 1..k}
  /\ \A p \in DOMAIN table : \E n \in 1..k : PathOfNth(n) = p /\ table[p].id = IdOfNth(n)

\* One more service.
LEMMA TableGrows ==
  ASSUME NEW table, NEW k \in Nat, TableOf(table, k),
         NEW x, x.id = IdOfNth(k + 1)
  PROVE  TableOf(Set(table, PathOfNth(k + 1), x), k + 1)
<1> DEFINE new == Set(table, PathOfNth(k + 1), x)
<1>1. 1..(k + 1) = 1..k \cup {k + 1}
  OBVIOUS
<1>2. /\ DOMAIN new = DOMAIN table \cup {PathOfNth(k + 1)}
      /\ \A p \in DOMAIN new : new[p] = IF p = PathOfNth(k + 1) THEN x ELSE table[p]
  BY DEF Set
<1> HIDE DEF new
<1>3. DOMAIN new = {PathOfNth(n) : n \in 1..(k + 1)}
  BY <1>1, <1>2 DEF TableOf
<1>4. ASSUME NEW p \in DOMAIN new
      PROVE  \E n \in 1..(k + 1) : PathOfNth(n) = p /\ new[p].id = IdOfNth(n)
  BY <1>1, <1>2 DEF TableOf
<1> QED
  BY <1>3, <1>4 DEF TableOf, new

\* NewProxy's table is of all enabled services.
LEMMA TableOfNewProxy ==
  ASSUME NEW S, conf.ServicesEnabled \in Seq(S), NewProxy
  PROVE  TableOf(proxy', Len(conf.ServicesEnabled))
<1> DEFINE E == conf.ServicesEnabled
           N == Len(E)
           Entry(n) == [id |-> conf.Services[E[n]].id,
                        templates |-> {conf.Services[E[n]].Templates[t].ID :
                                         t \in Range(conf.Services[E[n]].TemplatesEnabled)}]
           Folded(h) == h = [D \in SUBSET DOMAIN E |->
                               IF D = {} THEN <<>>
                               ELSE Set(h[D \ {Max(D)}], PathOfNth(Max(D)), Entry(Max(D)))]
           LastChosen(D, p) == Max({n \in D : PathOfNth(n) = p})
           g == [D \in SUBSET DOMAIN E |->
                   IF D = {} THEN <<>> ELSE [p \in {PathOfNth(n) : n \in D} |-> Entry(LastChosen(D, p))]]
           iter == CHOOSE h : Folded(h)
<1>1. N \in Nat /\ DOMAIN E = 1..N
  OBVIOUS
<1>2. proxy' = iter[DOMAIN E]
  BY DEF NewProxy, FoldLeft, MapThenFoldSet, PathOfNth
<1> HIDE DEF N, Entry
<1>3. Folded(g)
  <2> SUFFICES ASSUME NEW D \in SUBSET DOMAIN E, D # {}
               PROVE  g[D] = Set(g[D \ {Max(D)}], PathOfNth(Max(D)), Entry(Max(D)))
    OBVIOUS
  <2> DEFINE m == Max(D)
             C == D \ {m}
  <2>1. m \in D /\ \A k \in D : k <= m
    BY <1>1, Greatest
  <2>2. g[D] = [p \in {PathOfNth(n) : n \in D} |-> Entry(LastChosen(D, p))]
    OBVIOUS
  <2>3. /\ DOMAIN g[C] = {PathOfNth(n) : n \in C}
        /\ \A p \in DOMAIN g[C] : g[C][p] = Entry(LastChosen(C, p))
    <3>1. C \in SUBSET DOMAIN E
      OBVIOUS
    <3>2. CASE C = {}
      BY <3>1, <3>2
    <3>3. CASE C # {}
      BY <3>1, <3>3
    <3> QED
      BY <3>2, <3>3
  <2>4. LastChosen(D, PathOfNth(m)) = m
    <3> DEFINE B == {n \in D : PathOfNth(n) = PathOfNth(m)}
    <3>1. B \in SUBSET (1..N) /\ m \in B
      BY <1>1, <2>1
    <3>2. Max(B) \in B /\ m <= Max(B)
      BY <1>1, <3>1, Greatest
    <3>3. Max(B) <= m /\ Max(B) \in Nat /\ m \in Nat
      BY <1>1, <2>1, <3>1, <3>2
    <3> QED
      BY <3>2, <3>3
  <2>5. ASSUME NEW p, p # PathOfNth(m) PROVE LastChosen(D, p) = LastChosen(C, p)
    <3>1. {n \in D : PathOfNth(n) = p} = {n \in C : PathOfNth(n) = p}
      BY <2>5
    <3> QED
      BY <3>1
  <2> HIDE DEF g, LastChosen
  <2>6. DOMAIN g[D] = DOMAIN g[C] \cup {PathOfNth(m)}
    BY <2>1, <2>2, <2>3
  <2>7. ASSUME NEW p \in DOMAIN g[D]
        PROVE  g[D][p] = IF p = PathOfNth(m) THEN Entry(m) ELSE g[C][p]
    <3>1. CASE p = PathOfNth(m)
      BY <2>2, <2>4, <2>7, <3>1
    <3>2. CASE p # PathOfNth(m)
      BY <2>2, <2>3, <2>5, <2>6, <2>7, <3>2
    <3> QED
      BY <3>1, <3>2
  <2>8. g[D] = [p \in DOMAIN g[D] |-> g[D][p]]
    BY <2>2
  <2> QED
    BY <2>6, <2>7, <2>8 DEF Set
<1>4. Folded(iter)
  BY <1>3
<1> HIDE DEF iter
<1> DEFINE T == {k \in Nat : k <= N => TableOf(iter[1..k], k)}
<1>5. 0 \in T
  <2>1. 1..0 = {} /\ {} \in SUBSET DOMAIN E
    OBVIOUS
  <2>2. iter[{}] = <<>>
    BY <1>4, <2>1
  <2> QED
    BY <2>1, <2>2 DEF TableOf
<1>6. ASSUME NEW k \in Nat, k \in T PROVE k + 1 \in T
  <2> SUFFICES ASSUME k + 1 <= N PROVE TableOf(iter[1..(k + 1)], k + 1)
    OBVIOUS
  <2>1. /\ 1..(k + 1) \in SUBSET DOMAIN E /\ 1..(k + 1) # {}
        /\ 1..(k + 1) \in SUBSET (1..N)
    <3>1. 1 \in 1..(k + 1) /\ 1..(k + 1) \in SUBSET (1..N)
      BY <1>1
    <3> QED
      BY <1>1, <3>1
  <2>2. Max(1..(k + 1)) = k + 1
    <3>1. Max(1..(k + 1)) \in 1..(k + 1) /\ k + 1 <= Max(1..(k + 1))
      <4>1. k + 1 \in 1..(k + 1)
        OBVIOUS
      <4> QED
        BY <1>1, <2>1, <4>1, Greatest
    <3> QED
      BY <3>1
  <2>3. 1..(k + 1) \ {k + 1} = 1..k
    OBVIOUS
  <2>4. iter[1..(k + 1)] = Set(iter[1..k], PathOfNth(k + 1), Entry(k + 1))
    BY <1>4, <2>1, <2>2, <2>3
  <2>5. TableOf(iter[1..k], k)
    BY <1>1, <1>6
  <2>6. Entry(k + 1).id = IdOfNth(k + 1)
    BY DEF Entry, IdOfNth
  <2> QED
    BY <2>4, <2>5, <2>6, TableGrows
<1>7. N \in T
  <2> HIDE DEF T
  <2> QED
    BY <1>1, <1>5, <1>6, NaturalSteps
<1> QED
  BY <1>1, <1>2, <1>7 DEF N

HasTable == {"proxy", "no API", "panicked", "serving"}

TablesInv ==
  /\ pc \in HasTable => TableOf(proxy, Len(conf.ServicesEnabled))
  /\ ServicesAreShown

Services == conf.Services

\* What is enabled is of the pool.
LEMMA EnabledOfThePool ==
  ASSUME ConfigInv, pc \notin Reading
  PROVE  /\ conf.ServicesEnabled \in Seq(DOMAIN Services)
         /\ DOMAIN conf.ServicesEnabled = 1..Len(conf.ServicesEnabled)
BY DEF ConfigInv, EndInv, Agrees, Services

\* The statistics of a service whose id is its own.
LEMMA StatisticsOfOne ==
  ASSUME ConfigInv, pc \notin Reading, TableOf(proxy, Len(conf.ServicesEnabled)),
         NEW c \in DOMAIN Services,
         \A d \in DOMAIN Services : d # c => Services[d].id # Services[c].id,
         \A n \in DOMAIN conf.ServicesEnabled :
           PathOfNth(n) = Services[c].Path => conf.ServicesEnabled[n] = c
  PROVE  GetServiceStatistics(Services[c].id)
           = {IF c \in Range(conf.ServicesEnabled) THEN Services[c].Path ELSE None}
<1> DEFINE E == conf.ServicesEnabled
           paths == {p \in DOMAIN proxy : proxy[p].id = Services[c].id}
<1>1. E \in Seq(DOMAIN Services) /\ DOMAIN E = 1..Len(E)
  BY EnabledOfThePool
<1>2. ASSUME NEW p \in paths PROVE c \in Range(E) /\ p = Services[c].Path
  <2>1. PICK n \in DOMAIN E : PathOfNth(n) = p /\ proxy[p].id = IdOfNth(n)
    BY <1>1 DEF TableOf
  <2>2. E[n] \in DOMAIN Services
    BY <1>1
  <2>3. E[n] = c
    BY <2>1, <2>2 DEF IdOfNth, Services
  <2> QED
    BY <2>1, <2>3 DEF Range, PathOfNth, Services
<1>3. ASSUME c \in Range(E) PROVE Services[c].Path \in paths
  <2>1. PICK n \in DOMAIN E : E[n] = c
    BY <1>3 DEF Range
  <2>2. Services[c].Path = PathOfNth(n)
    BY <2>1 DEF PathOfNth, Services
  <2>3. Services[c].Path \in DOMAIN proxy
    BY <1>1, <2>2 DEF TableOf
  <2>4. PICK m \in DOMAIN E : /\ PathOfNth(m) = Services[c].Path
                             /\ proxy[Services[c].Path].id = IdOfNth(m)
    BY <1>1, <2>3 DEF TableOf
  <2>5. E[m] = c
    BY <2>4
  <2> QED
    BY <2>3, <2>4, <2>5 DEF IdOfNth, Services
<1>4. CASE c \in Range(E)
  <2>1. paths = {Services[c].Path}
    BY <1>2, <1>3, <1>4
  <2> QED
    BY <1>4, <2>1 DEF GetServiceStatistics
<1>5. CASE c \notin Range(E)
  <2>1. paths = {}
    BY <1>2, <1>5
  <2> QED
    BY <1>5, <2>1 DEF GetServiceStatistics
<1> QED
  BY <1>4, <1>5

\* The choice of one for each id.
LEMMA Chosen ==
  ASSUME NEW ids, NEW f \in ByID(ids)
  PROVE  /\ DOMAIN f = {ids[x] : x \in DOMAIN ids}
         /\ \A id \in DOMAIN f : f[id] \in DOMAIN ids /\ ids[f[id]] = id
BY DEF ByID, Range

\* What ServicesAreShown says, of what is given.
Shows(services, enabled, m, c) ==
  /\ m.contents = c
  /\ \A id \in DOMAIN m.TemplatesByID : services[c].Templates[m.TemplatesByID[id]].ID = id
  /\ DOMAIN m.TemplatesByID = {services[c].Templates[t].ID : t \in DOMAIN services[c].Templates}
  /\ ~(\E n \in DOMAIN enabled :
          enabled[n] # c /\ services[enabled[n]].Path = services[c].Path) =>
       m.Stats = (IF c \in Range(enabled) THEN services[c].Path ELSE None)

ShowsAll(services, enabled, sh) ==
  /\ DOMAIN sh = {services[c].id : c \in DOMAIN services}
  /\ \A c \in DOMAIN services :
       (\A d \in DOMAIN services : d # c => services[d].id # services[c].id) =>
         Shows(services, enabled, sh[services[c].id], c)

LEMMA ServicesAreShownIs ==
  /\ ServicesAreShown <=> (pc = "serving" => ShowsAll(conf.Services, conf.ServicesEnabled, shown))
  /\ ServicesAreShown' <=>
       (pc' = "serving" => ShowsAll(conf'.Services, conf'.ServicesEnabled, shown'))
BY DEF ServicesAreShown, ShowsAll, Shows

\* makeServices shows each service under its id.
LEMMA ShownByMakeServices ==
  ASSUME ConfigInv, pc = "proxy", TableOf(proxy, Len(conf.ServicesEnabled)),
         makeServices, pc' = "serving"
  PROVE  ServicesAreShown'
<1> DEFINE ids == [c \in DOMAIN Services |-> Services[c].id]
           tids(c) == [t \in DOMAIN Services[c].Templates |-> Services[c].Templates[t].ID]
<1>1. PICK f \in ByID(ids) :
        shown' \in {g \in [DOMAIN f -> UNION {makeService(c) : c \in DOMAIN Services}] :
                      \A id \in DOMAIN f : g[id].contents = f[id]}
  BY DEF makeServices, Services
<1>2. UNCHANGED <<conf, Services>>
  BY DEF makeServices, confvars, Services
<1>3. /\ DOMAIN shown' = {Services[c].id : c \in DOMAIN Services}
      /\ DOMAIN f = DOMAIN shown'
      /\ \A id \in DOMAIN f : f[id] \in DOMAIN Services /\ Services[f[id]].id = id
  <2>1. f \in ByID(ids) /\ DOMAIN shown' = DOMAIN f
    BY <1>1
  <2>2. /\ DOMAIN f = {ids[c] : c \in DOMAIN ids}
        /\ \A id \in DOMAIN f : f[id] \in DOMAIN ids /\ ids[f[id]] = id
    BY <2>1, Chosen
  <2> QED
    BY <2>1, <2>2
<1>4. ASSUME NEW c \in DOMAIN Services,
             \A d \in DOMAIN Services : d # c => Services[d].id # Services[c].id
      PROVE  Shows(Services, conf.ServicesEnabled, shown'[Services[c].id], c)
  <2> DEFINE m == shown'[Services[c].id]
  <2>1. Services[c].id \in DOMAIN f /\ f[Services[c].id] = c
    BY <1>3, <1>4
  <2>2. m.contents = c /\ m \in UNION {makeService(d) : d \in DOMAIN Services}
    BY <1>1, <2>1
  <2>3. PICK d \in DOMAIN Services : m \in makeService(d)
    BY <2>2
  <2> HIDE DEF m
  <2>4. /\ m.contents \in {d}
        /\ m.TemplatesByID \in ByID(tids(d))
        /\ m.Stats \in GetServiceStatistics(Services[d].id)
    BY <2>3 DEF makeService, Services
  <2>5. d = c
    BY <2>2, <2>4
  <2>6. /\ DOMAIN m.TemplatesByID =
             {Services[c].Templates[t].ID : t \in DOMAIN Services[c].Templates}
        /\ \A id \in DOMAIN m.TemplatesByID : Services[c].Templates[m.TemplatesByID[id]].ID = id
    <3>1. m.TemplatesByID \in ByID(tids(c))
      BY <2>4, <2>5
    <3>2. /\ DOMAIN m.TemplatesByID = {tids(c)[t] : t \in DOMAIN tids(c)}
          /\ \A id \in DOMAIN m.TemplatesByID :
               m.TemplatesByID[id] \in DOMAIN tids(c) /\ tids(c)[m.TemplatesByID[id]] = id
      BY <3>1, Chosen
    <3> QED
      BY <3>2
  <2>7. ASSUME \A n \in DOMAIN conf.ServicesEnabled :
                 PathOfNth(n) = Services[c].Path => conf.ServicesEnabled[n] = c
        PROVE  m.Stats = (IF c \in Range(conf.ServicesEnabled) THEN Services[c].Path ELSE None)
    <3>1. GetServiceStatistics(Services[c].id)
            = {IF c \in Range(conf.ServicesEnabled) THEN Services[c].Path ELSE None}
      BY <1>4, <2>7, StatisticsOfOne DEF Reading, Loops
    <3> QED
      BY <2>4, <2>5, <3>1
  <2> QED
    BY <2>2, <2>6, <2>7 DEF m, PathOfNth, Services, Shows
<1>5. ShowsAll(Services, conf.ServicesEnabled, shown')
  BY <1>3, <1>4 DEF ShowsAll
<1>6. conf'.Services = Services /\ conf'.ServicesEnabled = conf.ServicesEnabled
  BY <1>2 DEF Services
<1> QED
  BY <1>5, <1>6, ServicesAreShownIs

LEMMA TablesInitInv == Init => TablesInv
BY ServicesAreShownIs DEF Init, ConfigInit, TablesInv, HasTable

\* Nothing else touches the tables.
LEMMA TablesStay ==
  ASSUME TablesInv, UNCHANGED <<pc, confvars, tables>>
  PROVE  TablesInv'
<1>1. pc' = pc /\ conf' = conf /\ proxy' = proxy /\ shown' = shown
  BY DEF confvars, tables
<1>2. TableOf(proxy, Len(conf.ServicesEnabled))' <=> TableOf(proxy, Len(conf.ServicesEnabled))
  BY <1>1 DEF TableOf, PathOfNth, IdOfNth
<1> QED
  BY <1>1, <1>2, ServicesAreShownIs DEF TablesInv

LEMMA ReadStepReads ==
  ASSUME ReadStep
  PROVE  pc' \notin HasTable
BY DEF ReadStep, readServerConfig, readAllServices, readAllTemplates, readEnabledTemplates,
   AddService, EndOfServices, readEnabledServices, EndOfEnabledServices, ReadConfig, Goto, Fail,
   HasTable

LEMMA TablesStepInv ==
  ASSUME ConfigInv, TablesInv, [Next]_vars
  PROVE  TablesInv'
<1>1. CASE Read
  <2>1. pc' \notin HasTable
    BY <1>1, ReadStepReads DEF Read
  <2> QED
    BY <2>1, ServicesAreShownIs DEF TablesInv, HasTable
<1>2. CASE NewProxy
  <2>1. pc' = "proxy" /\ conf' = conf
    BY <1>2 DEF NewProxy, confvars
  <2>2. TableOf(proxy', Len(conf.ServicesEnabled))
    BY <1>2, EnabledOfThePool, TableOfNewProxy DEF NewProxy, Reading, Loops
  <2>3. TableOf(proxy, Len(conf.ServicesEnabled))'
    BY <2>1, <2>2 DEF TableOf, PathOfNth, IdOfNth
  <2> QED
    BY <2>1, <2>3, ServicesAreShownIs DEF TablesInv
<1>3. CASE makeServices
  <2>1. pc = "proxy" /\ conf' = conf /\ proxy' = proxy
    BY <1>3 DEF makeServices, confvars
  <2>2. TableOf(proxy, Len(conf.ServicesEnabled))
    BY <2>1 DEF TablesInv, HasTable
  <2>3. TableOf(proxy, Len(conf.ServicesEnabled))'
    BY <2>1, <2>2 DEF TableOf, PathOfNth, IdOfNth
  <2>4. ServicesAreShown'
    <3>1. CASE pc' = "serving"
      BY <1>3, <2>1, <2>2, <3>1, ShownByMakeServices
    <3>2. CASE pc' # "serving"
      BY <3>2, ServicesAreShownIs
    <3> QED
      BY <3>1, <3>2
  <2> QED
    BY <2>3, <2>4 DEF TablesInv
<1>4. CASE \E r \in Requests : Arrive(r) \/ Serve(r)
  <2> PICK r \in Requests : Arrive(r) \/ Serve(r)
    BY <1>4
  <2>1. UNCHANGED <<pc, confvars, tables>>
    <3>1. CASE \E n \in DOMAIN call[r] : Resolver(r, n)
      BY <3>1 DEF Resolver, Silent, Resolve, Statistics, TemplateStatistics, TemplatesEnabled,
         ResetParser, Parse, FindMatch, Collect, WriteForwarded
    <3> QED
      BY <3>1 DEF Arrive, Serve, Reject, Lock, Finish
  <2> QED
    BY <2>1, TablesStay
<1>5. CASE UNCHANGED vars
  BY <1>5, TablesStay DEF vars
<1> QED
  BY <1>1, <1>2, <1>3, <1>4, <1>5 DEF Next

\* The API shows the services that were configured: makeServices finds each
\* by its id, with its own templates, and the statistics under which the proxy
\* counts for it.
THEOREM ConfiguredServicesAreShown == Spec => []ServicesAreShown
<1>1. Init => ConfigInv /\ TablesInv
  BY ConfigInitInv, TablesInitInv DEF Init
<1>2. (ConfigInv /\ TablesInv) /\ [Next]_vars => (ConfigInv /\ TablesInv)'
  BY ConfigStep, TablesStepInv
<1>3. TablesInv => ServicesAreShown
  BY DEF TablesInv
<1> QED
  BY <1>1, <1>2, <1>3, PTL DEF Spec
=============================================================================
