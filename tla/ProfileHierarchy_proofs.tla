------------------------ MODULE ProfileHierarchy_proofs ------------------------
(* Proofs about ProfileHierarchy, for every value of its constants.          *)
EXTENDS ProfileHierarchy, FiniteSetTheorems, TLAPS

(* A body that gives a parent. *)
Given(dto) == "parent" \in DOMAIN dto /\ dto.parent # None

(* A parent is only validated when it was given, and a continuation knows     *)
(* whether it creates or updates.                                            *)
BodiesKnown ==
  \A r \in Requests : req[r].pc = "validate" =>
    /\ Given(req[r].dto)
    /\ req[r].self = None => req[r].dto \in Creations
    /\ req[r].self # None => req[r].dto \in Updates /\ Exists(req[r].self)

(* The inductive invariant behind TypeOK. *)
TypeInv == TypeOK /\ BodiesKnown

(* What a continuation carries, by the place of the request. *)
LEMMA Carried ==
  ASSUME NEW k \in Continuations
  PROVE  /\ k.pc \in {"idle", "validate", "upsert", "write", "count", "start", "remove"}
         /\ k.pc = "validate" => /\ k.self \in Rows \union {None}
                                 /\ k.child2 \in BOOLEAN
                                 /\ k.dto \in Creations \union Updates
         /\ k.pc = "upsert" => k.dto \in Creations
         /\ k.pc = "write" => k.self \in Rows /\ k.dto \in Updates
         /\ k.pc \in {"count", "start", "remove"} => k.self \in Rows
         /\ k.pc = "remove" => k.confirm \in BOOLEAN
  BY DEF Continuations, Idle

(* The continuations of each place. *)
LEMMA Places ==
  /\ Idle \in Continuations /\ Idle.pc = "idle"
  /\ \A s \in Rows \union {None}, b \in BOOLEAN, d \in Creations \union Updates :
       [pc |-> "validate", self |-> s, child2 |-> b, dto |-> d] \in Continuations
  /\ \A d \in Creations : [pc |-> "upsert", dto |-> d] \in Continuations
  /\ \A s \in Rows, d \in Updates :
       [pc |-> "write", self |-> s, dto |-> d] \in Continuations
  /\ \A s \in Rows : /\ [pc |-> "count", self |-> s] \in Continuations
                     /\ [pc |-> "start", self |-> s] \in Continuations
  /\ \A s \in Rows, b \in BOOLEAN :
       [pc |-> "remove", self |-> s, confirm |-> b] \in Continuations
  BY DEF Continuations, Idle

(* A creation brings every field; an update brings fields of their types and  *)
(* never the deletion mark.                                                  *)
LEMMA Bodies ==
  /\ \A d \in Creations : d \in CreateDto
  /\ \A d \in Updates :
       /\ DOMAIN d \subseteq {"name", "type", "level", "parent"}
       /\ "name" \in DOMAIN d => d.name \in Names
       /\ "type" \in DOMAIN d => d.type \in Kinds
       /\ "level" \in DOMAIN d => d.level \in Levels
       /\ "parent" \in DOMAIN d => d.parent \in Rows \union {None}
  BY BodyAssumption DEF UpdateDto

(* An updated row has its fields of their types, and keeps those that the     *)
(* body does not bring.                                                      *)
LEMMA PatchedRow ==
  ASSUME NEW q \in Profile, NEW d \in Updates
  PROVE  /\ Patched(q, d) \in Profile
         /\ Patched(q, d).live = q.live
         /\ "parent" \notin DOMAIN d => Patched(q, d).parent = q.parent
         /\ "parent" \in DOMAIN d => Patched(q, d).parent = d.parent
<1> DEFINE F == {"name", "type", "level", "parent", "live"}
<1>1. DOMAIN q = F
  BY DEF Profile
<1>2. Patched(q, d) = [f \in F |-> IF f \in DOMAIN d THEN d[f] ELSE q[f]]
  BY <1>1 DEF Patched
<1> DEFINE n == IF "name" \in DOMAIN d THEN d.name ELSE q.name
           t == IF "type" \in DOMAIN d THEN d.type ELSE q.type
           l == IF "level" \in DOMAIN d THEN d.level ELSE q.level
           p == IF "parent" \in DOMAIN d THEN d.parent ELSE q.parent
<1>3. Patched(q, d) = [name |-> n, type |-> t, level |-> l, parent |-> p, live |-> q.live]
  BY <1>2, Bodies
<1>4. /\ n \in Names /\ t \in Kinds /\ l \in Levels /\ p \in Rows \union {None}
      /\ q.live \in BOOLEAN
  BY Bodies DEF Profile
<1>5. Patched(q, d) \in Profile
  <2> HIDE DEF n, t, l, p
  <2> QED BY <1>3, <1>4 DEF Profile
<1> QED BY <1>3, <1>5

(* The row a creation writes. *)
LEMMA CreatedRow ==
  ASSUME NEW d \in Creations
  PROVE  [name |-> d.name, type |-> d.type, level |-> d.level,
          parent |-> d.parent, live |-> TRUE] \in Profile
  BY Bodies DEF CreateDto, Profile

-----------------------------------------------------------------------------
(* The history variables keep their types. *)
LEMMA RememberTyped ==
  ASSUME Remember
  PROVE  calm' \in BOOLEAN /\ reshaped' \in BOOLEAN /\ sawLevel2' \subseteq Requests
<1>1. calm' \in BOOLEAN
  BY DEF Remember
<1>2. reshaped' \in BOOLEAN
  BY DEF Remember
<1>3. sawLevel2' \subseteq Requests
  BY DEF Remember
<1> QED BY <1>1, <1>2, <1>3

(* A request moves to a continuation of its type; no row is taken away. *)
LEMMA TypeMoves ==
  ASSUME TypeInv, Remember,
         NEW r \in Requests, NEW k \in Continuations, Goto(r, k),
         profile' \in [Rows -> Profile \union {None}],
         \A p \in Rows : Exists(p) => profile'[p] # None,
         \A p \in open' : p \in Rows /\ profile'[p] # None,
         k.pc \in {"write", "count", "remove", "start"} => Exists(k.self),
         k.pc = "validate" =>
           /\ Given(k.dto)
           /\ k.self = None => k.dto \in Creations
           /\ k.self # None => k.dto \in Updates /\ Exists(k.self)
  PROVE  TypeInv'
<1>1. req' = [req EXCEPT ![r] = k] /\ req \in [Requests -> Continuations]
  BY DEF Goto, TypeInv, TypeOK
<1>2. ASSUME NEW q \in Requests
      PROVE  /\ req'[q].pc \in {"write", "count", "remove", "start"} =>
                  profile'[req'[q].self] # None
             /\ req'[q].pc = "validate" =>
                  /\ Given(req'[q].dto)
                  /\ req'[q].self = None => req'[q].dto \in Creations
                  /\ req'[q].self # None =>
                       req'[q].dto \in Updates /\ profile'[req'[q].self] # None
  <2>1. CASE q = r
    <3>1. req'[q] = k
      BY <1>1, <2>1
    <3>2. k.pc \in {"write", "count", "remove", "start"} => k.self \in Rows
      BY Carried
    <3>3. k.pc = "validate" /\ k.self # None => k.self \in Rows
      BY Carried
    <3> QED BY <3>1, <3>2, <3>3
  <2>2. CASE q # r
    <3>1. req'[q] = req[q] /\ req[q] \in Continuations
      BY <1>1, <2>2
    <3>2. /\ req[q].pc \in {"write", "count", "remove", "start"} =>
               req[q].self \in Rows /\ Exists(req[q].self)
          /\ req[q].pc = "validate" /\ req[q].self # None => req[q].self \in Rows
      BY <3>1, Carried DEF TypeInv, TypeOK
    <3>3. req[q].pc = "validate" =>
            /\ Given(req[q].dto)
            /\ req[q].self = None => req[q].dto \in Creations
            /\ req[q].self # None => req[q].dto \in Updates /\ Exists(req[q].self)
      BY DEF TypeInv, BodiesKnown
    <3> QED BY <3>1, <3>2, <3>3
  <2> QED BY <2>1, <2>2
<1>3. req' \in [Requests -> Continuations]
  BY <1>1
<1>4. TypeOK'
  BY <1>2, <1>3, RememberTyped DEF TypeOK, Exists
<1>5. BodiesKnown'
  BY <1>2 DEF BodiesKnown, Given, Exists
<1> QED BY <1>4, <1>5 DEF TypeInv

(* The same for a request that writes nothing. *)
LEMMA TypeStays ==
  ASSUME TypeInv, Remember, Stay,
         NEW r \in Requests, NEW k \in Continuations, Goto(r, k),
         k.pc \in {"write", "count", "remove", "start"} => Exists(k.self),
         k.pc = "validate" =>
           /\ Given(k.dto)
           /\ k.self = None => k.dto \in Creations
           /\ k.self # None => k.dto \in Updates /\ Exists(k.self)
  PROVE  TypeInv'
<1>1. /\ profile' \in [Rows -> Profile \union {None}]
      /\ \A p \in Rows : Exists(p) => profile'[p] # None
      /\ \A p \in open' : p \in Rows /\ profile'[p] # None
  BY DEF Stay, TypeInv, TypeOK, Exists
<1> QED BY <1>1, TypeMoves

(* A request that ends, whatever row it wrote. *)
LEMMA TypeEnds ==
  ASSUME TypeInv, Remember, NEW r \in Requests, Goto(r, Idle),
         NEW p \in Rows, NEW q \in Profile,
         profile' = [profile EXCEPT ![p] = q],
         open' \subseteq open \union {p}
  PROVE  TypeInv'
<1>1. q # None
  BY NoneAssumption
<1>2. profile' \in [Rows -> Profile \union {None}]
  BY DEF TypeInv, TypeOK
<1>3. \A o \in Rows : Exists(o) \/ o = p => profile'[o] # None
  BY <1>1 DEF TypeInv, TypeOK, Exists
<1>4. \A o \in open' : o \in Rows /\ profile'[o] # None
  BY <1>3 DEF TypeInv, TypeOK
<1> QED BY <1>2, <1>3, <1>4, Places, TypeMoves

(* What a request begins with, and the continuation it goes on with. *)
LEMMA Begins ==
  ASSUME NEW r \in Requests, Begin(r)
  PROVE  /\ IsIdle(r) /\ Stay
         /\ \/ \E d \in Creations :
                 /\ \A p \in Named(d.name) : ~Live(p)
                 /\ \/ /\ ~Given(d)
                       /\ Goto(r, [pc |-> "upsert", dto |-> d])
                    \/ /\ Given(d)
                       /\ Goto(r, [pc |-> "validate", self |-> None,
                                   child2 |-> IsLevel2(d), dto |-> d])
            \/ \E p \in Rows, d \in Updates :
                 /\ Live(p)
                 /\ \/ /\ ~Given(d)
                       /\ Goto(r, [pc |-> "write", self |-> p, dto |-> d])
                    \/ /\ Given(d)
                       /\ Goto(r, [pc |-> "validate", self |-> p, dto |-> d,
                                   child2 |-> IsLevel2(Patched(profile[p], d))])
            \/ \E p \in Rows :
                 /\ Live(p)
                 /\ \/ Goto(r, [pc |-> "remove", self |-> p, confirm |-> TRUE])
                    \/ Goto(r, [pc |-> "count", self |-> p])
                    \/ Goto(r, [pc |-> "start", self |-> p])
<1>1. ASSUME NEW d \in Creations, CreateFind(r, d)
      PROVE  /\ IsIdle(r) /\ Stay /\ \A p \in Named(d.name) : ~Live(p)
             /\ \/ /\ ~Given(d)
                   /\ Goto(r, [pc |-> "upsert", dto |-> d])
                \/ /\ Given(d)
                   /\ Goto(r, [pc |-> "validate", self |-> None,
                               child2 |-> IsLevel2(d), dto |-> d])
  <2>1. "parent" \in DOMAIN d
    BY Bodies DEF CreateDto
  <2> QED BY <1>1, <2>1 DEF CreateFind, Given
<1>2. ASSUME NEW p \in Rows, NEW d \in Updates, UpdateGet(r, p, d)
      PROVE  /\ IsIdle(r) /\ Stay /\ Live(p)
             /\ \/ /\ ~Given(d)
                   /\ Goto(r, [pc |-> "write", self |-> p, dto |-> d])
                \/ /\ Given(d)
                   /\ Goto(r, [pc |-> "validate", self |-> p, dto |-> d,
                               child2 |-> IsLevel2(Patched(profile[p], d))])
  BY <1>2 DEF UpdateGet, Given
<1>3. ASSUME NEW p \in Rows, NEW confirm \in BOOLEAN,
             DeleteGet(r, p, confirm) \/ StartFind(r, p)
      PROVE  /\ IsIdle(r) /\ Stay /\ Live(p)
             /\ \/ Goto(r, [pc |-> "remove", self |-> p, confirm |-> TRUE])
                \/ Goto(r, [pc |-> "count", self |-> p])
                \/ Goto(r, [pc |-> "start", self |-> p])
  BY <1>3 DEF DeleteGet, StartFind
<1> QED BY <1>1, <1>2, <1>3 DEF Begin

(* The row of a request that updates or deletes is there. *)
LEMMA RowIsThere ==
  ASSUME TypeInv, NEW r \in Requests, req[r].pc \in {"write", "count", "remove", "start"}
  PROVE  /\ req[r].self \in Rows /\ Exists(req[r].self)
         /\ profile[req[r].self] \in Profile
<1>1. req[r] \in Continuations
  BY DEF TypeInv, TypeOK
<1>2. req[r].self \in Rows
  BY <1>1, Carried
<1> QED BY <1>2 DEF TypeInv, TypeOK, Exists

(* A creation writes one row, which had its name or was not there. *)
LEMMA UpsertWrites ==
  ASSUME TypeInv, NEW r \in Requests, CreateUpsert(r)
  PROVE  /\ req[r].pc = "upsert" /\ req[r].dto \in Creations
         /\ Goto(r, Idle) /\ UNCHANGED open
         /\ \E p \in Rows, q \in Profile :
              /\ IF Named(req[r].dto.name) # {} THEN p \in Named(req[r].dto.name)
                 ELSE ~Exists(p)
              /\ profile' = [profile EXCEPT ![p] = q]
              /\ q = [name |-> req[r].dto.name, type |-> req[r].dto.type,
                      level |-> req[r].dto.level, parent |-> req[r].dto.parent,
                      live |-> TRUE]
<1>1. req[r].pc = "upsert" /\ Goto(r, Idle) /\ UNCHANGED open
  BY DEF CreateUpsert
<1>2. req[r] \in Continuations
  BY DEF TypeInv, TypeOK
<1>3. req[r].dto \in Creations
  BY <1>1, <1>2, Carried
<1> DEFINE q == [name |-> req[r].dto.name, type |-> req[r].dto.type,
                 level |-> req[r].dto.level, parent |-> req[r].dto.parent,
                 live |-> TRUE]
<1>4. q \in Profile
  BY <1>3, CreatedRow
<1>5. PICK p \in Rows :
        /\ IF Named(req[r].dto.name) # {} THEN p \in Named(req[r].dto.name) ELSE ~Exists(p)
        /\ profile' = [profile EXCEPT ![p] = q]
  BY DEF CreateUpsert
<1> QED BY <1>1, <1>3, <1>4, <1>5

(* An update writes its row or nothing. *)
LEMMA UpdateWrites ==
  ASSUME TypeInv, NEW r \in Requests, UpdateWrite(r)
  PROVE  /\ req[r].pc = "write" /\ req[r].dto \in Updates
         /\ req[r].self \in Rows /\ profile[req[r].self] \in Profile
         /\ Goto(r, Idle) /\ UNCHANGED open
         /\ Patched(profile[req[r].self], req[r].dto) \in Profile
         /\ \/ UNCHANGED profile
            \/ profile' = [profile EXCEPT ![req[r].self] =
                             Patched(profile[req[r].self], req[r].dto)]
<1>1. req[r].pc = "write" /\ Goto(r, Idle) /\ UNCHANGED open
  BY DEF UpdateWrite
<1>2. req[r] \in Continuations
  BY DEF TypeInv, TypeOK
<1>3. req[r].dto \in Updates
  BY <1>1, <1>2, Carried
<1>4. req[r].self \in Rows /\ profile[req[r].self] \in Profile
  BY <1>1, RowIsThere
<1>5. Patched(profile[req[r].self], req[r].dto) \in Profile
  BY <1>3, <1>4, PatchedRow
<1>6. \/ UNCHANGED profile
      \/ profile' = [profile EXCEPT ![req[r].self] =
                       Patched(profile[req[r].self], req[r].dto)]
  BY DEF UpdateWrite
<1> QED BY <1>1, <1>3, <1>4, <1>5, <1>6

(* A deletion writes its row. *)
LEMMA DeleteWrites ==
  ASSUME TypeInv, NEW r \in Requests, DeleteWrite(r)
  PROVE  /\ req[r].pc = "remove" /\ req[r].self \in Rows
         /\ profile[req[r].self] \in Profile
         /\ Goto(r, Idle) /\ UNCHANGED open
         /\ [profile[req[r].self] EXCEPT !.live = FALSE] \in Profile
         /\ profile' = [profile EXCEPT ![req[r].self] =
                          [profile[req[r].self] EXCEPT !.live = FALSE]]
<1>1. /\ req[r].pc = "remove" /\ Goto(r, Idle) /\ UNCHANGED open
      /\ profile' = [profile EXCEPT ![req[r].self].live = FALSE]
  BY DEF DeleteWrite
<1>2. req[r].self \in Rows /\ profile[req[r].self] \in Profile
  BY <1>1, RowIsThere
<1>3. [profile[req[r].self] EXCEPT !.live = FALSE] \in Profile
  BY <1>2 DEF Profile
<1>4. profile' = [profile EXCEPT ![req[r].self] =
                    [profile[req[r].self] EXCEPT !.live = FALSE]]
  BY <1>1
<1> QED BY <1>1, <1>2, <1>3, <1>4

(* No step gives a row or a continuation a wrong type. *)
LEMMA TypeStep == TypeInv /\ [Next]_vars => TypeInv'
<1> SUFFICES ASSUME TypeInv, [Next]_vars PROVE TypeInv'
  OBVIOUS
<1>1. CASE UNCHANGED vars
  BY <1>1 DEF vars, TypeInv, TypeOK, BodiesKnown, Exists
<1>2. CASE Next
  <2>1. Remember
    BY <1>2 DEF Next
  <2>2. ASSUME NEW r \in Requests, Begin(r)
        PROVE  TypeInv'
    <3>1. Stay
      BY <2>2, Begins
    <3>2. ASSUME NEW d \in Creations, Goto(r, [pc |-> "upsert", dto |-> d])
          PROVE  TypeInv'
      BY <2>1, <3>1, <3>2, Places, TypeStays
    <3>3. ASSUME NEW d \in Creations, Given(d),
                 Goto(r, [pc |-> "validate", self |-> None,
                          child2 |-> IsLevel2(d), dto |-> d])
          PROVE  TypeInv'
      <4> DEFINE k == [pc |-> "validate", self |-> None, child2 |-> IsLevel2(d), dto |-> d]
      <4>1. k \in Continuations
        BY Places DEF IsLevel2
      <4>2. k.pc = "validate" /\ k.self = None /\ k.dto = d /\ Goto(r, k)
        BY <3>3
      <4> HIDE DEF k
      <4> QED BY <2>1, <3>1, <3>3, <4>1, <4>2, TypeStays
    <3>4. ASSUME NEW p \in Rows, NEW d \in Updates, Live(p),
                 Goto(r, [pc |-> "write", self |-> p, dto |-> d])
          PROVE  TypeInv'
      <4>1. Exists(p)
        BY <3>4 DEF Live
      <4> QED BY <2>1, <3>1, <3>4, <4>1, Places, TypeStays
    <3>5. ASSUME NEW p \in Rows, NEW d \in Updates, Live(p), Given(d),
                 Goto(r, [pc |-> "validate", self |-> p, dto |-> d,
                          child2 |-> IsLevel2(Patched(profile[p], d))])
          PROVE  TypeInv'
      <4> DEFINE k == [pc |-> "validate", self |-> p, dto |-> d,
                       child2 |-> IsLevel2(Patched(profile[p], d))]
      <4>1. k \in Continuations
        BY Places DEF IsLevel2
      <4>2. k.pc = "validate" /\ k.self = p /\ k.dto = d /\ Goto(r, k)
            /\ Exists(p) /\ p # None
        BY <3>5, NoneAssumption DEF Live
      <4> HIDE DEF k
      <4> QED BY <2>1, <3>1, <3>5, <4>1, <4>2, TypeStays
    <3>6. ASSUME NEW p \in Rows, Live(p),
                 \/ Goto(r, [pc |-> "remove", self |-> p, confirm |-> TRUE])
                 \/ Goto(r, [pc |-> "count", self |-> p])
                 \/ Goto(r, [pc |-> "start", self |-> p])
          PROVE  TypeInv'
      <4>1. Exists(p)
        BY <3>6 DEF Live
      <4>2. ASSUME NEW k \in Continuations, Goto(r, k), k.self = p,
                   k.pc \in {"remove", "count", "start"}
            PROVE  TypeInv'
        BY <2>1, <3>1, <4>1, <4>2, TypeStays
      <4> QED BY <3>6, <4>2, Places
    <3> QED BY <2>2, <3>2, <3>3, <3>4, <3>5, <3>6, Begins
  <2>3. ASSUME NEW r \in Requests, ValidateParent(r)
        PROVE  TypeInv'
    <3>1. req[r].pc = "validate" /\ Stay /\ req[r] \in Continuations
      BY <2>3 DEF ValidateParent, TypeInv, TypeOK
    <3>2. \/ Goto(r, Idle)
          \/ req[r].self = None /\ Goto(r, [pc |-> "upsert", dto |-> req[r].dto])
          \/ req[r].self # None
               /\ Goto(r, [pc |-> "write", self |-> req[r].self, dto |-> req[r].dto])
      BY <2>3 DEF ValidateParent
    <3>3. /\ req[r].self = None => req[r].dto \in Creations
          /\ req[r].self # None =>
               req[r].self \in Rows /\ req[r].dto \in Updates /\ Exists(req[r].self)
      BY <3>1, Carried DEF TypeInv, BodiesKnown
    <3>4. CASE Goto(r, Idle)
      BY <2>1, <3>1, <3>4, Places, TypeStays
    <3>5. CASE req[r].self = None /\ Goto(r, [pc |-> "upsert", dto |-> req[r].dto])
      BY <2>1, <3>1, <3>3, <3>5, Places, TypeStays
    <3>6. CASE req[r].self # None
               /\ Goto(r, [pc |-> "write", self |-> req[r].self, dto |-> req[r].dto])
      BY <2>1, <3>1, <3>3, <3>6, Places, TypeStays
    <3> QED BY <3>2, <3>4, <3>5, <3>6
  <2>4. ASSUME NEW r \in Requests, CreateUpsert(r)
        PROVE  TypeInv'
    BY <2>1, <2>4, UpsertWrites, TypeEnds
  <2>5. ASSUME NEW r \in Requests, UpdateWrite(r)
        PROVE  TypeInv'
    <3>1. CASE UNCHANGED profile
      BY <2>1, <2>5, <3>1, UpdateWrites, Places, TypeStays DEF Stay
    <3>2. CASE profile' = [profile EXCEPT ![req[r].self] =
                             Patched(profile[req[r].self], req[r].dto)]
      BY <2>1, <2>5, <3>2, UpdateWrites, TypeEnds
    <3> QED BY <2>5, <3>1, <3>2, UpdateWrites
  <2>6. ASSUME NEW r \in Requests, DeleteCount(r)
        PROVE  TypeInv'
    <3>1. req[r].self \in Rows /\ Exists(req[r].self) /\ Stay
      BY <2>6, RowIsThere DEF DeleteCount
    <3>2. \/ Goto(r, Idle)
          \/ Goto(r, [pc |-> "remove", self |-> req[r].self, confirm |-> FALSE])
      BY <2>6 DEF DeleteCount
    <3> QED BY <2>1, <3>1, <3>2, Places, TypeStays
  <2>7. ASSUME NEW r \in Requests, DeleteWrite(r)
        PROVE  TypeInv'
    BY <2>1, <2>7, DeleteWrites, TypeEnds
  <2>8. ASSUME NEW r \in Requests, StartInsert(r)
        PROVE  TypeInv'
    <3>1. /\ req[r].self \in Rows /\ Exists(req[r].self)
          /\ open' = open \union {req[r].self} /\ Goto(r, Idle) /\ UNCHANGED profile
      BY <2>8, RowIsThere DEF StartInsert
    <3>2. /\ profile' \in [Rows -> Profile \union {None}]
          /\ \A p \in Rows : Exists(p) => profile'[p] # None
          /\ \A p \in open' : p \in Rows /\ profile'[p] # None
      BY <3>1 DEF TypeInv, TypeOK, Exists
    <3> QED BY <2>1, <3>1, <3>2, Places, TypeMoves
  <2>9. ASSUME NEW r \in Requests, Fail(r)
        PROVE  TypeInv'
    BY <2>1, <2>9, Places, TypeStays DEF Fail
  <2>10. ASSUME NEW p \in Rows, Complete(p)
         PROVE  TypeInv'
    BY <2>1, <2>10, RememberTyped DEF Complete, TypeInv, TypeOK, BodiesKnown, Exists
  <2> QED
    BY <1>2, <2>2, <2>3, <2>4, <2>5, <2>6, <2>7, <2>8, <2>9, <2>10 DEF Next, Proceed
<1> QED BY <1>1, <1>2

(* An organisation without profiles and no request. *)
LEMMA TypeInit == Init => TypeInv
<1> SUFFICES ASSUME Init PROVE TypeInv
  OBVIOUS
<1>1. req \in [Requests -> Continuations]
  BY Places DEF Init
<1>2. \A r \in Requests : req[r].pc = "idle"
  BY Places DEF Init
<1> QED BY <1>1, <1>2 DEF Init, TypeInv, TypeOK, BodiesKnown

(* Rows, evaluations and continuations keep their types; what a request       *)
(* updates, deletes or evaluates has a row.                                  *)
THEOREM ProfilesTypeCorrect == Spec => []TypeOK
<1>1. TypeInv => TypeOK
  BY DEF TypeInv
<1> QED BY <1>1, TypeInit, TypeStep, PTL DEF Spec

-----------------------------------------------------------------------------
(* A move changes the continuation of one request. *)
LEMMA GotoMovesOne ==
  ASSUME TypeInv, NEW r \in Requests, NEW k, Goto(r, k)
  PROVE  /\ req'[r] = k
         /\ \A q \in Requests : q # r => req'[q] = req[q]
  BY DEF Goto, TypeInv, TypeOK

(* An accepted parent is a live Level 2 association, not the profile itself,  *)
(* and what goes under it is not Level 2.                                    *)
LEMMA Validated ==
  ASSUME TypeInv, NEW r \in Requests, ValidateParent(r)
  PROVE  /\ req[r].pc = "validate" /\ Stay /\ Given(req[r].dto)
         /\ \/ Goto(r, Idle)
            \/ /\ req[r].dto.parent \in Level2s
               /\ req[r].dto.parent # req[r].self /\ ~req[r].child2
               /\ \/ /\ req[r].self = None /\ req[r].dto \in Creations
                     /\ Goto(r, [pc |-> "upsert", dto |-> req[r].dto])
                  \/ /\ req[r].self \in Rows /\ req[r].dto \in Updates
                     /\ Goto(r, [pc |-> "write", self |-> req[r].self, dto |-> req[r].dto])
<1>1. req[r].pc = "validate" /\ Stay /\ req[r] \in Continuations
  BY DEF ValidateParent, TypeInv, TypeOK
<1>2. /\ Given(req[r].dto)
      /\ req[r].self = None => req[r].dto \in Creations
      /\ req[r].self # None => req[r].self \in Rows /\ req[r].dto \in Updates
  BY <1>1, Carried DEF TypeInv, BodiesKnown
<1>3. "parent" \in DOMAIN req[r].dto => req[r].dto.parent \in Rows \union {None}
  BY <1>1, Carried, Bodies DEF CreateDto
<1>4. req[r].dto.parent \in Rows
  BY <1>2, <1>3 DEF Given
<1>5. ParentAccepted(req[r]) =>
        /\ req[r].dto.parent \in Level2s
        /\ req[r].dto.parent # req[r].self /\ ~req[r].child2
  BY <1>4 DEF ParentAccepted, Level2s
<1>6. \/ Goto(r, Idle)
      \/ /\ ParentAccepted(req[r])
         /\ \/ req[r].self = None /\ Goto(r, [pc |-> "upsert", dto |-> req[r].dto])
            \/ /\ req[r].self # None
               /\ Goto(r, [pc |-> "write", self |-> req[r].self, dto |-> req[r].dto])
  BY DEF ValidateParent
<1> QED BY <1>1, <1>2, <1>5, <1>6

(* A request about to write a parent has seen it as a live Level 2            *)
(* association.                                                              *)
SawInv ==
  \A r \in Requests :
    req[r].pc \in {"upsert", "write"} /\ Given(req[r].dto) => r \in sawLevel2

(* The request that comes to write a parent has just validated it. *)
LEMMA ParentsSeen ==
  ASSUME TypeInv, Next, NEW q \in Requests,
         req'[q].pc \in {"upsert", "write"}, Given(req'[q].dto)
  PROVE  req'[q] = req[q] \/ req'[q].dto.parent \in Level2s
<1>1. ASSUME NEW r \in Requests, NEW k, Goto(r, k),
             k.pc \notin {"upsert", "write"} \/ ~Given(k.dto)
      PROVE  req'[q] = req[q]
  BY <1>1, GotoMovesOne
<1>2. ASSUME NEW r \in Requests, Begin(r)
      PROVE  req'[q] = req[q]
  BY <1>1, <1>2, Begins
<1>3. ASSUME NEW r \in Requests, ValidateParent(r)
      PROVE  req'[q] = req[q] \/ req'[q].dto.parent \in Level2s
  <2>1. CASE Goto(r, Idle)
    BY <1>1, <2>1, Places
  <2>2. ASSUME NEW k, Goto(r, k), k.dto = req[r].dto, req[r].dto.parent \in Level2s
        PROVE  req'[q] = req[q] \/ req'[q].dto.parent \in Level2s
    BY <2>2, GotoMovesOne
  <2> QED BY <1>3, <2>1, <2>2, Validated
<1>4. ASSUME NEW r \in Requests,
             CreateUpsert(r) \/ UpdateWrite(r) \/ DeleteCount(r) \/ DeleteWrite(r)
               \/ StartInsert(r) \/ Fail(r)
      PROVE  req'[q] = req[q]
  BY <1>1, <1>4, Places
     DEF CreateUpsert, UpdateWrite, DeleteCount, DeleteWrite, StartInsert, Fail
<1>5. ASSUME NEW p \in Rows, Complete(p)
      PROVE  req'[q] = req[q]
  BY <1>5 DEF Complete
<1> QED BY <1>2, <1>3, <1>4, <1>5 DEF Next, Proceed

(* What a request has seen is remembered until it writes. *)
LEMMA SawStep == TypeInv /\ SawInv /\ [Next]_vars => SawInv'
<1> SUFFICES ASSUME TypeInv, SawInv, [Next]_vars, NEW q \in Requests,
                    req'[q].pc \in {"upsert", "write"}, Given(req'[q].dto)
             PROVE  q \in sawLevel2'
  BY DEF SawInv, Given
<1>1. CASE UNCHANGED vars
  BY <1>1 DEF vars, SawInv
<1>2. CASE Next
  <2>1. q \in sawLevel2 \/ req'[q].dto.parent \in Level2s
    BY <1>2, ParentsSeen DEF SawInv
  <2> QED BY <1>2, <2>1 DEF Next, Remember, Given
<1> QED BY <1>1, <1>2

(* Whatever requests overlap, a parent that is written was a live Level 2     *)
(* association at some moment of the request that writes it.                 *)
THEOREM ParentsWereLevel2 == Spec => ParentWasLevel2
<1>1. Init => SawInv
  BY Places DEF Init, SawInv
<1>2. ASSUME TypeInv, SawInv, [Next]_vars, NEW r \in Requests, NEW p \in Rows,
             CreateUpsert(r) \/ UpdateWrite(r), Live(p)', profile'[p].parent # None,
             Exists(p) => profile'[p].parent # profile[p].parent
      PROVE  r \in sawLevel2
  <2>1. CASE CreateUpsert(r)
    <3>1. PICK o \in Rows, row \in Profile :
            /\ req[r].pc = "upsert" /\ req[r].dto \in Creations
            /\ profile' = [profile EXCEPT ![o] = row] /\ row.parent = req[r].dto.parent
      BY <1>2, <2>1, UpsertWrites
    <3>2. p = o
      BY <1>2, <3>1 DEF Live, Exists, TypeInv, TypeOK
    <3>3. req[r].dto.parent # None
      BY <1>2, <3>1, <3>2 DEF TypeInv, TypeOK
    <3>4. Given(req[r].dto)
      BY <3>1, <3>3, Bodies DEF CreateDto, Given
    <3> QED BY <1>2, <3>1, <3>4 DEF SawInv
  <2>2. CASE UpdateWrite(r)
    <3>1. /\ req[r].pc = "write" /\ req[r].dto \in Updates
          /\ req[r].self \in Rows /\ profile[req[r].self] \in Profile
          /\ \/ UNCHANGED profile
             \/ profile' = [profile EXCEPT ![req[r].self] =
                              Patched(profile[req[r].self], req[r].dto)]
      BY <1>2, <2>2, UpdateWrites
    <3>2. /\ p = req[r].self
          /\ profile'[p] = Patched(profile[req[r].self], req[r].dto)
      BY <1>2, <3>1 DEF Live, Exists, TypeInv, TypeOK
    <3>3. Exists(p)
      BY <3>1, <3>2, NoneAssumption DEF Exists
    <3>4. Given(req[r].dto)
      BY <1>2, <3>1, <3>2, <3>3, PatchedRow DEF Given
    <3> QED BY <1>2, <3>1, <3>4 DEF SawInv
  <2> QED BY <1>2, <2>1, <2>2
<1>3. TypeInv /\ SawInv /\ [Next]_vars =>
        [\A r \in Requests, p \in Rows :
           /\ CreateUpsert(r) \/ UpdateWrite(r)
           /\ Live(p)' /\ profile'[p].parent # None
           /\ Exists(p) => profile'[p].parent # profile[p].parent
           => r \in sawLevel2]_vars
  BY <1>2
<1> QED BY <1>1, <1>3, TypeInit, TypeStep, SawStep, PTL DEF Spec, ParentWasLevel2

-----------------------------------------------------------------------------
(* Requests one at a time.  What a request has read is then still true when   *)
(* it writes: the name is free, the parent is a live Level 2 association, the *)
(* profile to delete has no open evaluation, the one to evaluate is live.     *)
OneInFlight == \A q, r \in Requests : ~IsIdle(q) /\ ~IsIdle(r) => q = r

(* Whether an updated row is a Level 2 association. *)
Level2After(q, d) ==
  /\ (IF "type" \in DOMAIN d THEN d.type ELSE q.type) = "ASSOCIATION"
  /\ (IF "level" \in DOMAIN d THEN d.level ELSE q.level) = "LEVEL_2"

StillTrue(k) ==
  /\ k.pc = "validate" =>
       (k.child2 <=> IF k.self = None THEN IsLevel2(k.dto)
                     ELSE Level2After(profile[k.self], k.dto))
  /\ k.pc = "upsert" \/ (k.pc = "validate" /\ k.self = None) =>
       \A p \in Named(k.dto.name) : ~Live(p)
  /\ k.pc \in {"upsert", "write"} /\ Given(k.dto) =>
       k.dto.parent \in Rows /\ Live(k.dto.parent) /\ IsLevel2(profile[k.dto.parent])
  /\ k.pc = "upsert" /\ Given(k.dto) => ~IsLevel2(k.dto)
  /\ k.pc = "write" /\ Given(k.dto) =>
       k.dto.parent # k.self /\ ~Level2After(profile[k.self], k.dto)
  /\ k.pc = "remove" /\ ~k.confirm => k.self \notin open
  /\ k.pc = "start" => Live(k.self)

CalmInv == calm => OneInFlight /\ \A r \in Requests : StillTrue(req[r])

(* Level2After is what the update makes of the row. *)
LEMMA PatchedLevel ==
  ASSUME NEW q \in Profile, NEW d \in Updates
  PROVE  IsLevel2(Patched(q, d)) <=> Level2After(q, d)
<1> DEFINE F == {"name", "type", "level", "parent", "live"}
<1>1. DOMAIN q = F
  BY DEF Profile
<1>2. Patched(q, d) = [f \in F |-> IF f \in DOMAIN d THEN d[f] ELSE q[f]]
  BY <1>1 DEF Patched
<1>3. /\ Patched(q, d).type = (IF "type" \in DOMAIN d THEN d.type ELSE q.type)
      /\ Patched(q, d).level = (IF "level" \in DOMAIN d THEN d.level ELSE q.level)
  BY <1>2
<1> QED BY <1>3 DEF IsLevel2, Level2After

(* A set has at most one element when any two are the same. *)
LEMMA OneElement ==
  ASSUME NEW S, IsFiniteSet(S), Cardinality(S) <= 1, NEW a \in S, NEW b \in S
  PROVE  a = b
<1>1. Cardinality(S) \in Nat /\ Cardinality(S) # 0
  BY FS_CardinalityType, FS_EmptySet
<1>2. Cardinality(S) = 1
  BY <1>1
<1> QED BY <1>2, FS_Singleton

(* As long as the requests are calm, one is in flight at most. *)
LEMMA CalmMeansOne ==
  ASSUME Remember, calm'
  PROVE  calm /\ OneInFlight'
<1> DEFINE S == {r \in Requests : req'[r].pc # "idle"}
<1>1. calm /\ Cardinality(S) <= 1
  BY DEF Remember
<1>2. IsFiniteSet(S)
  BY RequestAssumption, FS_Subset
<1>3. ASSUME NEW q \in Requests, NEW r \in Requests, req'[q].pc # "idle", req'[r].pc # "idle"
      PROVE  q = r
  <2>1. q \in S /\ r \in S
    BY <1>3
  <2> HIDE DEF S
  <2> QED BY <1>1, <1>2, <2>1, OneElement
<1> QED BY <1>1, <1>3 DEF OneInFlight, IsIdle

(* The request that begins, goes on or fails in a calm step was alone. *)
LEMMA MoverAlone ==
  ASSUME TypeInv, CalmInv, Remember, calm', NEW r \in Requests,
         Begin(r) \/ Proceed(r) \/ Fail(r), NEW q \in Requests, q # r
  PROVE  req'[q] = req[q] /\ req'[q].pc = "idle"
<1>1. calm /\ OneInFlight' /\ OneInFlight
  BY CalmMeansOne DEF CalmInv
<1>2. CASE Begin(r)
  <2>1. PICK k : Goto(r, k) /\ k.pc # "idle"
    <3>1. ASSUME NEW k, Goto(r, k), k.pc # "idle"
          PROVE  \E j : Goto(r, j) /\ j.pc # "idle"
      BY <3>1
    <3> QED BY <1>2, <3>1, Begins
  <2>2. req'[r].pc # "idle" /\ req'[q] = req[q]
    BY <2>1, GotoMovesOne
  <2> QED BY <1>1, <2>2 DEF OneInFlight, IsIdle
<1>3. CASE Proceed(r) \/ Fail(r)
  <2>1. req[r].pc # "idle" /\ \E k : Goto(r, k)
    BY <1>3 DEF Proceed, ValidateParent, CreateUpsert, UpdateWrite, DeleteCount,
         DeleteWrite, StartInsert, Fail, IsIdle
  <2>2. req'[q] = req[q]
    BY <2>1, GotoMovesOne
  <2> QED BY <1>1, <2>1, <2>2 DEF OneInFlight, IsIdle
<1> QED BY <1>2, <1>3

(* What the moving request reads is true. *)
LEMMA MoverHonest ==
  ASSUME TypeInv, CalmInv, calm, NEW r \in Requests,
         Begin(r) \/ Proceed(r) \/ Fail(r)
  PROVE  StillTrue(req[r])'
<1>0. StillTrue(req[r])
  BY DEF CalmInv
<1>1. ASSUME Goto(r, Idle)
      PROVE  StillTrue(req[r])'
  <2>1. req'[r].pc = "idle"
    BY <1>1, GotoMovesOne, Places
  <2> QED BY <2>1 DEF StillTrue
<1>2. CASE Begin(r)
  <2>1. profile' = profile /\ open' = open
    BY <1>2, Begins DEF Stay
  <2>2. ASSUME NEW d \in Creations, \A p \in Named(d.name) : ~Live(p), ~Given(d),
               Goto(r, [pc |-> "upsert", dto |-> d])
        PROVE  StillTrue(req[r])'
    <3>1. req'[r] = [pc |-> "upsert", dto |-> d]
      BY <2>2, GotoMovesOne
    <3> QED BY <2>1, <2>2, <3>1 DEF StillTrue, Named, Live, Exists, Given
  <2>3. ASSUME NEW d \in Creations, \A p \in Named(d.name) : ~Live(p), Given(d),
               Goto(r, [pc |-> "validate", self |-> None,
                        child2 |-> IsLevel2(d), dto |-> d])
        PROVE  StillTrue(req[r])'
    <3>1. PICK b : b = IsLevel2(d)
      OBVIOUS
    <3>2. req'[r] = [pc |-> "validate", self |-> None, child2 |-> b, dto |-> d]
      BY <2>3, <3>1, GotoMovesOne
    <3>3. req'[r].child2 <=> IsLevel2(req'[r].dto)
      BY <3>1, <3>2
    <3>4. \A p \in Named(d.name)' : ~Live(p)'
      BY <2>1, <2>3 DEF Named, Live, Exists
    <3> QED BY <3>2, <3>3, <3>4 DEF StillTrue, Named, IsLevel2, Exists
  <2>4. ASSUME NEW p \in Rows, NEW d \in Updates, ~Given(d),
               Goto(r, [pc |-> "write", self |-> p, dto |-> d])
        PROVE  StillTrue(req[r])'
    <3>1. req'[r] = [pc |-> "write", self |-> p, dto |-> d]
      BY <2>4, GotoMovesOne
    <3> QED BY <2>4, <3>1 DEF StillTrue, Given
  <2>5. ASSUME NEW p \in Rows, NEW d \in Updates, Live(p), Given(d),
               Goto(r, [pc |-> "validate", self |-> p, dto |-> d,
                        child2 |-> IsLevel2(Patched(profile[p], d))])
        PROVE  StillTrue(req[r])'
    <3>1. profile[p] \in Profile /\ p # None
      BY <2>5, NoneAssumption DEF Live, Exists, TypeInv, TypeOK
    <3>2. IsLevel2(Patched(profile[p], d)) = Level2After(profile[p], d)
      BY <3>1, PatchedLevel DEF IsLevel2, Level2After
    <3>3. req'[r] = [pc |-> "validate", self |-> p, dto |-> d,
                     child2 |-> Level2After(profile[p], d)]
      BY <2>5, <3>2, GotoMovesOne
    <3> QED BY <2>1, <3>1, <3>3 DEF StillTrue, Level2After
  <2>6. ASSUME NEW p \in Rows, Live(p),
               \/ Goto(r, [pc |-> "remove", self |-> p, confirm |-> TRUE])
               \/ Goto(r, [pc |-> "count", self |-> p])
               \/ Goto(r, [pc |-> "start", self |-> p])
        PROVE  StillTrue(req[r])'
    <3>1. \/ req'[r] = [pc |-> "remove", self |-> p, confirm |-> TRUE]
          \/ req'[r] = [pc |-> "count", self |-> p]
          \/ req'[r] = [pc |-> "start", self |-> p]
      BY <2>6, GotoMovesOne
    <3> QED BY <2>1, <2>6, <3>1 DEF StillTrue, Live, Exists
  <2>7. CASE \E d \in Creations :
               /\ \A p \in Named(d.name) : ~Live(p)
               /\ \/ /\ ~Given(d)
                     /\ Goto(r, [pc |-> "upsert", dto |-> d])
                  \/ /\ Given(d)
                     /\ Goto(r, [pc |-> "validate", self |-> None,
                                 child2 |-> IsLevel2(d), dto |-> d])
    BY <2>2, <2>3, <2>7
  <2>8. CASE \E p \in Rows, d \in Updates :
               /\ Live(p)
               /\ \/ /\ ~Given(d)
                     /\ Goto(r, [pc |-> "write", self |-> p, dto |-> d])
                  \/ /\ Given(d)
                     /\ Goto(r, [pc |-> "validate", self |-> p, dto |-> d,
                                 child2 |-> IsLevel2(Patched(profile[p], d))])
    BY <2>4, <2>5, <2>8
  <2> QED BY <1>2, <2>6, <2>7, <2>8, Begins
<1>3. CASE ValidateParent(r)
  <2>1. profile' = profile /\ open' = open /\ req[r].pc = "validate" /\ Given(req[r].dto)
    BY <1>3, Validated DEF Stay
  <2>2. CASE Goto(r, Idle)
    BY <1>1, <2>2
  <2>3. CASE /\ req[r].dto.parent \in Level2s /\ ~req[r].child2
             /\ req[r].self = None /\ req[r].dto \in Creations
             /\ Goto(r, [pc |-> "upsert", dto |-> req[r].dto])
    <3>1. PICK d : d = req[r].dto
      OBVIOUS
    <3>2. req'[r] = [pc |-> "upsert", dto |-> d]
      BY <2>3, <3>1, GotoMovesOne
    <3>3. ~IsLevel2(d) /\ \A p \in Named(d.name) : ~Live(p)
      BY <1>0, <2>1, <2>3, <3>1 DEF StillTrue
    <3>4. d.parent \in Rows /\ Live(d.parent) /\ IsLevel2(profile[d.parent])
      BY <2>3, <3>1 DEF Level2s
    <3> QED BY <2>1, <3>2, <3>3, <3>4 DEF StillTrue, Named, Live, Exists, IsLevel2
  <2>4. CASE /\ req[r].dto.parent \in Level2s /\ ~req[r].child2
             /\ req[r].dto.parent # req[r].self
             /\ req[r].self \in Rows /\ req[r].dto \in Updates
             /\ Goto(r, [pc |-> "write", self |-> req[r].self, dto |-> req[r].dto])
    <3>1. PICK d, o : d = req[r].dto /\ o = req[r].self
      OBVIOUS
    <3>2. req'[r] = [pc |-> "write", self |-> o, dto |-> d]
      BY <2>4, <3>1, GotoMovesOne
    <3>3. ~Level2After(profile[o], d) /\ d.parent # o
      BY <1>0, <2>1, <2>4, <3>1, NoneAssumption DEF StillTrue
    <3>4. d.parent \in Rows /\ Live(d.parent) /\ IsLevel2(profile[d.parent])
      BY <2>4, <3>1 DEF Level2s
    <3> QED BY <2>1, <3>2, <3>3, <3>4 DEF StillTrue, Live, Exists, IsLevel2, Level2After
  <2> QED BY <1>3, <2>2, <2>3, <2>4, Validated
<1>4. CASE DeleteCount(r)
  <2>1. profile' = profile /\ open' = open
    BY <1>4 DEF DeleteCount, Stay
  <2>2. CASE /\ req[r].self \notin open
             /\ Goto(r, [pc |-> "remove", self |-> req[r].self, confirm |-> FALSE])
    <3>1. PICK o : o = req[r].self
      OBVIOUS
    <3>2. req'[r] = [pc |-> "remove", self |-> o, confirm |-> FALSE]
      BY <2>2, <3>1, GotoMovesOne
    <3> QED BY <2>1, <2>2, <3>1, <3>2 DEF StillTrue
  <2>3. CASE Goto(r, Idle)
    BY <1>1, <2>3
  <2> QED BY <1>4, <2>2, <2>3 DEF DeleteCount
<1>5. CASE CreateUpsert(r) \/ UpdateWrite(r) \/ DeleteWrite(r) \/ StartInsert(r) \/ Fail(r)
  BY <1>1, <1>5 DEF CreateUpsert, UpdateWrite, DeleteWrite, StartInsert, Fail
<1> QED BY <1>2, <1>3, <1>4, <1>5 DEF Proceed

(* Calm requests stay honest. *)
LEMMA CalmStep == TypeInv /\ CalmInv /\ [Next]_vars => CalmInv'
<1> SUFFICES ASSUME TypeInv, CalmInv, [Next]_vars, calm'
             PROVE  OneInFlight' /\ \A q \in Requests : StillTrue(req[q])'
  BY DEF CalmInv
<1>1. CASE UNCHANGED vars
  <2>1. calm /\ OneInFlight /\ \A q \in Requests : StillTrue(req[q])
    BY <1>1 DEF vars, CalmInv
  <2> QED BY <1>1, <2>1 DEF vars, OneInFlight, IsIdle, StillTrue, Named, Live, Exists,
             IsLevel2, Level2After, Given
<1>2. CASE Next
  <2>1. Remember
    BY <1>2 DEF Next
  <2>2. calm /\ OneInFlight'
    BY <2>1, CalmMeansOne
  <2>3. ASSUME NEW r \in Requests, Begin(r) \/ Proceed(r) \/ Fail(r), NEW q \in Requests
        PROVE  StillTrue(req[q])'
    <3>1. CASE q = r
      BY <2>2, <2>3, <3>1, MoverHonest
    <3>2. CASE q # r
      <4>1. req'[q].pc = "idle"
        BY <2>1, <2>3, <3>2, MoverAlone
      <4> QED BY <4>1 DEF StillTrue
    <3> QED BY <3>1, <3>2
  <2>4. ASSUME NEW p \in Rows, Complete(p), NEW q \in Requests
        PROVE  StillTrue(req[q])'
    <3>1. StillTrue(req[q])
      BY <2>2 DEF CalmInv
    <3>2. req' = req /\ profile' = profile /\ open' = open \ {p}
      BY <2>4 DEF Complete
    <3> QED BY <3>1, <3>2 DEF StillTrue, Named, Live, Exists, IsLevel2, Level2After, Given
  <2> QED BY <1>2, <2>2, <2>3, <2>4 DEF Next
<1> QED BY <1>1, <1>2

-----------------------------------------------------------------------------
(* What changes a row: a creation with its name, or for an id without a row;  *)
(* an update of it; a deletion of it.                                        *)
LEMMA RowChanges ==
  ASSUME TypeInv, Next, NEW p \in Rows, profile'[p] # profile[p]
  PROVE  \/ \E r \in Requests :
              /\ req[r].pc = "upsert" /\ req[r].dto \in Creations
              /\ ~Exists(p) \/ p \in Named(req[r].dto.name)
              /\ profile'[p] = [name |-> req[r].dto.name, type |-> req[r].dto.type,
                                level |-> req[r].dto.level, parent |-> req[r].dto.parent,
                                live |-> TRUE]
         \/ \E r \in Requests :
              /\ req[r].pc = "write" /\ req[r].self = p /\ req[r].dto \in Updates
              /\ profile[p] \in Profile
              /\ profile'[p] = Patched(profile[p], req[r].dto)
         \/ \E r \in Requests :
              /\ req[r].pc = "remove" /\ req[r].self = p
              /\ profile[p] \in Profile /\ ~Live(p)'
              /\ profile'[p] = [profile[p] EXCEPT !.live = FALSE]
<1> DEFINE Created(r) == /\ req[r].pc = "upsert" /\ req[r].dto \in Creations
                         /\ ~Exists(p) \/ p \in Named(req[r].dto.name)
                         /\ profile'[p] = [name |-> req[r].dto.name,
                              type |-> req[r].dto.type, level |-> req[r].dto.level,
                              parent |-> req[r].dto.parent, live |-> TRUE]
           Updated(r) == /\ req[r].pc = "write" /\ req[r].self = p /\ req[r].dto \in Updates
                         /\ profile[p] \in Profile
                         /\ profile'[p] = Patched(profile[p], req[r].dto)
           Deleted(r) == /\ req[r].pc = "remove" /\ req[r].self = p
                         /\ profile[p] \in Profile /\ ~Live(p)'
                         /\ profile'[p] = [profile[p] EXCEPT !.live = FALSE]
<1>1. ASSUME NEW r \in Requests, CreateUpsert(r)
      PROVE  Created(r)
  <2>1. PICK o \in Rows, q \in Profile :
          /\ IF Named(req[r].dto.name) # {} THEN o \in Named(req[r].dto.name) ELSE ~Exists(o)
          /\ profile' = [profile EXCEPT ![o] = q]
          /\ q = [name |-> req[r].dto.name, type |-> req[r].dto.type,
                  level |-> req[r].dto.level, parent |-> req[r].dto.parent, live |-> TRUE]
    BY <1>1, UpsertWrites
  <2>2. o = p /\ profile'[p] = q
    BY <2>1 DEF TypeInv, TypeOK
  <2>3. req[r].pc = "upsert" /\ req[r].dto \in Creations
    BY <1>1, UpsertWrites
  <2> QED BY <2>1, <2>2, <2>3
<1>2. ASSUME NEW r \in Requests, UpdateWrite(r)
      PROVE  Updated(r)
  <2>1. /\ req[r].pc = "write" /\ req[r].dto \in Updates
        /\ req[r].self \in Rows /\ profile[req[r].self] \in Profile
        /\ profile' = [profile EXCEPT ![req[r].self] =
                         Patched(profile[req[r].self], req[r].dto)]
    BY <1>2, UpdateWrites
  <2>2. req[r].self = p
    BY <2>1 DEF TypeInv, TypeOK
  <2> QED BY <2>1, <2>2 DEF TypeInv, TypeOK
<1>3. ASSUME NEW r \in Requests, DeleteWrite(r)
      PROVE  Deleted(r)
  <2>1. /\ req[r].pc = "remove" /\ req[r].self \in Rows
        /\ profile[req[r].self] \in Profile
        /\ profile' = [profile EXCEPT ![req[r].self] =
                         [profile[req[r].self] EXCEPT !.live = FALSE]]
    BY <1>3, DeleteWrites
  <2>2. req[r].self = p
    BY <2>1 DEF TypeInv, TypeOK
  <2>3. profile'[p] = [profile[p] EXCEPT !.live = FALSE]
    BY <2>1, <2>2 DEF TypeInv, TypeOK
  <2>4. ~Live(p)'
    BY <2>1, <2>2, <2>3 DEF Live, Profile
  <2> QED BY <2>1, <2>2, <2>3, <2>4
<1>4. ASSUME UNCHANGED profile
      PROVE  FALSE
  BY <1>4
<1>5. \E r \in Requests : CreateUpsert(r) \/ UpdateWrite(r) \/ DeleteWrite(r)
  BY <1>4, Begins
     DEF Next, Proceed, ValidateParent, DeleteCount, StartInsert, Fail, Complete, Stay
<1>6. PICK r \in Requests : Created(r) \/ Updated(r) \/ Deleted(r)
  BY <1>1, <1>2, <1>3, <1>5
<1> QED BY <1>6

(* The name of a live profile is never found free while requests come one at  *)
(* a time, so a creation writes over none.                                   *)
LEMMA CreatedIsNew ==
  ASSUME CalmInv, calm, NEW r \in Requests, req[r].pc = "upsert",
         NEW p \in Rows, ~Exists(p) \/ p \in Named(req[r].dto.name)
  PROVE  ~Live(p)
<1>1. \A o \in Named(req[r].dto.name) : ~Live(o)
  BY DEF CalmInv, StillTrue
<1> QED BY <1>1 DEF Live

(* The invariant of calm requests holds of every behaviour. *)
LEMMA CalmInvariant == Spec => [](TypeInv /\ CalmInv)
<1>1. Init => CalmInv
  BY Places DEF Init, CalmInv, OneInFlight, IsIdle, StillTrue
<1> QED BY <1>1, TypeInit, TypeStep, CalmStep, PTL DEF Spec

(* While requests come one at a time, a live profile is changed by updates    *)
(* only: no creation with its name writes over it.                           *)
THEOREM CreationsNeverOverwriteWhileCalm == Spec => CreationsNeverOverwrite
<1>1. ASSUME TypeInv, CalmInv, Next, calm', NEW p \in Rows,
             Live(p), Live(p)', profile'[p] # profile[p]
      PROVE  \E r \in Requests : req[r].pc = "write" /\ req[r].self = p
  <2>1. calm
    BY <1>1, CalmMeansOne DEF Next
  <2>2. ASSUME NEW r \in Requests, req[r].pc = "upsert",
               ~Exists(p) \/ p \in Named(req[r].dto.name)
        PROVE  FALSE
    BY <1>1, <2>1, <2>2, CreatedIsNew
  <2> QED BY <1>1, <2>2, RowChanges
<1>2. TypeInv /\ CalmInv /\ [Next]_vars =>
        [calm' => \A p \in Rows :
           Live(p) /\ Live(p)' /\ profile'[p] # profile[p] =>
             \E r \in Requests : req[r].pc = "write" /\ req[r].self = p]_vars
  BY <1>1
<1> QED BY <1>2, CalmInvariant, PTL DEF Spec, CreationsNeverOverwrite

(* While requests come one at a time, a profile is only deleted under an open *)
(* evaluation by a confirmed deletion, and none is opened for a deleted one.  *)
THEOREM OpenLosesProfileOnlyConfirmedWhileCalm == Spec => OpenLosesProfileOnlyConfirmed
<1>1. ASSUME TypeInv, CalmInv, Next, calm', NEW p, p \in open', ~Live(p)',
             ~(p \in open /\ ~Live(p))
      PROVE  \E r \in Requests : /\ req[r].pc = "remove"
                                 /\ req[r].self = p /\ req[r].confirm
  <2>1. calm
    BY <1>1, CalmMeansOne DEF Next
  <2>2. TypeInv'
    BY <1>1, TypeStep
  <2>3. p \in Rows
    BY <1>1, <2>2 DEF TypeInv, TypeOK
  <2>4. p \in open
    <3>1. ASSUME NEW r \in Requests, StartInsert(r), req[r].self = p
          PROVE  FALSE
      <4>1. Live(p)
        BY <1>1, <2>1, <3>1 DEF CalmInv, StillTrue, StartInsert
      <4> QED BY <1>1, <3>1, <4>1 DEF StartInsert, Live, Exists
    <3>2. ASSUME NEW r \in Requests, StartInsert(r), req[r].self # p
          PROVE  p \in open
      BY <1>1, <3>2 DEF StartInsert
    <3>3. ASSUME open' \subseteq open
          PROVE  p \in open
      BY <1>1, <3>3
    <3> QED
      BY <1>1, <3>1, <3>2, <3>3, Begins
         DEF Next, Proceed, ValidateParent, CreateUpsert, UpdateWrite, DeleteCount,
             DeleteWrite, Fail, Complete, Stay
  <2>5. Live(p)
    BY <1>1, <2>4
  <2>6. profile'[p] # profile[p]
    BY <1>1, <2>5 DEF Live, Exists
  <2>7. ASSUME NEW r \in Requests, req[r].pc = "upsert",
               ~Exists(p) \/ p \in Named(req[r].dto.name)
        PROVE  FALSE
    BY <1>1, <2>1, <2>3, <2>5, <2>7, CreatedIsNew
  <2>8. ASSUME NEW r \in Requests, req[r].dto \in Updates, profile[p] \in Profile,
               profile'[p] = Patched(profile[p], req[r].dto)
        PROVE  FALSE
    <3>1. Patched(profile[p], req[r].dto) \in Profile
          /\ Patched(profile[p], req[r].dto).live = profile[p].live
      BY <2>8, PatchedRow
    <3> QED BY <1>1, <2>5, <2>8, <3>1, NoneAssumption DEF Live, Exists
  <2>9. PICK r \in Requests : req[r].pc = "remove" /\ req[r].self = p
    BY <1>1, <2>3, <2>6, <2>7, <2>8, RowChanges
  <2>10. req[r].confirm
    BY <1>1, <2>1, <2>4, <2>9 DEF CalmInv, StillTrue
  <2> QED BY <2>9, <2>10
<1>2. TypeInv /\ CalmInv /\ [Next]_vars =>
        [calm' => \A p \in open' : Live(p)' \/ (p \in open /\ ~Live(p))
           \/ \E r \in Requests : /\ req[r].pc = "remove"
                                 /\ req[r].self = p /\ req[r].confirm]_vars
  BY <1>1
<1> QED BY <1>2, CalmInvariant, PTL DEF Spec, OpenLosesProfileOnlyConfirmed

(* A live profile under another is not Level 2 and the other is: no chain of  *)
(* parents is longer than one while no level changes and no row is revived.   *)
Nested ==
  \A p \in Rows : Live(p) /\ profile[p].parent # None =>
    /\ Exists(profile[p].parent) /\ IsLevel2(profile[profile[p].parent])
    /\ ~IsLevel2(profile[p])

NestedInv == calm /\ ~reshaped => Nested

(* What a step leaves alone that leaves the levels alone. *)
LEMMA Unreshaped ==
  ASSUME Remember, calm', ~reshaped'
  PROVE  /\ ~reshaped
         /\ \A p \in Rows : Exists(p) =>
              /\ IsLevel2(profile'[p]) <=> IsLevel2(profile[p])
              /\ Live(p)' => Live(p)
<1>1. ~(reshaped \/ \E p \in Rows : Exists(p) /\
          (IsLevel2(profile'[p]) # IsLevel2(profile[p]) \/ (Live(p)' /\ ~Live(p))))
  BY DEF Remember
<1>2. ASSUME NEW p \in Rows, Exists(p)
      PROVE  IsLevel2(profile'[p]) = IsLevel2(profile[p]) /\ ~(Live(p)' /\ ~Live(p))
  BY <1>1, <1>2
<1>3. ASSUME NEW p \in Rows, Exists(p)
      PROVE  IsLevel2(profile'[p]) <=> IsLevel2(profile[p])
  BY <1>2, <1>3
<1> QED BY <1>1, <1>2, <1>3

(* Parents are validated, and what was validated stays. *)
LEMMA NestedStep == TypeInv /\ CalmInv /\ NestedInv /\ [Next]_vars => NestedInv'
<1>1. CASE UNCHANGED vars
  BY <1>1 DEF vars, NestedInv, Nested, Live, Exists, IsLevel2
<1>2. CASE Next
  <2> SUFFICES ASSUME TypeInv, CalmInv, NestedInv, calm', ~reshaped',
                      NEW p \in Rows, Live(p)', profile'[p].parent # None
               PROVE  /\ profile'[profile'[p].parent] # None
                      /\ IsLevel2(profile'[profile'[p].parent])
                      /\ ~IsLevel2(profile'[p])
    BY DEF NestedInv, Nested, IsLevel2, Exists
  <2>1. calm /\ Remember /\ TypeInv'
    BY <1>2, CalmMeansOne, TypeStep DEF Next
  <2>2. /\ ~reshaped
        /\ \A o \in Rows : Exists(o) => /\ IsLevel2(profile'[o]) <=> IsLevel2(profile[o])
                                        /\ Live(o)' => Live(o)
    BY <2>1, Unreshaped
  <2>3. \A o \in Rows : Exists(o) => profile'[o] # None
    <3>1. ASSUME NEW o \in Rows, Exists(o), profile'[o] # profile[o]
          PROVE  profile'[o] # None
      <4>1. ASSUME profile[o] \in Profile, profile'[o] = [profile[o] EXCEPT !.live = FALSE]
            PROVE  profile'[o] \in Profile
        BY <4>1 DEF Profile
      <4>2. ASSUME NEW r \in Requests, req[r].dto \in Creations,
                   profile'[o] = [name |-> req[r].dto.name, type |-> req[r].dto.type,
                                  level |-> req[r].dto.level,
                                  parent |-> req[r].dto.parent, live |-> TRUE]
            PROVE  profile'[o] \in Profile
        BY <4>2, CreatedRow
      <4>3. ASSUME NEW r \in Requests, req[r].dto \in Updates, profile[o] \in Profile,
                   profile'[o] = Patched(profile[o], req[r].dto)
            PROVE  profile'[o] \in Profile
        BY <4>3, PatchedRow
      <4>4. profile'[o] \in Profile
        BY <1>2, <3>1, <4>1, <4>2, <4>3, RowChanges
      <4> QED BY <4>4, NoneAssumption
    <3> QED BY <3>1 DEF Exists
  <2>4. ASSUME NEW q, q \in Rows, Exists(q), IsLevel2(profile[q]), profile'[p].parent = q,
               ~IsLevel2(profile'[p])
        PROVE  /\ profile'[profile'[p].parent] # None
               /\ IsLevel2(profile'[profile'[p].parent])
               /\ ~IsLevel2(profile'[p])
    BY <2>2, <2>3, <2>4 DEF Exists
  <2>5. CASE Exists(p) /\ profile'[p].parent = profile[p].parent
    <3>1. Live(p) /\ profile[p] \in Profile
      BY <2>2, <2>5 DEF TypeInv, TypeOK, Exists
    <3>2. profile[p].parent \in Rows
      BY <2>5, <3>1 DEF Profile
    <3>3. /\ Exists(profile[p].parent) /\ IsLevel2(profile[profile[p].parent])
          /\ ~IsLevel2(profile[p])
      BY <2>1, <2>2, <2>5, <3>1 DEF NestedInv, Nested
    <3> QED BY <2>2, <2>4, <2>5, <3>2, <3>3
  <2>6. CASE ~(Exists(p) /\ profile'[p].parent = profile[p].parent)
    <3>1. profile'[p] # profile[p]
      BY <2>6 DEF Live, Exists
    <3>2. ASSUME NEW r \in Requests, req[r].pc = "upsert", req[r].dto \in Creations,
                 profile'[p] = [name |-> req[r].dto.name, type |-> req[r].dto.type,
                                level |-> req[r].dto.level, parent |-> req[r].dto.parent,
                                live |-> TRUE]
          PROVE  /\ profile'[profile'[p].parent] # None
                 /\ IsLevel2(profile'[profile'[p].parent])
                 /\ ~IsLevel2(profile'[p])
      <4>1. profile'[p].parent = req[r].dto.parent /\ Given(req[r].dto)
        BY <3>2, Bodies DEF CreateDto, Given
      <4>2. /\ req[r].dto.parent \in Rows /\ Live(req[r].dto.parent)
            /\ IsLevel2(profile[req[r].dto.parent]) /\ ~IsLevel2(req[r].dto)
        BY <2>1, <3>2, <4>1 DEF CalmInv, StillTrue
      <4>3. ~IsLevel2(profile'[p])
        BY <3>2, <4>2 DEF IsLevel2
      <4> QED BY <2>4, <4>1, <4>2, <4>3 DEF Live
    <3>3. ASSUME NEW r \in Requests, req[r].pc = "write", req[r].self = p,
                 req[r].dto \in Updates, profile[p] \in Profile,
                 profile'[p] = Patched(profile[p], req[r].dto)
          PROVE  /\ profile'[profile'[p].parent] # None
                 /\ IsLevel2(profile'[profile'[p].parent])
                 /\ ~IsLevel2(profile'[p])
      <4>1. Exists(p)
        BY <3>3, NoneAssumption DEF Exists
      <4>2. Given(req[r].dto) /\ profile'[p].parent = req[r].dto.parent
        BY <2>6, <3>3, <4>1, PatchedRow DEF Given
      <4>3. /\ req[r].dto.parent \in Rows /\ Live(req[r].dto.parent)
            /\ IsLevel2(profile[req[r].dto.parent])
            /\ ~Level2After(profile[p], req[r].dto)
        BY <2>1, <3>3, <4>2 DEF CalmInv, StillTrue
      <4>4. ~IsLevel2(profile'[p])
        BY <3>3, <4>3, PatchedLevel
      <4> QED BY <2>4, <4>2, <4>3, <4>4 DEF Live
    <3> QED BY <1>2, <3>1, <3>2, <3>3, RowChanges
  <2> QED BY <2>5, <2>6
<1> QED BY <1>1, <1>2

(* "No se permite anidar una Nivel 2 dentro de otra": while requests come one *)
(* at a time, no level changes and no row is revived, every live profile is   *)
(* in the panel of its organisation, unless its association was deleted.      *)
THEOREM NobodyIsHidden == Spec => []NobodyHidden
<1>1. Init => NestedInv
  BY DEF Init, NestedInv, Nested, Live, Exists
<1>2. TypeInv /\ NestedInv => NobodyHidden
  <2> SUFFICES ASSUME TypeInv, Nested, NEW p \in Rows, Live(p), Live(profile[p].parent)
               PROVE  Shown(p)
    BY DEF NestedInv, NobodyHidden
  <2>1. CASE profile[p].parent = None
    BY <2>1 DEF Shown, TopLevel
  <2>2. CASE profile[p].parent # None
    <3>1. profile[p].parent \in Rows
      BY <2>2, NoneAssumption DEF TypeInv, TypeOK, Live, Exists, Profile
    <3>2. IsLevel2(profile[profile[p].parent])
      BY <2>2 DEF Nested
    <3>3. TopLevel(profile[p].parent)
      BY <3>1, <3>2 DEF Nested, TopLevel
    <3> QED BY <3>2, <3>3 DEF Shown
  <2> QED BY <2>1, <2>2
<1> QED BY <1>1, <1>2, CalmInvariant, NestedStep, PTL DEF Spec

=============================================================================
