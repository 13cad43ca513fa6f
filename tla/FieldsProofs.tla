---------------------------- MODULE FieldsProofs ----------------------------
(***************************************************************************)
(* The proofs about Fields, for texts of every length, every spelling and  *)
(* every body.                                                             *)
(***************************************************************************)
EXTENDS Fields, TLAPS

(* A word is decoded to a legal one, to "", or refused.                    *)
LEMMA Decoded ==
    ASSUME NEW allowed \in {Status, Priority}, NEW x \in Raw(Word)
    PROVE  Unmarshal(allowed, x) \in allowed \union {Blank, BadType}
BY FieldsAssumption DEF Unmarshal, Raw, Given

(* The three that are no value are told apart from every word in use.      *)
LEMMA NoWord == BadType \notin Status \union Priority \union {Blank}
                /\ Null \notin Status \union Priority \union {Blank}
                /\ Absent \notin Status \union Priority \union {Blank}
BY FieldsAssumption

(* Trimming does not lengthen a text.                                      *)
LEMMA Trimmed ==
    ASSUME NEW t \in TextType
    PROVE  /\ TrimSpace(t) \in TextType
           /\ TrimSpace(t).chars = t.chars
           /\ Length(TrimSpace(t)) <= Length(t)
BY DEF TextType, TrimSpace, Length

(* What the fields of a body may be.                                       *)
LEMMA BodyFields ==
    ASSUME NEW b \in Body
    PROVE  /\ b.title \in Raw(Text) /\ b.description \in Raw(Text) /\ b.due \in Raw(Due)
           /\ b.status \in Raw(Word) /\ b.priority \in Raw(Word)
BY FieldsAssumption DEF BodyType

LEMMA GivenText ==
    ASSUME NEW x \in Raw(Text), x # BadType, Given(x)
    PROVE  x \in Text /\ x \in TextType
BY FieldsAssumption DEF Raw, Given

(* A displacement is a number of hours, so it is far or it is not.         *)
LEMMA NearZone ==
    ASSUME NEW b \in Body, b.due # BadType, table = "tasks", Given(b.due), ~FarZone(b)
    PROVE  b.due.zone <= 15
<1>1. b.due \in Due
    BY BodyFields DEF Raw, Given
<1> QED BY <1>1 DEF Due, FarZone

(* Of a valid body for a new row, only U+0000 and a far zone are in the    *)
(* way.                                                                    *)
LEMMA CreateStorable ==
    ASSUME NEW b \in Body, CreateValid(b), ~FarZone(b),
           b.title.chars = "plain", Given(b.description) => b.description.chars = "plain"
    PROVE  Storable(NewRow(b))
<1> DEFINE new == NewRow(b)
<1>1. b.title \in TextType /\ Length(b.title) <= 255
    BY BodyFields, GivenText DEF CreateValid, Bind, TitleTag, TextType, Length
<1>2. new.title = TrimSpace(b.title)
    BY DEF NewRow
<1>3. new.title.chars = "plain" /\ Length(new.title) <= 255
    BY <1>1, <1>2, Trimmed DEF TextType, Length
<1>4. Given(new.description) => new.description.chars = "plain"
    BY DEF NewRow, Given
<1>5. ASSUME table = "tasks"
      PROVE  new.status \in Status /\ new.priority \in Priority
    <2>1. /\ Unmarshal(Status, b.status) \in Status \union {Blank}
          /\ Unmarshal(Priority, b.priority) \in Priority \union {Blank}
        BY <1>5, BodyFields, Decoded DEF CreateValid, Bind
    <2>2. /\ new.status = OrDefault(Unmarshal(Status, b.status), "todo")
          /\ new.priority = OrDefault(Unmarshal(Priority, b.priority), "medium")
        BY <1>5 DEF NewRow
    <2> QED BY <2>1, <2>2 DEF OrDefault, Status, Priority
<1>6. ASSUME Given(new.due)
      PROVE  new.due.zone <= 15
    <2>1. table = "tasks" /\ Given(b.due) /\ new.due = b.due
        BY <1>6 DEF NewRow, Given
    <2>2. b.due # BadType
        BY <2>1 DEF CreateValid, Bind
    <2> QED BY <2>1, <2>2, NearZone
<1> HIDE DEF new
<1>7. Storable(new)
    BY <1>3, <1>4, <1>5, <1>6 DEF Storable
<1> QED BY <1>7 DEF new

(* What a row keeps of one that is patched.                                *)
LEMMA PatchedColumns ==
    ASSUME NEW b
    PROVE  /\ UpdatedRow(b).title = Set(row.title, b.title)
           /\ UpdatedRow(b).description = Set(row.description, b.description)
           /\ UpdatedRow(b).status = IF table = "tasks" /\ Given(b.status)
                                     THEN Unmarshal(Status, b.status) ELSE row.status
           /\ UpdatedRow(b).priority = IF table = "tasks" /\ Given(b.priority)
                                       THEN Unmarshal(Priority, b.priority) ELSE row.priority
           /\ UpdatedRow(b).due = IF table = "tasks" THEN Set(row.due, b.due) ELSE row.due
BY DEF UpdatedRow, Patched

(* Of a row that is sent, the columns change the due date only.            *)
LEMMA StoredColumns ==
    ASSUME NEW b, NEW new \in {NewRow(b), UpdatedRow(b)}
    PROVE  /\ Stored(new).title = new.title
           /\ Stored(new).description = new.description
           /\ Stored(new).status = new.status
           /\ Stored(new).priority = new.priority
           /\ Stored(new).due = Date(new.due)
           /\ DOMAIN Stored(new) = DOMAIN new
           /\ \A f \in DOMAIN new \ {"due"} : Stored(new)[f] = new[f]
BY DEF Stored, NewRow, UpdatedRow, Patched

(* The same of a valid body for a row that is there.                       *)
LEMMA UpdateStorable ==
    ASSUME RowInv, row # NoRow, NEW b \in Body, UpdateValid(b), ~FarZone(b),
           Given(b.title) => b.title.chars = "plain",
           Given(b.description) => b.description.chars = "plain"
    PROVE  Storable(UpdatedRow(b))
<1> DEFINE new == UpdatedRow(b)
<1>1. Given(b.title) => Length(b.title) <= 255
    BY BodyFields, GivenText DEF UpdateValid, Bind, TitleTag, TextType, Length
<1>2. new.title.chars = "plain" /\ Length(new.title) <= 255
    BY <1>1, PatchedColumns DEF Set, RowInv, Storable
<1>3. Given(new.description) => new.description.chars = "plain"
    BY PatchedColumns DEF Set, RowInv, Storable
<1>4. ASSUME table = "tasks"
      PROVE  new.status \in Status /\ new.priority \in Priority
    <2>1. /\ Given(b.status) => Unmarshal(Status, b.status) \in Status
          /\ Given(b.priority) => Unmarshal(Priority, b.priority) \in Priority
        BY <1>4, BodyFields, Decoded DEF UpdateValid, Bind
    <2> QED BY <1>4, <2>1, PatchedColumns DEF RowInv, Storable
<1>5. ASSUME Given(new.due)
      PROVE  new.due.zone <= 15
    <2>1. CASE table = "tasks" /\ Given(b.due)
        <3>1. new.due = b.due /\ b.due # BadType
            BY <2>1, PatchedColumns DEF Set, UpdateValid, Bind
        <3> QED BY <2>1, <3>1, NearZone
    <2>2. CASE ~(table = "tasks" /\ Given(b.due))
        BY <1>5, <2>2, PatchedColumns DEF Set, RowInv, Storable
    <2> QED BY <2>1, <2>2
<1> HIDE DEF new
<1>6. Storable(new)
    BY <1>2, <1>3, <1>4, <1>5 DEF Storable
<1> QED BY <1>6 DEF new

-----------------------------------------------------------------------------
(* The invariant.                                                          *)

(* A DATE is at midnight, without a zone.                                  *)
LEMMA Dated ==
    ASSUME NEW x \in Raw(Due), x # BadType
    PROVE  /\ Date(x) \in Due \union {Null}
           /\ Date(x) # Null => Date(x).time = midnight /\ Date(x).zone = 0
           /\ Given(x) => Date(x) # Null
<1>1. CASE Given(x)
    <2>1. x \in Due
        BY <1>1 DEF Raw, Given
    <2>2. Date(x) = [x EXCEPT !.time = midnight, !.zone = 0]
        BY <1>1 DEF Date
    <2>3. Date(x) = [day |-> x.day, time |-> midnight, zone |-> 0]
        BY <2>1, <2>2 DEF Due
    <2>4. Date(x) \in Due /\ Date(x).time = midnight /\ Date(x).zone = 0
        BY <2>1, <2>3, FieldsAssumption DEF Due
    <2> QED BY <2>4, FieldsAssumption
<1>2. CASE ~Given(x)
    BY <1>2 DEF Date
<1> QED BY <1>1, <1>2

(* A spelling is only remembered with a status it set.                     *)
LEMMA SpokenWord ==
    ASSUME NEW b \in Body, Bind(b), NEW w \in Word \union {Absent}
    PROVE  Spoken(b, w) \in Word \union {Absent}
<1>1. CASE table = "tasks" /\ Given(b.status) /\ Unmarshal(Status, b.status) # Blank
    <2>1. b.status # BadType
        BY <1>1 DEF Bind, Unmarshal
    <2> QED BY <1>1, <2>1, BodyFields DEF Spoken, Raw, Given
<1>2. CASE ~(table = "tasks" /\ Given(b.status) /\ Unmarshal(Status, b.status) # Blank)
    BY <1>2 DEF Spoken
<1> QED BY <1>1, <1>2

(* What Create stores.                                                     *)
LEMMA CreatedRow ==
    ASSUME NEW b \in Body, CreateValid(b), Storable(NewRow(b)), table \in {"projects", "tasks"},
           row' = Stored(NewRow(b)), table' = table
    PROVE  RowInv' /\ (row' # NoRow =>
               /\ Length(row'.title) <= 255
               /\ table = "tasks" => row'.status \in Status /\ row'.priority \in Priority
               /\ table = "projects" => {row'.status, row'.priority, row'.due} = {Null}
               /\ row'.due # Null => row'.due.time = midnight /\ row'.due.zone = 0)
<1> DEFINE new == NewRow(b)
<1>1. /\ row'.title = new.title /\ row'.description = new.description
      /\ row'.status = new.status /\ row'.priority = new.priority
      /\ row'.due = Date(new.due)
    BY StoredColumns
<1>2. new.title \in TextType
    BY BodyFields, GivenText, Trimmed DEF CreateValid, Bind, NewRow
<1>3. new.description \in Text \union {Null}
    BY BodyFields, GivenText DEF CreateValid, Bind, NewRow
<1>4. /\ table = "tasks" => new.due = IF Given(b.due) THEN b.due ELSE Null
      /\ table = "projects" => new.status = Null /\ new.priority = Null /\ new.due = Null
    BY DEF NewRow
<1>5. new.due \in Raw(Due) /\ new.due # BadType
    <2>1. table = "tasks" => b.due # BadType
        BY DEF CreateValid, Bind
    <2>2. Null \in Raw(Due) /\ b.due \in Raw(Due)
        BY BodyFields DEF Raw
    <2> QED BY <1>4, <2>1, <2>2, FieldsAssumption
<1>6. /\ Date(new.due) \in Due \union {Null}
      /\ Date(new.due) # Null => Date(new.due).time = midnight /\ Date(new.due).zone = 0
    BY <1>5, Dated
<1>7. table = "projects" => Date(new.due) = Null
    BY <1>4 DEF Date, Given
<1>8. Storable(row')
    BY <1>1, <1>6, FieldsAssumption DEF Storable, Given
<1> HIDE DEF new
<1> QED BY <1>1, <1>2, <1>3, <1>4, <1>6, <1>7, <1>8 DEF RowInv, Storable

(* What Update stores.                                                     *)
LEMMA UpdatedKeeps ==
    ASSUME TypeOK, RowInv, row # NoRow, NEW b \in Body, UpdateValid(b), Storable(UpdatedRow(b)),
           row' = Stored(UpdatedRow(b)), table' = table
    PROVE  RowInv' /\ (row' # NoRow =>
               /\ Length(row'.title) <= 255
               /\ table = "tasks" => row'.status \in Status /\ row'.priority \in Priority
               /\ table = "projects" => {row'.status, row'.priority, row'.due} = {Null}
               /\ row'.due # Null => row'.due.time = midnight /\ row'.due.zone = 0)
<1>0. /\ row'.title = UpdatedRow(b).title /\ row'.description = UpdatedRow(b).description
      /\ row'.status = UpdatedRow(b).status /\ row'.priority = UpdatedRow(b).priority
      /\ row'.due = Date(UpdatedRow(b).due)
    BY StoredColumns
<1>1. row'.title \in TextType
    BY <1>0, BodyFields, GivenText, PatchedColumns DEF UpdateValid, Bind, Set, RowInv
<1>2. row'.description \in Text \union {Null}
    BY <1>0, BodyFields, GivenText, PatchedColumns DEF UpdateValid, Bind, Set, RowInv
<1>3. UpdatedRow(b).due \in Raw(Due) /\ UpdatedRow(b).due # BadType
    BY BodyFields, PatchedColumns, FieldsAssumption DEF UpdateValid, Bind, Set, RowInv, Raw
<1>4. /\ row'.due \in Due \union {Null}
      /\ row'.due # Null => row'.due.time = midnight /\ row'.due.zone = 0
    BY <1>0, <1>3, Dated
<1>5. table = "projects" => {row'.status, row'.priority, row'.due} = {Null}
    BY <1>0, PatchedColumns DEF TypeOK, Date, Given
<1>6. Storable(row')
    BY <1>0, <1>4, FieldsAssumption DEF Storable, Given
<1> QED BY <1>0, <1>1, <1>2, <1>4, <1>5, <1>6 DEF RowInv, Storable

(* A refusal changes nothing but the answer.                               *)
LEMMA Refused ==
    ASSUME IInv, NEW code \in {400, 500}, Refuse(code), UNCHANGED table
    PROVE  IInv' /\ reply'.code = code
BY DEF IInv, TypeOK, RowInv, Storable, Refuse, Answer, Length, Given

LEMMA InvStep == IInv /\ [Next]_vars => IInv'
<1> SUFFICES ASSUME IInv, [Next]_vars
             PROVE  IInv'
    OBVIOUS
<1> USE DEF IInv
<1>1. ASSUME NEW b \in Body, Create(b)
      PROVE  IInv'
    <2>1. CASE ~CreateValid(b) \/ ~Storable(NewRow(b))
        BY <1>1, <2>1, Refused DEF Create
    <2>2. CASE CreateValid(b) /\ Storable(NewRow(b))
        <3>1. /\ row' = Stored(NewRow(b))
              /\ spoken' = Spoken(b, Absent) /\ reply'.code = 201 /\ table' = table
            BY <1>1, <2>2 DEF Create, Answer
        <3>2. spoken' \in Word \union {Absent}
            BY <2>2, <3>1, SpokenWord DEF CreateValid
        <3> QED BY <2>2, <3>1, <3>2, CreatedRow DEF TypeOK
    <2> QED BY <2>1, <2>2
<1>2. ASSUME NEW b \in Body, Update(b)
      PROVE  IInv'
    <2>1. CASE ~UpdateValid(b) \/ ~UpdateHasField(b) \/ ~Storable(UpdatedRow(b))
        BY <1>2, <2>1, Refused DEF Update
    <2>2. CASE UpdateValid(b) /\ UpdateHasField(b) /\ Storable(UpdatedRow(b))
        <3>1. /\ row' = Stored(UpdatedRow(b)) /\ row # NoRow
              /\ spoken' = Spoken(b, spoken) /\ reply'.code = 200 /\ table' = table
            BY <1>2, <2>2 DEF Update, Answer
        <3>2. spoken' \in Word \union {Absent}
            BY <2>2, <3>1, SpokenWord DEF UpdateValid, TypeOK
        <3> QED BY <2>2, <3>1, <3>2, UpdatedKeeps DEF TypeOK
    <2> QED BY <2>1, <2>2
<1>3. ASSUME NEW w \in Word, ListByProject(w)
      PROVE  IInv'
    <2>1. reply'.code \in {200, 400} /\ UNCHANGED <<table, row, spoken>>
        BY <1>3 DEF ListByProject, Answer
    <2> QED BY <2>1 DEF TypeOK, RowInv, Storable, Length, Given
<1>4. CASE UNCHANGED vars
    BY <1>4 DEF vars, TypeOK, RowInv, Storable, Length, Given
<1> QED BY <1>1, <1>2, <1>3, <1>4 DEF Next

LEMMA Started == Init => IInv
BY DEF Init, IInv, TypeOK, RowInv

(* Whatever is sent, the table holds what its constraints allow.           *)
THEOREM TypeCorrect == Spec => []IInv
BY Started, InvStep, PTL DEF Spec

(* The validators and the schema agree on everything but U+0000 and far    *)
(* zones.                                                                  *)
THEOREM ValidIsStorable == Spec => []InternalErrorOnlyForNulOrZone
<1>1. Init => InternalErrorOnlyForNulOrZone
    BY DEF Init, InternalErrorOnlyForNulOrZone
<1>2. IInv /\ InternalErrorOnlyForNulOrZone /\ [Next]_vars => InternalErrorOnlyForNulOrZone'
    <2> SUFFICES ASSUME IInv, InternalErrorOnlyForNulOrZone, [Next]_vars, reply'.code = 500
                 PROVE  (Nul(asked.body) \/ FarZone(asked.body))'
        BY DEF InternalErrorOnlyForNulOrZone
    <2>1. ASSUME NEW b \in Body, Create(b)
          PROVE  Nul(b) \/ FarZone(b)
        <3>1. CreateValid(b) /\ ~Storable(NewRow(b))
            BY <2>1 DEF Create, Refuse, Answer
        <3>2. b.title \in TextType /\ Given(b.title)
            BY <3>1, BodyFields, GivenText DEF CreateValid, Bind
        <3>3. Given(b.description) => b.description \in TextType
            BY <3>1, BodyFields, GivenText DEF CreateValid, Bind
        <3> QED BY <3>1, <3>2, <3>3, CreateStorable DEF TextType, Nul
    <2>2. ASSUME NEW b \in Body, Update(b)
          PROVE  Nul(b) \/ FarZone(b)
        <3>1. UpdateValid(b) /\ ~Storable(UpdatedRow(b)) /\ row # NoRow
            BY <2>2 DEF Update, Refuse, Answer
        <3>2. /\ Given(b.title) => b.title \in TextType
              /\ Given(b.description) => b.description \in TextType
            BY <3>1, BodyFields, GivenText DEF UpdateValid, Bind
        <3> QED BY <3>1, <3>2, UpdateStorable DEF TextType, Nul, IInv
    <2>3. \A b : Create(b) \/ Update(b) => asked'.body = b /\ table' = table
        BY DEF Create, Update
    <2>4. \A w : ~ListByProject(w)
        BY DEF ListByProject, Answer
    <2>5. ~UNCHANGED vars \/ InternalErrorOnlyForNulOrZone'
        BY DEF vars, InternalErrorOnlyForNulOrZone, Nul, FarZone, Given
    <2> QED BY <2>1, <2>2, <2>3, <2>4, <2>5 DEF Next, InternalErrorOnlyForNulOrZone, Nul, FarZone
<1> QED BY <1>1, <1>2, TypeCorrect, PTL DEF Spec

(* No PATCH takes a description or a due date away.                        *)
THEOREM NeverCleared == Spec => NothingIsCleared
<1>1. IInv /\ [Next]_vars =>
        (row # NoRow => /\ row.description # Null => row'.description # Null
                        /\ row.due # Null => row'.due # Null)
    <2> SUFFICES ASSUME IInv, [Next]_vars, row # NoRow
                 PROVE  /\ row.description # Null => row'.description # Null
                        /\ row.due # Null => row'.due # Null
        OBVIOUS
    <2>1. ASSUME NEW b \in Body, Update(b), row' # row
          PROVE  /\ row.description # Null => row'.description # Null
                 /\ row.due # Null => row'.due # Null
        <3>1. /\ row'.description = UpdatedRow(b).description
              /\ row'.due = Date(UpdatedRow(b).due) /\ UpdateValid(b)
            BY <2>1, StoredColumns DEF Update, Refuse
        <3>2. row.description # Null => row'.description # Null
            BY <3>1, PatchedColumns DEF Set, Given
        <3>3. CASE table = "tasks"
            <4>1. Set(row.due, b.due) \in Raw(Due) /\ Set(row.due, b.due) # BadType
                BY <3>1, <3>3, BodyFields, FieldsAssumption
                   DEF UpdateValid, Bind, Set, IInv, RowInv, Raw
            <4>2. row.due # Null => Given(Set(row.due, b.due))
                BY FieldsAssumption DEF Set, Given, IInv, RowInv
            <4>3. row'.due = Date(Set(row.due, b.due))
                BY <3>1, <3>3, PatchedColumns
            <4> QED BY <3>2, <4>1, <4>2, <4>3, Dated
        <3>4. CASE table # "tasks"
            BY <2>1, <3>2, <3>4 DEF IInv, TypeOK
        <3> QED BY <3>3, <3>4
    <2>2. \A b : ~Create(b)
        BY DEF Create
    <2>3. ASSUME NEW w, ListByProject(w)
          PROVE  row' = row
        BY <2>3 DEF ListByProject
    <2> QED BY <2>1, <2>2, <2>3 DEF Next, vars
<1> QED BY <1>1, TypeCorrect, PTL DEF Spec, NothingIsCleared
-----------------------------------------------------------------------------
(* Writing a status and looking for it.                                    *)

(* The remembered spelling is one of the task's status.                    *)
SpokenInv ==
    spoken # Absent =>
        /\ spoken \in Word /\ Canon[spoken] \in Status
        /\ table = "tasks" /\ row.status = Canon[spoken]

(* A body that sets the status sets the one its spelling stands for.       *)
LEMMA SpokenStatus ==
    ASSUME NEW b \in Body, Bind(b), table = "tasks", Given(b.status),
           Unmarshal(Status, b.status) # Blank
    PROVE  /\ b.status \in Word /\ Canon[b.status] \in Status
           /\ Unmarshal(Status, b.status) = Canon[b.status]
<1>1. b.status # BadType /\ Unmarshal(Status, b.status) # BadType
    BY DEF Bind, Unmarshal
<1>2. b.status \in Word
    BY <1>1, BodyFields DEF Raw, Given
<1> QED BY <1>1, <1>2 DEF Unmarshal

LEMMA SpokenStep == IInv /\ SpokenInv /\ [Next]_vars => SpokenInv'
<1> SUFFICES ASSUME IInv, SpokenInv, [Next]_vars
             PROVE  SpokenInv'
    OBVIOUS
<1>1. ASSUME UNCHANGED <<table, row, spoken>>
      PROVE  SpokenInv'
    BY <1>1 DEF SpokenInv
<1>2. ASSUME NEW b \in Body, Create(b)
      PROVE  SpokenInv'
    <2>1. CASE ~CreateValid(b) \/ ~Storable(NewRow(b))
        BY <1>1, <1>2, <2>1 DEF Create, Refuse
    <2>2. CASE CreateValid(b) /\ Storable(NewRow(b))
        <3>1. /\ row' = Stored(NewRow(b))
              /\ spoken' = Spoken(b, Absent) /\ table' = table
            BY <1>2, <2>2 DEF Create
        <3>2. table = "tasks" => row'.status = OrDefault(Unmarshal(Status, b.status), "todo")
            BY <3>1, StoredColumns DEF NewRow
        <3>3. ASSUME spoken' # Absent
              PROVE  /\ table = "tasks" /\ Given(b.status) /\ spoken' = b.status
                     /\ Unmarshal(Status, b.status) # Blank
            BY <3>1, <3>3 DEF Spoken
        <3> QED BY <2>2, <3>1, <3>2, <3>3, SpokenStatus DEF SpokenInv, OrDefault, CreateValid
    <2> QED BY <2>1, <2>2
<1>3. ASSUME NEW b \in Body, Update(b)
      PROVE  SpokenInv'
    <2>1. CASE ~UpdateValid(b) \/ ~UpdateHasField(b) \/ ~Storable(UpdatedRow(b))
        BY <1>1, <1>3, <2>1 DEF Update, Refuse
    <2>2. CASE UpdateValid(b) /\ UpdateHasField(b) /\ Storable(UpdatedRow(b))
        <3>1. /\ row'.status = UpdatedRow(b).status
              /\ spoken' = Spoken(b, spoken) /\ table' = table
            BY <1>3, <2>2, StoredColumns DEF Update
        <3>2. CASE table = "tasks" /\ Given(b.status)
            <4>1. Unmarshal(Status, b.status) # Blank
                BY <2>2, <3>2 DEF UpdateValid
            <4>2. spoken' = b.status /\ row'.status = Unmarshal(Status, b.status)
                BY <3>1, <3>2, <4>1, PatchedColumns DEF Spoken
            <4> QED BY <2>2, <3>1, <3>2, <4>1, <4>2, SpokenStatus DEF SpokenInv, UpdateValid
        <3>3. CASE ~(table = "tasks" /\ Given(b.status))
            <4>1. spoken' = spoken /\ row'.status = row.status
                BY <3>1, <3>3, PatchedColumns DEF Spoken
            <4> QED BY <3>1, <4>1 DEF SpokenInv
        <3> QED BY <3>2, <3>3
    <2> QED BY <2>1, <2>2
<1>4. ASSUME NEW w \in Word, ListByProject(w)
      PROVE  SpokenInv'
    BY <1>1, <1>4 DEF ListByProject
<1>5. CASE UNCHANGED vars
    BY <1>1, <1>5 DEF vars
<1> QED BY <1>2, <1>3, <1>4, <1>5 DEF Next

(* What a status was written as finds it, and no other status's spelling   *)
(* does.                                                                   *)
THEOREM FilterFinds == Spec => []FilterFindsWhatWasSet
<1>1. Init => SpokenInv /\ FilterFindsWhatWasSet
    BY DEF Init, SpokenInv, FilterFindsWhatWasSet
<1>2. SpokenInv /\ FilterFindsWhatWasSet /\ [Next]_vars => FilterFindsWhatWasSet'
    <2> SUFFICES ASSUME SpokenInv, FilterFindsWhatWasSet, [Next]_vars
                 PROVE  FilterFindsWhatWasSet'
        OBVIOUS
    <2>1. ASSUME NEW b \in Body, Create(b) \/ Update(b)
          PROVE  FilterFindsWhatWasSet'
        <3>1. asked'.op # "list"
            BY <2>1 DEF Create, Update
        <3> QED BY <3>1 DEF FilterFindsWhatWasSet
    <2>2. ASSUME NEW w \in Word, ListByProject(w), spoken' # Absent
          PROVE  /\ w = spoken => reply' = [code |-> 200, shown |-> {row}]
                 /\ reply'.shown # {} => w = Blank \/ Canon[w] = Canon[spoken]
        <3>1. /\ spoken \in Word /\ Canon[spoken] \in Status
              /\ row.status = Canon[spoken]
            BY <2>2 DEF SpokenInv, ListByProject
        <3>2. CASE w = Blank
            BY <2>2, <3>2 DEF ListByProject, Answer
        <3>3. CASE w # Blank /\ ParseTaskStatus(w) = BadType
            <4>1. w # spoken
                BY <3>1, <3>3, NoWord DEF ParseTaskStatus
            <4> QED BY <2>2, <3>3, <4>1 DEF ListByProject, Answer
        <3>4. CASE w # Blank /\ ParseTaskStatus(w) # BadType
            <4>1. Canon[w] \in Status /\ ParseTaskStatus(w) = Canon[w]
                BY <3>4 DEF ParseTaskStatus
            <4>2. reply' = [code |-> 200, shown |-> {r \in {row} : r.status = Canon[w]}]
                BY <2>2, <3>4, <4>1 DEF ListByProject, Answer
            <4> QED BY <3>1, <4>2
        <3> QED BY <3>2, <3>3, <3>4
    <2>3. ASSUME NEW w \in Word, ListByProject(w)
          PROVE  FilterFindsWhatWasSet'
        <3>1. asked' = [op |-> "list", word |-> w] /\ row' = row /\ spoken' = spoken
            BY <2>3 DEF ListByProject
        <3> QED BY <2>2, <2>3, <3>1 DEF FilterFindsWhatWasSet
    <2>4. CASE UNCHANGED vars
        BY <2>4 DEF vars, FilterFindsWhatWasSet
    <2> QED BY <2>1, <2>3, <2>4 DEF Next
<1>3. Spec => []SpokenInv
    BY <1>1, SpokenStep, TypeCorrect, PTL DEF Spec
<1> QED BY <1>1, <1>2, <1>3, PTL DEF Spec

(* A success shows the row, but for the time of day and the zone of a      *)
(* creation's due date.                                                    *)
THEOREM AnswersShowTheRow == Spec => []AnswerIsTheRow
<1>1. Init => AnswerIsTheRow
    BY DEF Init, AnswerIsTheRow, NoRequest
<1>2. AnswerIsTheRow /\ [Next]_vars => AnswerIsTheRow'
    <2> SUFFICES ASSUME AnswerIsTheRow, [Next]_vars
                 PROVE  AnswerIsTheRow'
        OBVIOUS
    <2>1. ASSUME NEW b \in Body, Create(b)
          PROVE  AnswerIsTheRow'
        <3>1. CASE ~CreateValid(b) \/ ~Storable(NewRow(b))
            <4>1. reply'.code \in {400, 500}
                BY <2>1, <3>1 DEF Create, Refuse, Answer
            <4> QED BY <4>1 DEF AnswerIsTheRow
        <3>2. CASE CreateValid(b) /\ Storable(NewRow(b))
            <4> DEFINE new == NewRow(b)
            <4>1. /\ row' = Stored(new)
                  /\ reply' = [code |-> 201, shown |-> {new}]
                  /\ asked'.op = "create"
                BY <2>1, <3>2 DEF Create, Answer, Echo
            <4>2. \A f \in DOMAIN row' \ {"due"} : new[f] = row'[f]
                BY <4>1, StoredColumns
            <4>3. row'.due = Date(new.due)
                BY <4>1, StoredColumns
            <4>4. new.due = row'.due \/ new.due.day = row'.due.day
                <5>1. new.due \in {Null, b.due} /\ (new.due = Null \/ Given(b.due))
                    BY DEF NewRow
                <5>2. CASE new.due = Null
                    BY <4>3, <5>2 DEF Date, Given
                <5>3. CASE new.due = b.due /\ Given(b.due) /\ b.due # BadType
                    <6>1. b.due \in Due
                        BY <5>3, BodyFields DEF Raw, Given
                    <6> QED BY <4>3, <5>3, <6>1 DEF Date, Due
                <5>4. b.due # BadType \/ new.due = Null
                    BY <3>2 DEF CreateValid, Bind, NewRow
                <5> QED BY <5>1, <5>2, <5>3, <5>4
            <4> HIDE DEF new
            <4> QED BY <4>1, <4>2, <4>4 DEF AnswerIsTheRow
        <3> QED BY <3>1, <3>2
    <2>2. ASSUME NEW b \in Body, Update(b)
          PROVE  AnswerIsTheRow'
        <3>1. CASE ~UpdateValid(b) \/ ~UpdateHasField(b) \/ ~Storable(UpdatedRow(b))
            <4>1. reply'.code \in {400, 500}
                BY <2>2, <3>1 DEF Update, Refuse, Answer
            <4> QED BY <4>1 DEF AnswerIsTheRow
        <3>2. CASE UpdateValid(b) /\ UpdateHasField(b) /\ Storable(UpdatedRow(b))
            <4>1. reply'.shown = {row'}
                BY <2>2, <3>2 DEF Update, Answer
            <4> QED BY <4>1 DEF AnswerIsTheRow
        <3> QED BY <3>1, <3>2
    <2>3. ASSUME NEW w \in Word, ListByProject(w)
          PROVE  AnswerIsTheRow'
        <3>1. asked'.op = "list"
            BY <2>3 DEF ListByProject
        <3> QED BY <3>1 DEF AnswerIsTheRow
    <2>4. CASE UNCHANGED vars
        BY <2>4 DEF vars, AnswerIsTheRow
    <2> QED BY <2>1, <2>2, <2>3, <2>4 DEF Next
<1> QED BY <1>1, <1>2, PTL DEF Spec
=============================================================================
