------------------------------- MODULE Fields -------------------------------
(***************************************************************************)
(* What becomes of the fields of a request body between the JSON and the   *)
(* row: decoding (domain/task.go), the validator's tags (handlers and      *)
(* services check the same ones twice), the services' trims and defaults,  *)
(* and the columns of migrations/000001; and back, through ?status= and    *)
(* the answers.  One row of one table is created, patched and looked for.  *)
(* Who may do so, and the ids in a body, are TaskFlow's matter.            *)
(*                                                                         *)
(* A text is [pad, core, chars]: the length of the white space around it,  *)
(* that of the rest, and whether U+0000 is among its characters, which     *)
(* JSON can carry and PostgreSQL cannot.  A due date is a day, a time of   *)
(* the day, and the whole hours by which its zone differs from UTC, east   *)
(* or west.  Days are those of the years from 1 on.                        *)
(***************************************************************************)
EXTENDS Naturals

CONSTANTS Text,
          Word,    \* spellings of statuses and priorities
          Canon,   \* strings.TrimSpace(strings.ToLower(_)) of a spelling
          Day, Time, midnight,
          Body,    \* the bodies clients send
          Absent,  \* the body has no such field
          Null,    \* JSON null, Go's nil and SQL's NULL
          BadType  \* a JSON value the field's Go type does not take

Status   == {"todo", "in_progress", "done"}
Priority == {"low", "medium", "high"}
Blank    == ""
NoRow    == Absent

Due == [day : Day, time : Time, zone : Nat]

TextType == [pad : Nat, core : Nat, chars : {"plain", "nul"}]

Raw(S) == S \union {Absent, Null, BadType}

BodyType == [title : Raw(Text), description : Raw(Text), due : Raw(Due),
             status : Raw(Word), priority : Raw(Word)]

ASSUME FieldsAssumption ==
    /\ Text \subseteq TextType
    /\ Canon \in [Word -> Word] /\ Status \union Priority \union {Blank} \subseteq Word
    /\ midnight \in Time
    /\ Body \subseteq BodyType
    /\ Absent # Null /\ BadType \notin {Absent, Null}
    /\ \A x \in {Absent, Null, BadType} : x \notin Text /\ x \notin Word /\ x \notin Due

VARIABLES
    table,   \* which table the row is of
    row,     \* the row, or NoRow
    spoken,  \* the spelling that last set its status; Absent for the default
    asked,   \* the last request
    reply    \* its status code and the rows of its body

vars == <<table, row, spoken, asked, reply>>

-----------------------------------------------------------------------------
(* Decoding.                                                               *)

Given(x) == x \notin {Absent, Null}

Length(t) == t.pad + t.core

TrimSpace(t) == [t EXCEPT !.pad = 0]

(* UnmarshalJSON of TaskStatus and TaskPriority; json calls it for null    *)
(* too, which it leaves as the empty string.                               *)
Unmarshal(allowed, x) ==
    CASE x = BadType -> BadType
      [] ~Given(x) \/ (x \in Word /\ Canon[x] = Blank) -> Blank
      [] OTHER -> IF Canon[x] \in allowed THEN Canon[x] ELSE BadType

(* ParseTaskStatus on the value of ?status=, except that an empty value is *)
(* no filter.  Variant: the value is compared as it was typed.             *)
FilterVerbatim(w) == IF w \in Status THEN w ELSE BadType

ParseTaskStatus(w) == IF Canon[w] \in Status THEN Canon[w] ELSE BadType

(* ShouldBindJSON.  A project has no status, priority or due date: fields  *)
(* of these names are ignored.                                             *)
Bind(b) ==
    /\ BadType \notin {b.title, b.description}
    /\ table = "tasks" =>
           /\ b.due # BadType
           /\ Unmarshal(Status, b.status) # BadType
           /\ Unmarshal(Priority, b.priority) # BadType

-----------------------------------------------------------------------------
(* The tags.  Variant: the length of what is left after trimming.          *)

TitleTagTrimmed(t) == Length(t) >= 1 /\ Length(TrimSpace(t)) <= 255

TitleTag(t) == Length(t) \in 1..255

DescriptionTag(x) == Given(x) => Length(x) <= 10000

CreateValid(b) ==
    /\ Bind(b)
    /\ Given(b.title) /\ TitleTag(b.title)
    /\ DescriptionTag(b.description)

(* A pointer to "" is a value: omitempty does not excuse it from oneof.    *)
UpdateValid(b) ==
    /\ Bind(b)
    /\ Given(b.title) => TitleTag(b.title)
    /\ DescriptionTag(b.description)
    /\ table = "tasks" =>
           /\ Given(b.status) => Unmarshal(Status, b.status) # Blank
           /\ Given(b.priority) => Unmarshal(Priority, b.priority) # Blank

UpdateHasField(b) ==
    \/ Given(b.title) \/ Given(b.description)
    \/ table = "tasks" /\ (Given(b.status) \/ Given(b.priority) \/ Given(b.due))

-----------------------------------------------------------------------------
(* The columns: VARCHAR(255) and TEXT, which take no U+0000, the CHECKs,   *)
(* NOT NULL, and DATE: of a timestamp with its zone it keeps the day that  *)
(* is written, and takes no zone beyond 15:59.                             *)

Date(x) == IF Given(x) THEN [x EXCEPT !.time = midnight, !.zone = 0] ELSE Null

(* A row as a statement sends it, and as the columns keep it.              *)
Storable(new) ==
    /\ new.title.chars = "plain" /\ Length(new.title) <= 255
    /\ Given(new.description) => new.description.chars = "plain"
    /\ table = "tasks" => new.status \in Status /\ new.priority \in Priority
    /\ Given(new.due) => new.due.zone <= 15

Stored(new) == [new EXCEPT !.due = Date(@)]

OrDefault(v, default) == IF v = Blank THEN default ELSE v

(* The row as the service fills it in; what a project lacks is Null.       *)
NewRow(b) ==
    LET Column(v) == IF table = "tasks" THEN v ELSE Null
    IN  [title       |-> TrimSpace(b.title),
         description |-> IF Given(b.description) THEN b.description ELSE Null,
         status      |-> Column(OrDefault(Unmarshal(Status, b.status), "todo")),
         priority    |-> Column(OrDefault(Unmarshal(Priority, b.priority), "medium")),
         due         |-> Column(IF Given(b.due) THEN b.due ELSE Null)]

(* The struct that was inserted, the due date as it was sent; only the     *)
(* timestamps are read back.  Variant: the title as it was sent, too.      *)
EchoAsTyped(b) == [NewRow(b) EXCEPT !.title = b.title]

Echo(b) == NewRow(b)

(* SET lists the fields the pointers of which are not nil.                 *)
Set(old, x) == IF Given(x) THEN x ELSE old

Patched(b) ==
    LET Column(old, new) == IF table = "tasks" THEN new ELSE old
        Enum(allowed, old, x) == IF Given(x) THEN Unmarshal(allowed, x) ELSE old
    IN  [title       |-> Set(row.title, b.title),
         description |-> Set(row.description, b.description),
         status      |-> Column(row.status, Enum(Status, row.status, b.status)),
         priority    |-> Column(row.priority, Enum(Priority, row.priority, b.priority)),
         due         |-> Column(row.due, Set(row.due, b.due))]

(* Variant: a null in the body is written to the description.              *)
UpdatedRowNulls(b) ==
    [Patched(b) EXCEPT !.description = IF b.description = Null THEN Null ELSE @]

UpdatedRow(b) == Patched(b)

-----------------------------------------------------------------------------
(* The handlers.                                                           *)

NoRequest == [op |-> "none"]

Init ==
    /\ table \in {"projects", "tasks"}
    /\ row = NoRow
    /\ spoken = Absent
    /\ asked = NoRequest
    /\ reply = [code |-> 200, shown |-> {}]

Answer(code, shown) == reply' = [code |-> code, shown |-> shown]

Refuse(code) == Answer(code, {}) /\ UNCHANGED <<row, spoken>>

(* The spelling to remember with a row, if the body set its status.        *)
Spoken(b, otherwise) ==
    IF table = "tasks" /\ Given(b.status) /\ Unmarshal(Status, b.status) # Blank
    THEN b.status ELSE otherwise

(* POST.                                                                   *)
Create(b) ==
    /\ row = NoRow
    /\ asked' = [op |-> "create", body |-> b]
    /\ IF ~CreateValid(b) THEN Refuse(400)
       ELSE IF ~Storable(NewRow(b)) THEN Refuse(500)
       ELSE /\ row' = Stored(NewRow(b))
            /\ spoken' = Spoken(b, Absent)
            /\ Answer(201, {Echo(b)})
    /\ UNCHANGED table

(* PATCH.  The answer is the row read back in the same transaction.        *)
Update(b) ==
    /\ row # NoRow
    /\ asked' = [op |-> "update", body |-> b]
    /\ IF ~UpdateValid(b) \/ ~UpdateHasField(b) THEN Refuse(400)
       ELSE IF ~Storable(UpdatedRow(b)) THEN Refuse(500)
       ELSE /\ row' = Stored(UpdatedRow(b))
            /\ spoken' = Spoken(b, spoken)
            /\ Answer(200, {Stored(UpdatedRow(b))})
    /\ UNCHANGED table

(* GET /projects/:id/tasks?status=w.                                       *)
ListByProject(w) ==
    /\ table = "tasks" /\ row # NoRow
    /\ asked' = [op |-> "list", word |-> w]
    /\ CASE w = Blank -> Answer(200, {row})
         [] w # Blank /\ ParseTaskStatus(w) = BadType -> Answer(400, {})
         [] OTHER -> Answer(200, {r \in {row} : r.status = ParseTaskStatus(w)})
    /\ UNCHANGED <<table, row, spoken>>

Next ==
    \/ \E b \in Body : Create(b) \/ Update(b)
    \/ \E w \in Word : ListByProject(w)

Spec == Init /\ [][Next]_vars

-----------------------------------------------------------------------------
(* Properties.                                                             *)

(* What the table holds is what its constraints allow, whatever was sent.  *)
TypeOK ==
    /\ table \in {"projects", "tasks"}
    /\ row # NoRow =>
           /\ Length(row.title) <= 255
           /\ table = "tasks" => row.status \in Status /\ row.priority \in Priority
           /\ table = "projects" => {row.status, row.priority, row.due} = {Null}
           /\ row.due # Null => row.due.time = midnight /\ row.due.zone = 0
    /\ spoken \in Word \union {Absent}
    /\ reply.code \in {200, 201, 400, 500}

Nul(b) == \E x \in {b.title, b.description} : Given(x) /\ x.chars = "nul"

FarZone(b) == table = "tasks" /\ Given(b.due) /\ b.due.zone > 15

(* The validation of the services and the constraints of the schema agree: *)
(* of what passes the one, nothing fails the other with an internal error, *)
(* but for the two things that no validator looks for, U+0000 in a text    *)
(* and a zone that PostgreSQL does not know.                               *)
InternalErrorOnlyForNulOrZone ==
    reply.code = 500 => Nul(asked.body) \/ FarZone(asked.body)

(* The spelling that set a task's status finds the task, however it is     *)
(* capitalised or padded, and no spelling of another status does.          *)
FilterFindsWhatWasSet ==
    asked.op = "list" /\ spoken # Absent =>
        /\ asked.word = spoken => reply = [code |-> 200, shown |-> {row}]
        /\ reply.shown # {} => asked.word = Blank \/ Canon[asked.word] = Canon[spoken]

(* domain/task.go:228: "only non-nil fields apply".  A null in a PATCH is  *)
(* a field not given, so a description or due date, once there, is changed *)
(* but never taken away.                                                   *)
NothingIsCleared ==
    [][row # NoRow =>
          /\ row.description # Null => row'.description # Null
          /\ row.due # Null => row'.due # Null]_vars

(* The body of a success is the row as later reads show it, except that    *)
(* the one of a creation shows the due date with the time of day and the   *)
(* zone that were sent and that the DATE column drops.                     *)
AnswerIsTheRow ==
    asked.op \in {"create", "update"} /\ reply.code \in {200, 201} =>
        /\ \A r \in reply.shown :
               /\ \A f \in DOMAIN row \ {"due"} : r[f] = row[f]
               /\ r.due = row.due \/ r.due.day = row.due.day
        /\ asked.op = "update" => reply.shown = {row}

(* What every row keeps, and what the properties above rest on.            *)
RowInv ==
    row # NoRow =>
        /\ row.title \in TextType
        /\ row.description \in Text \union {Null}
        /\ Storable(row)
        /\ row.due \in Due \union {Null}

IInv == TypeOK /\ RowInv

(* docs/API.md:397 and :677: a name or title has 1-255 characters.  Not    *)
(* so: blanks pass and are trimmed to nothing (README, section 4).         *)
TitleInDocumentedRange == row # NoRow => Length(row.title) \in 1..255

(* docs/API.md:682: the due date of a task is an RFC 3339 string.  Not     *)
(* every one: those of a far zone end in a 500 (README, section 4).        *)
DueDateIsAnyTimestamp == reply.code = 500 => Nul(asked.body)
=============================================================================
