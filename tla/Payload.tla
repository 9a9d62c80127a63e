------------------------------ MODULE Payload ------------------------------
(***************************************************************************)
(* The application payloads of crates/protocol-core: typed values,         *)
(* environments, predicates and their evaluation, and the codec of the     *)
(* operations that carry them.                                             *)
(*                                                                         *)
(* An encoding is a sequence of numbers, one per field: an integer of any  *)
(* width is one number, a byte string is its length and one number per     *)
(* byte.  Cutting an integer in two is then the same as cutting before it, *)
(* which the code cannot tell apart either.                                *)
(***************************************************************************)
EXTENDS Integers, Sequences

CONSTANTS
    MaxAttributes,      \* MAX_ATTRIBUTES
    MaxClauses,         \* MAX_CLAUSES
    MaxAttributeBytes,  \* MAX_ATTRIBUTE_BYTES
    MaxValueBytes       \* MAX_VALUE_BYTES

ASSUME PayloadLimitAssumption ==
    /\ MaxAttributes \in Nat /\ MaxClauses \in Nat
    /\ MaxAttributeBytes \in Nat /\ MaxValueBytes \in Nat

(***************************************************************************)
(* Values, environments and predicates.                                    *)
(***************************************************************************)
\* ValueRef: the data of a Bool (0 or 1) and of an I64 is one number.
Value(kind, data) == [kind |-> kind, data |-> data]
BoolValue(b)      == Value("Bool", <<IF b THEN 1 ELSE 0>>)
I64Value(n)       == Value("I64", <<n>>)
BytesValue(bytes) == Value("Bytes", bytes)
NoValue           == Value("None", <<>>)

\* What a ValueRef can be.
IsValue(v) ==
    /\ v = Value(v.kind, v.data) /\ v.kind \in {"Bool", "I64", "Bytes"} /\ v.data \in Seq(Int)
    /\ v.kind = "Bool" => v.data \in {<<0>>, <<1>>}
    /\ v.kind = "I64" => Len(v.data) = 1

Attribute(id, value) == [id |-> id, value |-> value]
Clause(attribute, operator, value) ==
    [attribute |-> attribute, operator |-> operator, value |-> value]
Operators == <<"Eq", "Ne", "Lt", "Le", "Gt", "Ge">>

IsSequence(s) == Len(s) \in Nat /\ DOMAIN s = 1..Len(s)

\* An environment is a sequence of attributes.  get returns the value of the first
\* one with this identifier, NoValue if there is none.
Get(environment, id) ==
    IF \E i \in DOMAIN environment : environment[i].id = id
    THEN environment[CHOOSE i \in DOMAIN environment :
                        /\ environment[i].id = id
                        /\ \A j \in 1..(i - 1) : environment[j].id # id].value
    ELSE NoValue

\* Byte strings are ordered as in a dictionary, numbers as numbers.
Less(a, b) ==
    \E i \in 1..Len(b) :
        /\ \A j \in 1..(i - 1) : j <= Len(a) /\ a[j] = b[j]
        /\ i > Len(a) \/ a[i] < b[i]

\* compare: operands of different types satisfy no operator, not even Ne.
Compare(lhs, operator, rhs) ==
    /\ lhs.kind = rhs.kind
    /\ CASE operator = "Eq" -> lhs.data = rhs.data
         [] operator = "Ne" -> lhs.data # rhs.data
         [] operator = "Lt" -> Less(lhs.data, rhs.data)
         [] operator = "Le" -> ~Less(rhs.data, lhs.data)
         [] operator = "Gt" -> Less(rhs.data, lhs.data)
         [] operator = "Ge" -> ~Less(lhs.data, rhs.data)

\* evaluate: a conjunction, false of an environment that lacks an attribute it names.
Evaluate(clauses, environment) ==
    \A i \in DOMAIN clauses :
        LET lhs == Get(environment, clauses[i].attribute)
        IN  lhs # NoValue /\ Compare(lhs, clauses[i].operator, clauses[i].value)

(***************************************************************************)
(* Encoding.                                                               *)
(***************************************************************************)
Failed(error) == [error |-> error]
Encoded(output) == [error |-> "None", output |-> output]

EncodeValue(value) ==
    CASE value.kind = "Bool"  -> <<1>> \o value.data
      [] value.kind = "I64"   -> <<2>> \o value.data
      [] value.kind = "Bytes" -> <<3, Len(value.data)>> \o value.data

TooLong(value) == value.kind = "Bytes" /\ Len(value.data) > MaxAttributeBytes

\* The encodings of the members of a list, one after another.
EncodeMembers(encodings) ==
    LET prefix[n \in 0..Len(encodings)] ==
            IF n = 0 THEN <<>> ELSE prefix[n - 1] \o encodings[n]
    IN  prefix[Len(encodings)]

EncodeAttribute(attribute) == <<attribute.id>> \o EncodeValue(attribute.value)

EncodeAttributes(attributes) ==
    <<Len(attributes)>> \o EncodeMembers([i \in DOMAIN attributes |-> EncodeAttribute(attributes[i])])

OperatorCode(operator) == CHOOSE code \in DOMAIN Operators : Operators[code] = operator

EncodeClause(clause) ==
    <<clause.attribute, OperatorCode(clause.operator)>> \o EncodeValue(clause.value)

UniqueAttributes(attributes) ==
    \A i, j \in DOMAIN attributes : attributes[i].id = attributes[j].id => i = j

EncodeEnvironment(attributes) ==
    IF Len(attributes) > MaxAttributes THEN Failed("Oversized")
    ELSE IF ~UniqueAttributes(attributes) THEN Failed("Malformed")
    ELSE IF \E i \in DOMAIN attributes : TooLong(attributes[i].value) THEN Failed("Oversized")
    ELSE Encoded(<<1>> \o EncodeAttributes(attributes))

EncodePredicate(clauses) ==
    <<Len(clauses)>> \o EncodeMembers([i \in DOMAIN clauses |-> EncodeClause(clauses[i])])

PredicateOversized(clauses) ==
    Len(clauses) > MaxClauses \/ \E i \in DOMAIN clauses : TooLong(clauses[i].value)

EncodeSubscribe(type, clauses) ==
    IF PredicateOversized(clauses) THEN Failed("Oversized")
    ELSE Encoded(<<5, type>> \o EncodePredicate(clauses))

EncodeSubscribePermanent(type, clauses) ==
    IF PredicateOversized(clauses) THEN Failed("Oversized")
    ELSE Encoded(<<2, type>> \o EncodePredicate(clauses))

EncodePublish(type, clauses, value) ==
    IF Len(value) > MaxValueBytes \/ PredicateOversized(clauses) THEN Failed("Oversized")
    ELSE Encoded(<<3, type>> \o EncodePredicate(clauses) \o <<Len(value)>> \o value)

EncodeResponse(type, publisher, value) ==
    IF Len(value) > MaxValueBytes THEN Failed("Oversized")
    ELSE Encoded(<<4, type, publisher, Len(value)>> \o value)

(***************************************************************************)
(* Parsing.  A cursor holds the position of the next number and what was   *)
(* read so far, or the error that ended the parse.                         *)
(***************************************************************************)
Cursor(at, read) == [error |-> "None", at |-> at, read |-> read]

\* bytes_u16: a length and that many bytes.
ReadBytes(input, at, maximum) ==
    IF at > Len(input) THEN Failed("Malformed")
    ELSE IF input[at] > maximum THEN Failed("Oversized")
    ELSE IF at + input[at] > Len(input) THEN Failed("Malformed")
    ELSE Cursor(at + input[at] + 1, SubSeq(input, at + 1, at + input[at]))

ReadValue(input, at) ==
    IF at + 1 > Len(input) THEN Failed("Malformed")
    ELSE CASE input[at] = 1 /\ input[at + 1] \in {0, 1} ->
                  Cursor(at + 2, Value("Bool", <<input[at + 1]>>))
           [] input[at] = 2 -> Cursor(at + 2, Value("I64", <<input[at + 1]>>))
           [] input[at] = 3 ->
                  LET bytes == ReadBytes(input, at + 1, MaxAttributeBytes)
                  IN  IF bytes.error # "None" THEN bytes
                      ELSE Cursor(bytes.at, BytesValue(bytes.read))
           [] OTHER -> Failed("Malformed")

\* Mutant: an identifier may come twice.
ReadAttribute_Repeated(input, cursor) ==
    IF cursor.at > Len(input) THEN Failed("Malformed")
    ELSE LET value == ReadValue(input, cursor.at + 1)
         IN  IF value.error # "None" THEN value
             ELSE Cursor(value.at, Append(cursor.read, Attribute(input[cursor.at], value.read)))

\* One turn of the loop over an environment; `read` holds the attributes before it.
ReadAttribute(input, cursor) ==
    IF cursor.at > Len(input) THEN Failed("Malformed")
    ELSE IF \E i \in DOMAIN cursor.read : cursor.read[i].id = input[cursor.at]
    THEN Failed("Malformed")
    ELSE LET value == ReadValue(input, cursor.at + 1)
         IN  IF value.error # "None" THEN value
             ELSE Cursor(value.at, Append(cursor.read, Attribute(input[cursor.at], value.read)))

\* One turn of the loop over a predicate.
ReadClause(input, cursor) ==
    IF cursor.at + 1 > Len(input) \/ input[cursor.at + 1] \notin DOMAIN Operators
    THEN Failed("Malformed")
    ELSE LET value == ReadValue(input, cursor.at + 2)
         IN  IF value.error # "None" THEN value
             ELSE Cursor(value.at, Append(cursor.read,
                         Clause(input[cursor.at], Operators[input[cursor.at + 1]], value.read)))

\* A count and that many attributes or clauses, read one after another.
ReadMembers(input, at, list) ==
    LET maximum == IF list = "environment" THEN MaxAttributes ELSE MaxClauses
        Read(cursor) == IF list = "environment" THEN ReadAttribute(input, cursor)
                        ELSE ReadClause(input, cursor)
    IN
    IF at > Len(input) THEN Failed("Malformed")
    ELSE IF input[at] > maximum THEN Failed("Oversized")
    ELSE LET turn[n \in 0..input[at]] ==
                 IF n = 0 THEN Cursor(at + 1, <<>>)
                 ELSE IF turn[n - 1].error # "None" THEN turn[n - 1]
                 ELSE Read(turn[n - 1])
         IN  turn[input[at]]

\* The end of parse_operation: nothing may follow the operation.
Parsed(input, cursor, operation) ==
    IF cursor.at # Len(input) + 1 THEN Failed("Malformed")
    ELSE [error |-> "None", operation |-> operation]

ParseEnvironment(input) ==
    LET attributes == ReadMembers(input, 2, "environment")
    IN  IF attributes.error # "None" THEN attributes
        ELSE Parsed(input, attributes, [kind |-> "SetEnvironment", attributes |-> attributes.read])

ParseSubscription(input, kind) ==
    LET clauses == ReadMembers(input, 3, "predicate")
    IN  IF clauses.error # "None" THEN clauses
        ELSE Parsed(input, clauses, [kind |-> kind, type |-> input[2], clauses |-> clauses.read])

ParsePublication(input) ==
    LET clauses == ReadMembers(input, 3, "predicate")
        value   == ReadBytes(input, clauses.at, MaxValueBytes)
    IN  IF clauses.error # "None" THEN clauses
        ELSE IF value.error # "None" THEN value
        ELSE Parsed(input, value, [kind |-> "Publish", type |-> input[2],
                                   clauses |-> clauses.read, value |-> value.read])

ParseResponse(input) ==
    LET value == ReadBytes(input, 4, MaxValueBytes)
    IN  IF value.error # "None" THEN value
        ELSE Parsed(input, value, [kind |-> "PublicationResponse", type |-> input[2],
                                   publisher |-> input[3], value |-> value.read])

ParseOperation(input) ==
    IF input = <<>> THEN Failed("Malformed")
    ELSE CASE input[1] = 1 -> ParseEnvironment(input)
           [] input[1] = 2 -> ParseSubscription(input, "SubscribePermanent")
           [] input[1] = 3 -> ParsePublication(input)
           [] input[1] = 4 -> ParseResponse(input)
           [] input[1] = 5 -> ParseSubscription(input, "Subscribe")
           [] OTHER -> Failed("Malformed")

\* The encoding of a parsed operation.
EncodeOperation(operation) ==
    CASE operation.kind = "SetEnvironment" -> EncodeEnvironment(operation.attributes)
      [] operation.kind = "Subscribe" -> EncodeSubscribe(operation.type, operation.clauses)
      [] operation.kind = "SubscribePermanent" ->
             EncodeSubscribePermanent(operation.type, operation.clauses)
      [] operation.kind = "Publish" ->
             EncodePublish(operation.type, operation.clauses, operation.value)
      [] operation.kind = "PublicationResponse" ->
             EncodeResponse(operation.type, operation.publisher, operation.value)
=============================================================================
