------------------------------- MODULE Bodies -------------------------------
(***************************************************************************)
(* The classes request bodies and query strings are validated as, and the  *)
(* global ValidationPipe (src/main.ts) that converts and validates them:   *)
(* transform, whitelist and forbidNonWhitelisted.                          *)
(***************************************************************************)
EXTENDS Fields

\* A class: its fields by name, whether it is marked @Exclude() (only exposed
\* properties are read from the body), and the defaults of its properties.
Class(fields, excludes, defaults) ==
    [fields |-> fields, excludes |-> excludes, defaults |-> defaults]

\* Properties decorated with class-validator's own decorators.
Plain(tests) == Field("none", "none", {Check(t, 0, FALSE) : t \in tests})
OptionalPlain(tests) == Optional(Plain(tests))
Nested(field, class) == [field EXCEPT !.nested = class]
All(names, field) == [n \in names |-> field]

Orders == {"asc", "desc"}
ChatRoles == {"user", "assistant", "system"}

OffsetPageOptions == Class(
    [limit |-> NumberFieldOptional([minimum |-> 1, default |-> 10, int |-> TRUE]),
     page  |-> NumberFieldOptional([minimum |-> 1, default |-> 1, int |-> TRUE]),
     q     |-> StringFieldOptional(NoOptions),
     order |-> EnumFieldOptional(Orders, NoOptions)],
    FALSE,
    [limit |-> Number(10), page |-> Number(1), order |-> Text("asc", 3)])

CursorPageOptions == Class(
    [afterCursor  |-> StringFieldOptional(NoOptions),
     beforeCursor |-> StringFieldOptional(NoOptions),
     limit        |-> NumberFieldOptional([minimum |-> 1, default |-> 10, int |-> TRUE]),
     q            |-> StringFieldOptional(NoOptions)],
    FALSE, [limit |-> Number(10)])

UpdateUserProfile == Class(
    [username  |-> StringFieldOptional(NoOptions),
     firstName |-> StringFieldOptional([nullable |-> TRUE]),
     lastName  |-> StringFieldOptional([nullable |-> TRUE]),
     image     |-> StringFieldOptional([nullable |-> TRUE]),
     email     |-> Optional(And(StringFieldOptional(NoOptions), {Check("isEmail", 0, FALSE)}))],
    TRUE, NoProps)

UpdateUserInput == Class(
    All({"firstName", "lastName"},
        Optional(And(Plain({"isString"}), {Check("maxLength", 50, FALSE)})))
    ++ [email |-> OptionalPlain({"isEmail"}),
        image |-> OptionalPlain({"isString"}),
        bio   |-> Optional(And(Plain({"isString"}), {Check("maxLength", 500, FALSE)})),
        role  |-> OptionalPlain({})],
    FALSE, NoProps)

UserId == Class([id |-> UUIDField(NoOptions)], FALSE, NoProps)

TikTokAuthCallback == Class(
    [code |-> Plain({"isString"})]
    ++ All({"state", "shop_id", "shop_region"}, OptionalPlain({"isString"})),
    FALSE, NoProps)

ToolCall == Class(
    All({"id", "type"}, Plain({"isString"})) ++ [function |-> Plain({"isObject"})],
    FALSE, NoProps)

MessagePart == Class(
    [type |-> Plain({"isString"})]
    ++ All({"text", "state", "toolName", "toolCallId", "errorText", "sourceId", "url",
            "title", "mediaType", "filename"}, OptionalPlain({"isString"}))
    ++ All({"input", "output", "preliminary", "providerExecuted"}, OptionalPlain({}))
    ++ All({"providerMetadata", "callProviderMetadata"}, OptionalPlain({"isObject"})),
    FALSE, NoProps)

ChatMessage == Class(
    [id         |-> Plain({"isString"}),
     role       |-> Field("none", "none", {Check("isEnum", ChatRoles, FALSE)}),
     parts      |-> Nested(Plain({"isArray"}), "MessagePart"),
     metadata   |-> OptionalPlain({"isObject"}),
     toolCalls  |-> Nested(OptionalPlain({"isArray"}), "ToolCall"),
     timestamp  |-> Optional(Field("Date", "none", {Check("isDate", 0, FALSE)}))]
    ++ All({"content", "toolCallId"}, OptionalPlain({"isString"})),
    TRUE, NoProps)

StreamChatRequest == Class(
    [messages    |-> Nested(Plain({"isArray"}), "ChatMessage"),
     model       |-> StringFieldOptional(NoOptions),
     temperature |-> NumberFieldOptional([minimum |-> 0, maximum |-> 2]),
     maxTokens   |-> NumberFieldOptional([minimum |-> 1, maximum |-> 4096]),
     stream      |-> BooleanFieldOptional(NoOptions),
     webSearch   |-> OptionalPlain({})]
    ++ All({"id", "trigger"}, OptionalPlain({"isString"})),
    FALSE, [stream |-> Bool(TRUE)])

ClassNamed(name) ==
    CASE name = "MessagePart" -> MessagePart
      [] name = "ToolCall" -> ToolCall
      [] name = "ChatMessage" -> ChatMessage

-----------------------------------------------------------------------------
\* The object handed to the handler: the fields converted, the defaults of the
\* properties the body does not have.
Instance(class, body) ==
    [p \in DOMAIN class.fields |->
        IF p \in DOMAIN body THEN Value(class.fields[p], body[p])
        ELSE Prop(class.defaults, p)]

\* Nested validation takes a list item by item, and a list among the items the
\* same way: what it comes to look at. The walk stops at the third list, so that
\* what lies in lists nested deeper than that counts as taken.
ItemsOf(v) == IF v.type = "array" THEN {v.items[i] : i \in DOMAIN v.items} ELSE {v}
Opened(values) == UNION {ItemsOf(v) : v \in values}
Looked(value) == Opened(Opened(ItemsOf(value)))

\* A class accepts a body when no property is left over and each field takes
\* its value; Inner(c, v) says whether a nested value fits its class. An item
\* that is null is passed over.
Fits(class, body, Inner(_, _)) ==
    /\ class.excludes \/ DOMAIN body \subseteq DOMAIN class.fields
    /\ \A p \in DOMAIN class.fields :
         LET field == class.fields[p]
             value == Instance(class, body)[p]
         IN \/ value.type \in field.skips
            \/ /\ \A c \in field.checks : Holds(c, value)
               /\ \/ field.nested = "none"
                  \/ \A v \in Looked(value) :
                       \/ IsMissing(v) \/ v.type = "array"
                       \/ v.type = "object" /\ Inner(field.nested, v.props)

\* Nothing nests deeper than a request, its messages and their parts.
PartFits(name, props) == Fits(ClassNamed(name), props, LAMBDA n, v : TRUE)
MessageFits(name, props) == Fits(ClassNamed(name), props, PartFits)
\* Mutant: @ValidateNested left out.
ValidatedShallow(class, body) == Fits(class, body, LAMBDA n, v : TRUE)
Validated(class, body) == Fits(class, body, MessageFits)
=============================================================================
