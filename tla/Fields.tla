------------------------------- MODULE Fields -------------------------------
(***************************************************************************)
(* What a request body or query string becomes before a handler sees it:   *)
(* the field decorators of src/decorators/field.decorators.ts, the         *)
(* transforms and validators they apply, and the global ValidationPipe.    *)
(* A JSON value is a record with its type; of a text only its form, its    *)
(* length and, for a numeral, its number are kept.                         *)
(***************************************************************************)
EXTENDS Integers, Sequences

\* What TLC writes f @@ g, in a form that proofs can expand.
f ++ g == LET own == DOMAIN f
          IN [x \in own \cup DOMAIN g |-> IF x \in own THEN f[x] ELSE g[x]]

Undefined == [type |-> "undefined"]
Null == [type |-> "null"]
NaN == [type |-> "NaN"]
BadDate == [type |-> "badDate"]
Text(form, len) == [type |-> "string", form |-> form, len |-> len]
Numeral(n) == [type |-> "string", form |-> "numeral", len |-> 1, num |-> n]
Empty == Text("empty", 0)
Number(n) == [type |-> "number", num |-> n, whole |-> TRUE]
Half(n) == [type |-> "number", num |-> n, whole |-> FALSE]   \* n + 1/2
Bool(b) == [type |-> "boolean", bool |-> b]
Array(s) == [type |-> "array", items |-> s]
Object(props) == [type |-> "object", props |-> props]
NoProps == [p \in {} |-> Undefined]

IsMissing(v) == v.type \in {"undefined", "null"}
Prop(obj, p) == IF p \in DOMAIN obj THEN obj[p] ELSE Undefined

-----------------------------------------------------------------------------
\* class-transformer: @Type converts with the JavaScript constructor, item by
\* item in an array, and leaves null and undefined alone.
ToText(v) == IF v.type = "string" THEN v
             ELSE IF v.type = "number" /\ v.whole THEN Numeral(v.num)
             ELSE Text("plain", 4)
ToNumber(v) == CASE v.type = "number" -> v
                 [] v = Empty -> Number(0)
                 [] v.type = "string" /\ "num" \in DOMAIN v -> Number(v.num)
                 [] v.type = "string" /\ "half" \in DOMAIN v -> Half(v.half)
                 [] v.type = "boolean" -> Number(IF v.bool THEN 1 ELSE 0)
                 [] OTHER -> NaN
ToDate(v) == IF \/ v.type \in {"number", "boolean", "date"}
                \/ (v.type = "string" /\ v.form \in {"date", "numeral"})
             THEN [type |-> "date"] ELSE BadDate
ConvertOne(how, v) ==
    IF IsMissing(v) THEN v
    ELSE CASE how = "String" -> ToText(v)
           [] how = "Number" -> ToNumber(v)
           [] how = "Date" -> ToDate(v)
           [] how = "Boolean" -> Bool(v \notin {Empty, Number(0), NaN, Bool(FALSE)})
           [] OTHER -> v
Convert(how, v) == IF v.type = "array"
                   THEN Array([i \in DOMAIN v.items |-> ConvertOne(how, v.items[i])])
                   ELSE ConvertOne(how, v)

\* @Transform functions, run on the converted value. A falsy value is dropped
\* by the two case transforms.
IsFalsy(v) == IsMissing(v) \/ v \in {Empty, NaN, Number(0), Bool(FALSE)}
ToBoolean(v) == IF v.type = "string" /\ v.form \in {"true", "false"}
                THEN Bool(v.form = "true") ELSE v
ToOneCase(v) == IF IsFalsy(v) THEN Undefined ELSE v
Transform(how, v) == CASE how = "boolean" -> ToBoolean(v)
                       [] how = "case" -> ToOneCase(v)
                       [] OTHER -> v

-----------------------------------------------------------------------------
\* A validator registered on a property, and what it says of one value.
Check(test, arg, each) == [test |-> test, arg |-> arg, each |-> each]
HasForm(v, forms) == v.type = "string" /\ v.form \in forms
Passes(test, arg, v) ==
    CASE test = "isString" -> v.type = "string"
      [] test = "isNumber" -> v.type = "number"
      [] test = "isInt" -> v.type = "number" /\ v.whole
      [] test = "isBoolean" -> v.type = "boolean"
      [] test = "isDate" -> v.type = "date"
      [] test = "isArray" -> v.type = "array"
      [] test = "isObject" -> v.type = "object"
      [] test = "min" -> v.type = "number" /\ v.num >= arg
      [] test = "max" -> v.type = "number" /\ (v.num < arg \/ (v.num = arg /\ v.whole))
      [] test = "isPositive" -> v.type = "number" /\ (v.num > 0 \/ (v.num = 0 /\ ~v.whole))
      [] test = "minLength" -> v.type = "string" /\ v.len >= arg
      [] test = "maxLength" -> v.type = "string" /\ v.len <= arg
      [] test = "notNull" -> v # Null
      [] test = "isDefined" -> ~IsMissing(v)
      [] test = "isNotEmpty" -> ~IsMissing(v) /\ v # Empty
      [] test = "isEnum" -> HasForm(v, arg)
      [] test = "isEmail" -> HasForm(v, {"email"})
      [] test = "isUrl" -> HasForm(v, {"url"})
      [] test = "isLooseUrl" -> v.type = "string" /\ v.form \notin {"empty", "numeral", "spaced"}
      [] test = "isOrigins" -> v.type = "string" /\ v.form \notin {"email", "spaced"}
      [] test = "isUuid" -> HasForm(v, {"uuid"})
      [] test = "isJwt" -> HasForm(v, {"jwt"})
      [] test = "isPassword" -> /\ ~HasForm(v, {"spaced", "email", "url", "uuid", "jwt", "date"})
                                /\ v.type = "array" => Len(v.items) <= 1
\* With "each" an array is checked item by item, any other value as it is.
Holds(check, v) ==
    IF check.each /\ v.type = "array"
    THEN \A i \in DOMAIN v.items : Passes(check.test, check.arg, v.items[i])
    ELSE Passes(check.test, check.arg, v)

\* A property's decorators: its conversion, its transform, the conditions
\* under which it is validated at all, its validators, and the name of the
\* class its value (or its items) is validated as.
Field(how, transform, checks) ==
    [convert |-> how, transform |-> transform, skips |-> {}, checks |-> checks,
     nested |-> "none"]
And(field, checks) == [field EXCEPT !.checks = @ \cup checks]
Optional(field) == [field EXCEPT !.skips = @ \cup {"undefined", "null"}]
IsNullable(field) == [field EXCEPT !.skips = @ \cup {"null"}]
Value(field, v) == Transform(field.transform, Convert(field.convert, v))
Accepts(field, v) ==
    \/ Value(field, v).type \in field.skips
    \/ \A c \in field.checks : Holds(c, Value(field, v))

\* Options are records; a key that is not there has the default.
NoOptions == [k \in {} |-> FALSE]
Option(options, key, default) == IF key \in DOMAIN options THEN options[key] ELSE default
Each(options) == Option(options, "each", FALSE)
When(cond, checks) == IF cond THEN checks ELSE {}
NullRule(field, options, each) ==
    IF Option(options, "nullable", FALSE)
    THEN IsNullable(field) ELSE And(field, {Check("notNull", 0, each)})

NumberField(options) ==
    NullRule(
      Field("Number", "none",
        {Check(IF Option(options, "int", FALSE) THEN "isInt" ELSE "isNumber", 0, Each(options))}
        \cup When("min" \in DOMAIN options, {Check("min", Option(options, "min", 0), Each(options))})
        \cup When("max" \in DOMAIN options, {Check("max", Option(options, "max", 0), Each(options))})
        \cup When(Option(options, "isPositive", FALSE), {Check("isPositive", 0, Each(options))})),
      options, Each(options))
NumberFieldOptional(options) == Optional(NumberField(options))

StringField(options) ==
    NullRule(
      Field("String",
        IF Option(options, "toLowerCase", FALSE) \/ Option(options, "toUpperCase", FALSE)
        THEN "case" ELSE "none",
        {Check("isString", 0, Each(options)),
         Check("minLength", Option(options, "minLength", 1), Each(options))}
        \cup When(Option(options, "maxLength", 0) # 0,
                  {Check("maxLength", Option(options, "maxLength", 0), Each(options))})),
      options, Each(options))
StringFieldOptional(options) == Optional(StringField(options ++ [minLength |-> 0]))

TokenField(options) ==
    NullRule(Field("String", "none", {Check("isJwt", 0, Each(options))}), options, Each(options))

PasswordField(options) ==
    NullRule(And(StringField([minLength |-> 6] ++ options), {Check("isPassword", 0, FALSE)}),
             options, FALSE)
PasswordFieldOptional(options) == Optional(PasswordField(options))

BooleanField(options) ==
    NullRule(Field("none", "boolean", {Check("isBoolean", 0, FALSE)}), options, FALSE)
BooleanFieldOptional(options) == Optional(BooleanField(options))

\* IsNotEmpty is pushed without being called: it registers no validator.
EmailField(options) ==
    NullRule(And(StringField(options ++ [toLowerCase |-> TRUE]), {Check("isEmail", 0, FALSE)}),
             options, FALSE)
EmailFieldOptional(options) == Optional(EmailField(options))

UUIDField(options) ==
    NullRule(Field("String", "none", {Check("isUuid", 0, Each(options))}), options, FALSE)
UUIDFieldOptional(options) == Optional(UUIDField(options))

URLField(options) ==
    NullRule(And(StringField(options), {Check("isUrl", 0, TRUE)}), options, Each(options))
URLFieldOptional(options) == Optional(URLField(options))

DateField(options) ==
    NullRule(Field("Date", "none", {Check("isDate", 0, FALSE)}), options, FALSE)
DateFieldOptional(options) == Optional(DateField(options))

EnumField(members, options) ==
    NullRule(Field("none", "none", {Check("isEnum", members, Each(options))}), options, FALSE)
EnumFieldOptional(members, options) == Optional(EnumField(members, options))

ClassField(class, options) ==
    NullRule([Field("none", "none", When(Option(options, "required", TRUE), {Check("isDefined", 0, FALSE)}))
              EXCEPT !.nested = class], options, FALSE)
ClassFieldOptional(class, options) ==
    Optional(ClassField(class, options ++ [required |-> FALSE]))
=============================================================================
