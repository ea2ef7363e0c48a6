------------------------------ MODULE Codegen ------------------------------
(***************************************************************************)
(* pulumi-codegen: from a provider's schema to the files of a Rust crate.  *)
(* Resolution walks the types, the resources and the functions, collecting *)
(* the unions that "oneOf" types need under names made of their variants'; *)
(* emission writes a file per item and an index per directory, a later     *)
(* file over an earlier one of the same path.                              *)
(*                                                                         *)
(* A name is the sequence of its characters, and a token the sequence of   *)
(* its parts between colons: package, path and name. What a property or a  *)
(* file says besides types is left out.                                    *)
(***************************************************************************)
EXTENDS Naturals, SequencesExt

CONSTANTS
  Specs,          \* the types that fields mention, with their parts
  Depth,          \* how deep each of them nests
  Schemas,        \* schemas: lists of items, by token
  Format,         \* what moduleFormat captures of the paths it matches
  Keyword,        \* the keywords of Rust that r# goes before
  SpecialKeyword  \* the others: self, crate, super, Self

VARIABLES
  schema,
  at,        \* what main does: "types", "resources", "functions", "emit", ...
  next,      \* the next item of that list, or the next file
  resolved,  \* what is resolved of each list, in order
  unions,    \* the unions map: name and variants
  files      \* what is on disk: path to content

vars == <<schema, at, next, resolved, unions, files>>

-----------------------------------------------------------------------------
(* Names.                                                                  *)

LowerOf ==
  [A |-> "a", B |-> "b", C |-> "c", D |-> "d", E |-> "e", F |-> "f", G |-> "g",
   H |-> "h", I |-> "i", J |-> "j", K |-> "k", L |-> "l", M |-> "m", N |-> "n",
   O |-> "o", P |-> "p", Q |-> "q", R |-> "r", S |-> "s", T |-> "t", U |-> "u",
   V |-> "v", W |-> "w", X |-> "x", Y |-> "y", Z |-> "z"]
Upper == DOMAIN LowerOf
Lower == {LowerOf[c] : c \in Upper}
Digit == {"0", "1", "2", "3", "4", "5", "6", "7", "8", "9"}
Separator == {"_", "-", ".", "/"}

LowerCase(c) == IF c \in Upper THEN LowerOf[c] ELSE c
UpperCase(c) == IF c \in Lower THEN CHOOSE u \in Upper : LowerOf[u] = c ELSE c

(* A capital starts a word after a small letter or a digit and, in a run   *)
(* of capitals, before a small letter.                                     *)
Breaks(name, i) ==
  /\ i > 1 /\ name[i] \in Upper
  /\ \/ name[i - 1] \in Lower \cup Digit
     \/ name[i - 1] \in Upper /\ i < Len(name) /\ name[i + 1] \in Lower

Snake(name) ==
  FlattenSeq([i \in DOMAIN name |-> IF Breaks(name, i) THEN <<"_", LowerCase(name[i])>>
                                                       ELSE <<LowerCase(name[i])>>])

Pascal(name) ==
  FlattenSeq([i \in DOMAIN name |->
                IF name[i] \in Separator THEN <<>>
                ELSE IF i = 1 \/ name[i - 1] \in Separator THEN <<UpperCase(name[i])>>
                ELSE <<name[i]>>])

(* File names are not escaped.                                             *)
FileName(name) == Snake(ReplaceAll(name, "/", "_"))

Escape(name) ==
  IF name \in SpecialKeyword THEN name \o <<"_">>
  ELSE IF name \in Keyword THEN <<"r", "#">> \o name ELSE name

(* What is between two slashes is no part of its own.                      *)
Identifier(module) ==
  IF module = <<>> THEN <<>> ELSE Escape(Snake(ReplaceAll(module, ".", "_")))

(* More than two colons would only put some into the path.                 *)
Parsed(token) == Len(token) > 2

ExtractModule(path) == IF path \in DOMAIN Format THEN Format[path] ELSE path

ModuleOf(token) ==
  LET module == ExtractModule(token[2]) IN
  IF module = <<"i", "n", "d", "e", "x">> THEN <<>> ELSE module

TypesName == <<"t", "y", "p", "e", "s">>
ModName == <<"m", "o", "d">>
LibName == <<"l", "i", "b">>

-----------------------------------------------------------------------------
(* Types: [kind "plain", name], [kind "ref", token], [kind "array" or      *)
(* "map", of], [kind "oneOf", of : a sequence]. What pulumi.json defines   *)
(* is plain, and so is a JSON value.                                       *)

Inner(spec) ==
  CASE spec.kind = "oneOf"            -> spec.of
    [] spec.kind \in {"array", "map"} -> <<spec.of>>
    [] OTHER                          -> <<>>

Item == [token : {parts \in Seq(Seq(STRING)) : Len(parts) <= 3},
         overlay : BOOLEAN, fields : Seq(Specs)]

Lists == {"types", "resources", "functions"}

(* A schema is a finite text, so types do not nest without end; "types" is *)
(* no keyword of Rust.                                                     *)
ASSUME CodegenAssumption ==
  /\ Depth \in [Specs -> Nat]
  /\ \A spec \in Specs :
       /\ Inner(spec) \in Seq(Specs)
       /\ \A i \in DOMAIN Inner(spec) : Depth[Inner(spec)[i]] < Depth[spec]
  /\ Schemas \subseteq [Lists -> Seq(Item)]
  /\ TypesName \notin Keyword \cup SpecialKeyword

Join(names) == FoldLeft(LAMBDA all, name : all \o <<"O", "r">> \o name, Head(names), Tail(names))

Suffix == [array |-> <<"A", "r", "r", "a", "y">>, map |-> <<"M", "a", "p">>]

JsonValue == [kind |-> "plain", name |-> <<"A", "n", "y">>]

TypePath(module, name) == [kind |-> "path", module |-> module, name |-> name]

Variant_InRoot(token) == IF Parsed(token) THEN TypePath(<<>>, Pascal(token[3])) ELSE JsonValue

ResolveTypeRef(token) ==
  IF Parsed(token) THEN TypePath(Identifier(ModuleOf(token)), Pascal(token[3])) ELSE JsonValue

(* Of a type and of what its parts resolve to: what a union calls its      *)
(* variant of the type, the Rust type, and the union that a "oneOf" needs.  *)
VariantName(spec, inner) ==
  CASE spec.kind = "oneOf" -> Join([i \in DOMAIN inner |-> inner[i].name])
    [] spec.kind = "ref"   -> ResolveTypeRef(spec.token).name
    [] spec.kind \in {"array", "map"} -> inner[1].name \o Suffix[spec.kind]
    [] OTHER               -> spec.name

RustType(spec, inner) ==
  CASE spec.kind = "oneOf" -> TypePath(<<>>, VariantName(spec, inner))
    [] spec.kind = "ref"   -> ResolveTypeRef(spec.token)
    [] spec.kind \in {"array", "map"} -> [kind |-> spec.kind, of |-> inner[1].rust]
    [] OTHER               -> spec

Union(spec, inner) ==
  [kind |-> "unions", module |-> <<>>, name |-> VariantName(spec, inner),
   file |-> Snake(VariantName(spec, inner)), fields |-> [i \in DOMAIN inner |-> inner[i].rust]]

(* The unions in the order they are registered, those of the parts before  *)
(* the type's own.                                                         *)
Registered(spec, inner) ==
  FlattenSeq([i \in DOMAIN inner |-> inner[i].unions])
  \o IF spec.kind = "oneOf" THEN <<Union(spec, inner)>> ELSE <<>>

Resolution(spec, inner) ==
  [name |-> VariantName(spec, inner), rust |-> RustType(spec, inner),
   unions |-> Registered(spec, inner)]

ResolveType[spec \in Specs] ==
  Resolution(spec, [i \in DOMAIN Inner(spec) |-> ResolveType[Inner(spec)[i]]])

(* entry(name).or_insert_with, one after another: the first union of a     *)
(* name stays.                                                             *)
InsertUnions(map, new) ==
  map \cup {new[i] : i \in {i \in DOMAIN new :
               /\ \A u \in map : u.name # new[i].name
               /\ \A j \in 1..(i - 1) : new[j].name # new[i].name}}

(* The fields' types; whether a field is optional makes no difference.     *)
ResolveFields(item) == [i \in DOMAIN item.fields |-> ResolveType[item.fields[i]].rust]

FieldUnions(item) == FlattenSeq([i \in DOMAIN item.fields |-> ResolveType[item.fields[i]].unions])

(* Overlays are left to be written by hand; an item whose token does not   *)
(* parse is left out, and nothing is said of it.                           *)
Taken(item) == ~item.overlay /\ Parsed(item.token)

ResolveItem(list, item) ==
  [kind |-> list, module |-> Identifier(ModuleOf(item.token)),
   name |-> Pascal(item.token[3]), file |-> FileName(item.token[3]),
   fields |-> ResolveFields(item)]

-----------------------------------------------------------------------------
Init ==
  /\ schema \in Schemas
  /\ at = "types" /\ next = 1
  /\ resolved = [list \in Lists |-> <<>>] /\ unions = {} /\ files = {}

Resolve(list, after) ==
  /\ at = list
  /\ IF next > Len(schema[list])
     THEN /\ at' = after /\ next' = 1
          /\ UNCHANGED <<resolved, unions>>
     ELSE LET item == schema[list][next] IN
          /\ next' = next + 1
          /\ IF Taken(item)
             THEN /\ resolved' = [resolved EXCEPT ![list] = Append(@, ResolveItem(list, item))]
                  /\ unions' = InsertUnions(unions, FieldUnions(item))
             ELSE UNCHANGED <<resolved, unions>>
          /\ UNCHANGED at
  /\ UNCHANGED <<schema, files>>

ResolveComplexType == Resolve("types", "resources")
ResolveResource == Resolve("resources", "functions")
ResolveFunction == Resolve("functions", "emit")

-----------------------------------------------------------------------------
(* The crate. A path is a sequence of names below src, without ".rs".      *)

(* Under keys that sort before the provider's tokens.                      *)
WithUnions(types) == SetToSeq(unions) \o types

Types == WithUnions(resolved["types"])
Services == resolved["resources"] \o resolved["functions"]

In(items, module) ==
  FlattenSeq([i \in DOMAIN items |-> IF items[i].module = module THEN <<items[i]>> ELSE <<>>])
Modules(items) == {r.module : r \in Range(items)} \ {<<>>}

(* A slash in a module's name starts a directory below.                    *)
Components(module) ==
  IF "/" \notin Range(module) THEN <<module>>
  ELSE LET cuts == SetToSortSeq({0, Len(module) + 1} \cup {i \in DOMAIN module : module[i] = "/"}, <)
       IN [k \in 1..(Len(cuts) - 1) |-> SubSeq(module, cuts[k] + 1, cuts[k + 1] - 1)]

Below(dir, module) == IF module = <<>> THEN dir ELSE dir \o Components(module)

Top(kind) == IF kind \in {"types", "unions"} THEN <<TypesName>> ELSE <<>>
Dir(r) == Below(Top(r.kind), r.module)
PathOf(r) == Append(Dir(r), r.file)

ItemFile(r) == <<PathOf(r), r>>
ItemFiles(items) == [i \in DOMAIN items |-> ItemFile(items[i])]

(* "mod" lines, in the mod.rs of what is written and in lib.rs. A module's *)
(* line has its whole name.                                                *)
Index(dir, declares) ==
  <<IF dir = <<>> THEN <<LibName>> ELSE Append(dir, ModName),
    [kind |-> "index", declares |-> declares]>>

Names(items) == [i \in DOMAIN items |-> items[i].file]

Variant_ResourcesOnly(items) == Names(SelectSeq(items, LAMBDA r : r.kind # "functions"))

Declarations(items) == Names(items)

Module(dir, items) ==
  Append(ItemFiles(items), Index(dir, Declarations(items)))

ModuleFiles(dir, items) ==
  LET modules == SetToSeq(Modules(items)) IN
  FlattenSeq([i \in DOMAIN modules |-> Module(Below(dir, modules[i]), In(items, modules[i]))])

TypesMod ==
  Index(<<TypesName>>, Declarations(In(Types, <<>>)) \o SetToSeq(Modules(Types)))

LibRs ==
  Index(<<>>, (IF Types = <<>> THEN <<>> ELSE <<TypesName>>)
              \o SetToSeq(Modules(Services)) \o Declarations(In(Services, <<>>)))

TypesDir ==
  IF Types = <<>> THEN <<>>
  ELSE ItemFiles(In(Types, <<>>)) \o ModuleFiles(<<TypesName>>, Types) \o <<TypesMod>>

(* Beside src, at no path below it.                                        *)
CargoToml == << <<>>, [kind |-> "manifest"]>>

(* emit_package_with_options                                               *)
Writes ==
  <<CargoToml>> \o ItemFiles(In(Services, <<>>)) \o ModuleFiles(<<>>, Services)
  \o TypesDir \o <<LibRs>>

WriteFile ==
  /\ at = "emit" /\ next <= Len(Writes)
  /\ LET write == Writes[next] IN
       files' = {f \in files : f[1] # write[1]} \cup {write}
  /\ next' = next + 1
  /\ UNCHANGED <<schema, at, resolved, unions>>

(* main exits and leaves what is written.                                  *)
WriteFails ==
  /\ at = "emit" /\ next <= Len(Writes)
  /\ at' = "failed"
  /\ UNCHANGED <<schema, next, resolved, unions, files>>

(* The counts are printed and the files formatted.                         *)
Finish ==
  /\ at = "emit" /\ next > Len(Writes)
  /\ at' = "done"
  /\ UNCHANGED <<schema, next, resolved, unions, files>>

Next ==
  \/ ResolveComplexType \/ ResolveResource \/ ResolveFunction
  \/ WriteFile \/ WriteFails \/ Finish

Spec == Init /\ [][Next]_vars

-----------------------------------------------------------------------------
(* What rustc makes of the files.                                          *)

DirIndex(dir) ==
  LET path == Index(dir, <<>>)[1] IN {f[2] : f \in {g \in files : g[1] = path}}

(* An index that declares the name, once.                                  *)
Declares(dir, name) ==
  \E index \in DirIndex(dir) :
    /\ index.kind = "index"
    /\ \E i \in DOMAIN index.declares :
         \A j \in DOMAIN index.declares : index.declares[j] = name <=> j = i

(* A name is an identifier and no keyword. A module with the prefix r# is  *)
(* looked for in a directory without it, which is not the one written.     *)
Found(name) ==
  /\ name \notin {<<>>, <<"_">>} \cup Keyword \cup SpecialKeyword
  /\ Range(name) \subseteq Upper \cup Lower \cup Digit \cup {"_"}
  /\ name[1] \notin Digit

Reachable(path) ==
  \A i \in 1..Len(path) : Declares(SubSeq(path, 1, i - 1), path[i]) /\ Found(path[i])

(* The items that crate::types::module::name stands for.                   *)
Denoted(type) ==
  {f[2] : f \in {g \in files : /\ g[2].kind \in {"types", "unions"}
                               /\ g[2].name = type.name /\ Found(type.name)
                               /\ Front(g[1]) = Below(<<TypesName>>, type.module)
                               /\ Reachable(g[1])}}

(* What only the schema decides.                                           *)
Kept(list) == {item \in Range(schema[list]) : Taken(item)}
Items == UNION {{ResolveItem(list, item) : item \in Kept(list)} : list \in Lists}
AllKept == UNION {Kept(list) : list \in Lists}
Everything == Items \cup UNION {Range(FieldUnions(item)) : item \in AllKept}

(* Two items, two unions or an item and a union have one file.             *)
SamePlace == \E r, s \in Everything : r # s /\ PathOf(r) = PathOf(s)
Repeated == \E list \in Lists :
              \E i, j \in DOMAIN schema[list] :
                /\ i # j /\ Taken(schema[list][i]) /\ Taken(schema[list][j])
                /\ PathOf(ResolveItem(list, schema[list][i])) = PathOf(ResolveItem(list, schema[list][j]))

(* An item's file is where an index goes, or beside a directory's name.    *)
Reserved ==
  \E r \in Everything :
    \/ Last(PathOf(r)) = ModName /\ Dir(r) # <<>>
    \/ PathOf(r) \in {<<LibName>>, <<TypesName>>}
    \/ \E s \in Everything : PathOf(r) = Dir(s)
    \/ r.kind \in {"resources", "functions"} /\ r.module = TypesName

(* A file or a module has a name that no module of Rust can have.          *)
NotIdentifier ==
  \E r \in Everything : ~Found(r.file) \/ (r.module # <<>> /\ ~Found(r.module))

Clash == SamePlace \/ Repeated \/ Reserved \/ NotIdentifier

(* The type has a name of another type of its module, or one Rust does not *)
(* accept.                                                                 *)
Misnamed(r) ==
  \/ ~Found(r.name)
  \/ \E s \in Everything \ {r} :
       s.kind \in {"types", "unions"} /\ s.module = r.module /\ s.name = r.name

(* Every resource, function and type of the schema that is no overlay and  *)
(* whose token parses, and every union its fields need, has its own file   *)
(* in the generated crate, and lib.rs and the mod.rs files lead to it,     *)
(* unless two have one file or one has a file or a module that Rust cannot *)
(* name: no file is written over another, and what is written is declared  *)
(* (emit.rs).                                                              *)
NothingLost ==
  at = "done" /\ ~Clash =>
    \A r \in Everything : ItemFile(r) \in files /\ Reachable(PathOf(r))

Parts[spec \in Specs] ==
  {spec} \cup UNION {Parts[Inner(spec)[i]] : i \in DOMAIN Inner(spec)}

Mentioned == UNION {UNION {Parts[item.fields[n]] : n \in DOMAIN item.fields} : item \in AllKept}

Variants(spec) == [i \in DOMAIN Inner(spec) |-> ResolveType[Inner(spec)[i]]]

(* A type mentioned in a field is, in the generated crate, that type and   *)
(* nothing else: a $ref the schema's type of that token, if it is one that *)
(* is generated, a oneOf the union of its own variants, unless that very   *)
(* type has the name of another or one Rust does not accept, or the whole  *)
(* crate is none, as two have one file or one's cannot be declared         *)
(* (resolve_type_ref and resolve_one_of against emit_types_mod).           *)
MentionsDenote ==
  at = "done" /\ ~Clash =>
    \A spec \in Mentioned :
      /\ spec.kind = "oneOf" /\ ~Misnamed(Union(spec, Variants(spec))) =>
           Denoted(ResolveType[spec].rust) = {Union(spec, Variants(spec))}
      /\ spec.kind = "ref" =>
           \A item \in Kept("types") :
             item.token = spec.token /\ ~Misnamed(ResolveItem("types", item)) =>
               Denoted(ResolveType[spec].rust) = {ResolveItem("types", item)}
=============================================================================
