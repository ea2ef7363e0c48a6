----------------------------- MODULE MCCodegen -----------------------------
(* All schemas made of an overlay, a type whose token does not parse, and  *)
(* some of four types, four resources and three functions, chosen so that  *)
(* most kinds of clash are among them.                                     *)
EXTENDS Codegen, FiniteSetsExt

(* TLC has the operators of sequences on strings.                          *)
Chars(string) == [i \in 1..Len(string) |-> SubSeq(string, i, i)]

MCItem(path, name, fields) ==
  [token |-> <<Chars("p"), Chars(path), Chars(name)>>, overlay |-> FALSE, fields |-> fields]

String == [kind |-> "plain", name |-> Chars("String")]
Integer == [kind |-> "plain", name |-> Chars("Integer")]
OneOf(a, b) == [kind |-> "oneOf", of |-> <<a, b>>]
List(a) == [kind |-> "array", of |-> a]
Ref(item) == [kind |-> "ref", token |-> item.token]

Rule == MCItem("s3/rule", "Rule1", <<String>>)
Twin == MCItem("s3/rule", "rule_1", <<Integer>>)
OtherRule == MCItem("ec2/rule", "rule1", <<List(OneOf(String, Integer))>>)
Grant == [MCItem("s3/grant", "Grant", <<>>) EXCEPT !.overlay = TRUE]
Named == MCItem("index/named", "Rule1OrString", <<Integer>>)
Short == [token |-> <<Chars("p"), Chars("Rule")>>, overlay |-> FALSE, fields |-> <<String>>]

Bucket == MCItem("s3/bucket", "Bucket", <<OneOf(Ref(Rule), String), List(Ref(Grant))>>)
SmallBucket == MCItem("s3/bucket", "bucket", Bucket.fields)
Policy == MCItem("ec2/policy", "Policy", <<OneOf(Ref(OtherRule), Ref(Short))>>)
Library == MCItem("index", "lib", <<Ref(Rule)>>)

Match == MCItem("match/convert", "convert", <<Ref(Rule)>>)
GetBucket == MCItem("s3/getBucket", "getBucket", <<Ref(Rule)>>)
GetPolicy == MCItem("ec2/policy", "policy", <<OneOf(OneOf(String, Integer), Ref(OtherRule))>>)

Some(list) == {SelectSeq(list, LAMBDA i : i \in chosen) : chosen \in SUBSET Range(list)}
MCSchemas ==
  [types : {<<Grant, Short>> \o others : others \in Some(<<OtherRule, Named, Rule, Twin>>)},
   resources : Some(<<Library, Policy, Bucket, SmallBucket>>),
   functions : Some(<<GetPolicy, GetBucket, Match>>)]

(* The default moduleFormat captures what is before the last slash.         *)
MCItems == {OtherRule, Rule, Twin, Grant, Named, Short, Bucket, SmallBucket, Policy, Library,
            Match, GetBucket, GetPolicy}
BeforeLast(path) == SubSeq(path, 1, Max({i \in DOMAIN path : path[i] = "/"}) - 1)
MCFormat ==
  [path \in {path \in {item.token[2] : item \in MCItems} : "/" \in Range(path)} |-> BeforeLast(path)]

RECURSIVE PartsOf(_)
PartsOf(spec) == {spec} \cup UNION {PartsOf(Inner(spec)[i]) : i \in DOMAIN Inner(spec)}
MCSpecs == UNION {PartsOf(field) : field \in UNION {Range(item.fields) : item \in MCItems}}

RECURSIVE Nesting(_)
Nesting(spec) == Max({0} \cup {1 + Nesting(Inner(spec)[i]) : i \in DOMAIN Inner(spec)})
MCDepth == [spec \in MCSpecs |-> Nesting(spec)]

MCKeyword == {Chars("match"), Chars("mod"), Chars("type")}
MCSpecialKeyword == {Chars("self"), Chars("Self")}

(* What naming.rs's own tests say of the conversions.                      *)
ASSUME MCConversions ==
  /\ \A pair \in {<<"bucketPrefix", "bucket_prefix">>, <<"SHA256Hash", "sha256_hash">>,
                  <<"s3BucketArn", "s3_bucket_arn">>, <<"getHTTPSPort", "get_https_port">>} :
       Snake(Chars(pair[1])) = Chars(pair[2])
  /\ \A pair \in {<<"randomId", "RandomId">>, <<"random_id", "RandomId">>,
                  <<"public.read.write", "PublicReadWrite">>} :
       Pascal(Chars(pair[1])) = Chars(pair[2])
  /\ Identifier(Chars("admissionregistration.k8s.io")) = Chars("admissionregistration_k8s_io")
  /\ Identifier(Chars("type")) = Chars("r#type") /\ Identifier(<<>>) = <<>>
=============================================================================
