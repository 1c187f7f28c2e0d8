------------------------------ MODULE MCFields ------------------------------
(***************************************************************************)
(* Declarations for Fields, one for each thing the macro generates and one *)
(* for each it refuses.                                                    *)
(***************************************************************************)
EXTENDS Fields

Leaf(t) == <<"leaf", t>>
HeavyRef == <<"heavy", "Ref">>
Gpu(type, attr) == [type |-> type, gpu |-> TRUE, attr |-> attr]
Cpu(type) == [type |-> type, gpu |-> FALSE, attr |-> <<>>]
Struct(fields) == [fields |-> fields, attr |-> <<>>]
PackedStruct(fields) == [fields |-> fields, attr |-> [layout |-> "packed"]]
Once == [mirror |-> "Once"]
Shade == [buffer |-> "shade"]
Indices == [buffer |-> "idx"]
VecOf(t) == <<"vec", t>>

Declared ==
  [Light |-> Struct(<<Gpu(Leaf("f32"), Shade), Gpu(Leaf("u32"), Once),
                      Gpu(Leaf("Texture"), [mirror |-> "Once", heavy |-> TRUE])>>),
   Body |-> PackedStruct(<<Gpu(Leaf("f32"), <<>>), Cpu(Leaf("u32")), Gpu(Leaf("f32"), <<>>)>>),
   Still |-> PackedStruct(<<Gpu(Leaf("f32"), Once)>>),
   Mesh |-> Struct(<<Cpu(Leaf("AssetId")), Gpu(VecOf(Leaf("f32")), [mirror |-> "Once", content_id |-> 1]),
                     Gpu(Leaf("u32"), Once)>>),
   Strip |-> Struct(<<Gpu(VecOf(Leaf("u32")), Indices)>>),
   Glow |-> Struct(<<Gpu(Leaf("f32"), Shade)>>),
   Clash |-> Struct(<<Gpu(Leaf("f32"), [buffer |-> "shade", mirror |-> "Once"])>>),
   Lamp |-> Struct(<<Gpu(Leaf("f32"), <<>>), Gpu(VecOf(Leaf("u32")), Indices)>>),
   Graph |-> Struct(<<Gpu(VecOf(<<"res", HeavyRef, HeavyRef>>), <<>>),
                      Gpu(VecOf(<<"opt", HeavyRef>>), <<>>)>>),
   Crowd |-> Struct(<<Gpu(VecOf(HeavyRef), [buffer |-> "crowd"])>>),
   Authored |-> Struct(<<Cpu(Leaf("f32"))>>),
   Typo |-> Struct(<<Gpu(Leaf("f32"), [mirror |-> "Onec"])>>),
   Mixed |-> PackedStruct(<<Gpu(Leaf("f32"), Once), Gpu(Leaf("f32"), <<>>)>>),
   Loud |-> Struct(<<Gpu(Leaf("Texture"), [heavy |-> TRUE])>>),
   Record |-> PackedStruct(<<Gpu(Leaf("Texture"), [mirror |-> "Once", heavy |-> TRUE])>>),
   Deep |-> Struct(<<Gpu(VecOf(<<"opt", VecOf(HeavyRef)>>), <<>>)>>),
   Orphan |-> Struct(<<Gpu(VecOf(Leaf("f32")), [content_id |-> 4])>>),
   Flat |-> PackedStruct(<<Gpu(VecOf(Leaf("f32")), <<>>)>>),
   Shared |-> Struct(<<Gpu(VecOf(Leaf("u32")), Indices), Gpu(VecOf(Leaf("u32")), Indices)>>)]

\* An Authored component's rows are those of a Body derived from it.
BodyOfAuthored == [n \in DOMAIN Declared |-> IF n = "Authored" THEN {"Body"} ELSE {}]
AsBody(value) == <<value[1], 0, value[1] + 1>>

ValuesDeclared(n) ==
  CASE n = "Light" -> {<<1, 1, 1>>, <<2, 2, 2>>}
    [] n = "Body" -> {<<1, 9, 1>>, <<2, 9, 3>>}
    [] n = "Mesh" -> {<<1, <<1>>, 1>>, <<2, <<2, 1>>, 2>>, <<0, <<3>>, 1>>}
    [] n = "Lamp" -> {<<1, <<1>>>>, <<2, <<>>>>}
    [] n = "Strip" -> {<< <<1>> >>, << <<2, 2>> >>}
    [] n = "Graph" -> {<< << <<"ok", 1>>, <<"err", 2>> >>, << <<"none", 0>>, <<"some", 1>> >> >>,
                       << << <<"err", 2>>, <<"ok", 3>>, <<"ok", 1>> >>, << <<"some", 1>> >> >>,
                       << <<>>, <<>> >>}
    [] n = "Crowd" -> {<< <<1>> >>, << <<1, 2>> >>, << <<>> >>}
    [] n = "Shared" -> {<< <<1>>, <<2>> >>}
    [] OTHER -> {<<1>>, <<2>>}
DeclaredValues == [n \in DOMAIN Declared |-> ValuesDeclared(n)]

\* Programs: the refused declarations are linked with one that is not.
ManyPrograms ==
  {{"Light", "Glow", "Clash"}, {"Mesh", "Strip"}, {"Lamp", "Strip"}, {"Graph"}, {"Crowd"}, {"Body", "Authored"},
   {"Still", "Typo", "Mixed", "Loud", "Record", "Deep", "Orphan", "Flat"}}
SharedProgram == {{"Shared"}}
=============================================================================
