------------------------------ MODULE Schemas ------------------------------
(* What registration may have built, for TLC.  The keyword "x" is          *)
(* registered nowhere.                                                     *)
It(t, s) == [type |-> t, child |-> s]

(* Vectors of sections in a vector of sections, and a user type in a section *)
TreeKw      == {"a", "e", "s", "v", "x"}
TreeSection == {"top", "elem", "inner", "sub"}
TreeSchema  ==
  [s \in TreeSection |->
     CASE s = "top"   -> [a |-> It("SCALAR", "top"), e |-> It("VSEC", "elem"),
                          s |-> It("SEC", "sub")]
       [] s = "elem"  -> [a |-> It("SCALAR", "top"), e |-> It("VSEC", "inner")]
       [] s = "inner" -> [a |-> It("SCALAR", "top"), v |-> It("VEC", "top")]
       [] s = "sub"   -> [a |-> It("USER", "top")]]
TreeOrder ==
  [s \in TreeSection |->
     CASE s = "top"   -> <<"a", "e", "s">> [] s = "elem" -> <<"a", "e">>
       [] s = "inner" -> <<"a", "v">>      [] s = "sub"  -> <<"a">>]

(* Every type, at the top, in a section, and in a section that elements of *)
(* a vector of sections have                                               *)
MixKw      == {"a", "c", "e", "s", "t", "u", "v", "x"}
MixSection == {"top", "sub", "elem", "part"}
MixSchema  ==
  [s \in MixSection |->
     CASE s = "top"  -> [e |-> It("VSEC", "elem"), s |-> It("SEC", "sub"),
                         v |-> It("VTAB", "top")]
       [] s = "sub"  -> [t |-> It("TABLE", "top"), u |-> It("USER", "top"),
                         v |-> It("VEC", "top")]
       [] s = "elem" -> [a |-> It("SCALAR", "top"), c |-> It("SEC", "part"),
                         v |-> It("VVEC", "top")]
       [] s = "part" -> [a |-> It("SCALAR", "top")]]
MixOrder ==
  [s \in MixSection |->
     CASE s = "top"  -> <<"e", "s", "v">> [] s = "sub"  -> <<"t", "u", "v">>
       [] s = "elem" -> <<"a", "c", "v">> [] s = "part" -> <<"a">>]

(* Strings in the elements of a vector of sections *)
StrKw      == {"a", "b", "e"}
StrSection == {"top", "elem"}
StrSchema  ==
  [s \in StrSection |->
     CASE s = "top"  -> [a |-> It("SCALAR", "top"), e |-> It("VSEC", "elem")]
       [] s = "elem" -> [a |-> It("SCALAR", "top"), b |-> It("SCALAR", "top")]]
StrOrder ==
  [s \in StrSection |-> IF s = "top" THEN <<"a", "e">> ELSE <<"a", "b">>]

(* Vectors of sections in a vector of sections, nothing else *)
DeepKw      == {"a", "e", "f"}
DeepSection == {"top", "elem", "inner"}
DeepSchema  ==
  [s \in DeepSection |->
     CASE s = "top"   -> [e |-> It("VSEC", "elem")]
       [] s = "elem"  -> [f |-> It("VSEC", "inner")]
       [] s = "inner" -> [a |-> It("SCALAR", "top")]]
DeepOrder ==
  [s \in DeepSection |->
     CASE s = "top" -> <<"e">> [] s = "elem" -> <<"f">> [] s = "inner" -> <<"a">>]

(* A section in a vector of sections *)
NestSchema  ==
  [s \in DeepSection |->
     CASE s = "top"   -> [e |-> It("VSEC", "elem")]
       [] s = "elem"  -> [f |-> It("SEC", "inner")]
       [] s = "inner" -> [a |-> It("SCALAR", "top")]]
=============================================================================
