---------------------------- MODULE BoundaryProofs ----------------------------
(***************************************************************************)
(* Proofs about Boundary, for any set of scalar types, any number of       *)
(* parameters, any number of arguments of a callback, generations and      *)
(* lengths of results.                                                     *)
(*                                                                         *)
(* First the terms: whatever the macro classifies, the C types the shim is *)
(* compiled for are those the wrapper derives from the rendered metadata   *)
(* (ParamAgrees, ResultAgrees).  Then the function: the manifest is the    *)
(* image of the shim from the moment it is compiled (Compiled).  Then one  *)
(* call: what each side knows of the result at each point of it (InCall).  *)
(***************************************************************************)
EXTENDS Boundary, SequenceTheorems, TLAPS

ScalarNames == {"i8", "u8", "i16", "u16", "i32", "u32", "f32", "i64", "u64", "f64"}
CbToks == Scalars \cup {"bool", ":string"}

\* The classified types, PTy and RTy.
Fixed == {<<"Bool">>, <<"StrRef">>, <<"BytesRef">>, <<"OptionStr">>, <<"OptionBytes">>,
          <<"HandleRef", "WordBag">>}
PTys ==
    Fixed \cup {<<"Scalar", s>> : s \in Scalars}
          \cup {<<"VecScalar", s>> : s \in Scalars}
          \cup {<<"OptionScalar", s>> : s \in Scalars}
          \cup {<<c>> \o a : c \in {"Callback", "StoredCallback"}, a \in Seq(CbToks)}
RFixed == {<<"Unit">>, <<"Bool">>, <<"Str">>, <<"Bytes">>, <<"OptionStr">>,
           <<"OptionBytes">>, <<"Handle", "WordBag">>}
RTys ==
    RFixed \cup {<<"Scalar", s>> : s \in Scalars}
           \cup {<<"VecScalar", s>> : s \in Scalars}
           \cup {<<"OptionScalar", s>> : s \in Scalars}

-----------------------------------------------------------------------------
(* Terms.                                                                  *)

LEMMA Names == Scalars \subseteq ScalarNames /\ size_of = vec_elt_size
<1>1. DOMAIN size_of = ScalarNames
  BY DEF size_of, ScalarNames
<1>2. size_of = vec_elt_size
  BY DEF size_of, vec_elt_size
<1> QED  BY <1>1, <1>2, BoundaryAssumption

LEMMA Join11 == ASSUME NEW a, NEW b PROVE <<a>> \o <<b>> = <<a, b>>
<1> DEFINE S == {a, b}
           s == <<a>> \o <<b>>
<1>1. <<a>> \in Seq(S) /\ <<b>> \in Seq(S) /\ <<a, b>> \in Seq(S)
  OBVIOUS
<1>2. s \in Seq(S) /\ Len(s) = 2 /\ s[1] = a /\ s[2] = b
  BY <1>1, ConcatProperties
<1> HIDE DEF s
<1>3. s = <<a, b>>
  BY <1>1, <1>2
<1> QED  BY <1>3 DEF s

LEMMA Join12 == ASSUME NEW a, NEW b, NEW c PROVE <<a>> \o <<b, c>> = <<a, b, c>>
<1> DEFINE S == {a, b, c}
           s == <<a>> \o <<b, c>>
<1>1. <<a>> \in Seq(S) /\ <<b, c>> \in Seq(S) /\ <<a, b, c>> \in Seq(S)
  OBVIOUS
<1>2. s \in Seq(S) /\ Len(s) = 3 /\ s[1] = a /\ s[2] = b /\ s[3] = c
  BY <1>1, ConcatProperties
<1> HIDE DEF s
<1>3. s = <<a, b, c>>
  BY <1>1, <1>2
<1> QED  BY <1>3 DEF s

\* A term is taken apart into its constructor and its arguments.
LEMMA Term ==
    ASSUME NEW S, NEW c, NEW a \in Seq(S)
    PROVE  LET s == <<c>> \o a
           IN /\ s \in Seq(S \cup {c}) /\ Len(s) = Len(a) + 1 /\ Len(a) \in Nat
              /\ s[1] = c /\ \A i \in 1..Len(a) : s[i + 1] = a[i]
              /\ Tail(s) = a
<1> DEFINE s == <<c>> \o a
           T == S \cup {c}
<1>1. <<c>> \in Seq(T) /\ a \in Seq(T) /\ Len(<<c>>) = 1 /\ Len(a) \in Nat
  BY SeqMonotonic, LenProperties
<1>2. s \in Seq(T) /\ Len(s) = Len(a) + 1
  BY <1>1, ConcatProperties
<1>3. s[1] = c /\ \A i \in 1..Len(a) : s[i + 1] = a[i]
  <2>1. \A i \in 1..(1 + Len(a)) : s[i] = IF i <= 1 THEN <<c>>[i] ELSE a[i - 1]
    BY <1>1, ConcatProperties
  <2>2. s[1] = c
    BY <1>1, <2>1
  <2>3. ASSUME NEW i \in 1..Len(a) PROVE s[i + 1] = a[i]
    <3>1. i + 1 \in 1..(1 + Len(a)) /\ ~(i + 1 <= 1) /\ (i + 1) - 1 = i
      BY <1>1
    <3> HIDE DEF s
    <3> QED  BY <2>1, <3>1
  <2> QED  BY <2>2, <2>3
<1> HIDE DEF s
<1>4. s # <<>>
  BY <1>1, <1>2
<1>5. Tail(s) = a
  <2>1. /\ Tail(s) \in Seq(T) /\ Len(Tail(s)) = Len(s) - 1
        /\ \A i \in 1..Len(Tail(s)) : Tail(s)[i] = s[i + 1]
    BY <1>2, <1>4, HeadTailProperties
  <2>2. Len(Tail(s)) = Len(a)
    BY <1>1, <1>2, <2>1
  <2>3. \A i \in 1..Len(Tail(s)) : Tail(s)[i] = a[i]
    BY <1>3, <2>1, <2>2
  <2> QED  BY <1>1, <2>1, <2>2, <2>3, SeqEqual
<1> QED  BY <1>1, <1>2, <1>3, <1>5 DEF s

LEMMA JoinTwo == ASSUME NEW a PROVE <<>> \o <<a>> = <<a>>
<1>1. <<a>> \in Seq({a})
  OBVIOUS
<1> QED  BY <1>1, ConcatEmptySeq

\* A trampoline passes a callback's arguments as the C types Rust declares.
LEMMA TokAgrees == ASSUME NEW tok \in CbToks PROVE trampoline_types(tok) = cb_ffi(tok)
<1>1. CASE tok \in ScalarNames
  BY <1>1 DEF trampoline_types, cb_ffi, scalar_cffi, ScalarNames
<1>2. CASE tok \in {"bool", ":string"}
  BY <1>2 DEF trampoline_types, cb_ffi, scalar_cffi
<1> QED  BY <1>1, <1>2, Names DEF CbToks

\* For every parameter the macro accepts, with callbacks of any number of
\* arguments, the wrapper passes the C types the shim declares.
LEMMA ParamAgrees ==
    ASSUME NEW pty \in PTys
    PROVE  call_args(render_ty(param_meta(pty))) = extern_params(pty)
<1>1. CASE pty \in Fixed
  <2>1. CASE pty = <<"Bool">>
    <3>1. render_ty(param_meta(pty)) = <<"bool">>
      BY <2>1 DEF param_meta, render_ty, render_inner
    <3> QED  BY <2>1, <3>1 DEF call_args, extern_params, scalar_cffi
  <2>2. CASE pty = <<"StrRef">>
    <3>1. render_ty(param_meta(pty)) = <<":string">>
      BY <2>2 DEF param_meta, render_ty, render_inner
    <3> QED  BY <2>2, <3>1 DEF call_args, extern_params
  <2>3. CASE pty = <<"BytesRef">>
    <3>1. render_ty(param_meta(pty)) = <<":bytes">>
      BY <2>3 DEF param_meta, render_ty, render_inner
    <3> QED  BY <2>3, <3>1 DEF call_args, extern_params
  <2>4. CASE pty = <<"OptionStr">>
    <3>1. param_meta(pty) = <<"Option", "Str">>
      BY <2>4 DEF param_meta
    <3>2. render_ty(param_meta(pty)) = <<":option", ":string">>
      BY <3>1, Join11 DEF render_ty, render_inner
    <3> QED  BY <2>4, <3>2 DEF call_args, extern_params
  <2>5. CASE pty = <<"OptionBytes">>
    <3>1. param_meta(pty) = <<"Option", "Bytes">>
      BY <2>5 DEF param_meta
    <3>2. render_ty(param_meta(pty)) = <<":option", ":bytes">>
      BY <3>1, Join11 DEF render_ty, render_inner
    <3> QED  BY <2>5, <3>2 DEF call_args, extern_params
  <2>6. CASE pty = <<"HandleRef", "WordBag">>
    <3>1. render_ty(param_meta(pty)) = <<":handle", "WordBag">>
      BY <2>6 DEF param_meta, render_ty, render_inner
    <3> QED  BY <2>6, <3>1 DEF call_args, extern_params
  <2> QED  BY <1>1, <2>1, <2>2, <2>3, <2>4, <2>5, <2>6 DEF Fixed
<1>2. ASSUME NEW s \in ScalarNames, pty = <<"Scalar", s>>
      PROVE  call_args(render_ty(param_meta(pty))) = extern_params(pty)
  <2>1. render_ty(param_meta(pty)) = <<s>>
    BY <1>2 DEF param_meta, render_ty, render_inner
  <2>2. s \notin {":string", ":bytes", ":option", ":vec", ":handle", ":callback",
                  ":stored-callback", "bool"}
    BY DEF ScalarNames
  <2>3. call_args(<<s>>) = <<<<s>>>>
    BY <2>2 DEF call_args, scalar_cffi
  <2>4. extern_params(pty) = <<<<s>>>>
    BY <1>2 DEF extern_params
  <2> QED  BY <2>1, <2>3, <2>4
<1>3. ASSUME NEW s \in ScalarNames, pty = <<"VecScalar", s>>
      PROVE  call_args(render_ty(param_meta(pty))) = extern_params(pty)
  <2>1. render_ty(param_meta(pty)) = <<":vec", s>>
    BY <1>3 DEF param_meta, render_ty, render_inner
  <2>2. call_args(<<":vec", s>>) = <<<<"ptr", s>>, <<"usize">>>>
    BY DEF call_args
  <2>3. extern_params(pty) = <<<<"ptr", s>>, <<"usize">>>>
    BY <1>3 DEF extern_params
  <2> QED  BY <2>1, <2>2, <2>3
<1>4. ASSUME NEW s \in ScalarNames, pty = <<"OptionScalar", s>>
      PROVE  call_args(render_ty(param_meta(pty))) = extern_params(pty)
  <2>1. param_meta(pty) = <<"Option", "Scalar", s>>
    BY <1>4 DEF param_meta
  <2>2. render_ty(param_meta(pty)) = <<":option", s>>
    BY <2>1, Join11 DEF render_ty, render_inner
  <2>3. s \notin {":string", ":bytes", "bool"}
    BY DEF ScalarNames
  <2>4. call_args(<<":option", s>>) = <<<<"u8">>, <<s>>>>
    BY <2>3 DEF call_args, scalar_cffi
  <2>5. extern_params(pty) = <<<<"u8">>, <<s>>>>
    BY <1>4 DEF extern_params
  <2> QED  BY <2>2, <2>4, <2>5
<1>5. ASSUME NEW c \in {"Callback", "StoredCallback"}, NEW a \in Seq(CbToks), pty = <<c>> \o a
      PROVE  call_args(render_ty(param_meta(pty))) = extern_params(pty)
  <2> DEFINE r == IF c = "Callback" THEN ":callback" ELSE ":stored-callback"
             ty == <<r>> \o a
             n == Len(a)
  <2>1. /\ Len(pty) = n + 1 /\ n \in Nat /\ pty[1] = c /\ Tail(pty) = a
        /\ \A i \in 1..n : pty[i + 1] = a[i]
    BY <1>5, Term
  <2>2. /\ Len(ty) = n + 1 /\ ty[1] = r /\ \A i \in 1..n : ty[i + 1] = a[i]
    BY Term
  <2>3. param_meta(pty) = pty
    BY <2>1 DEF param_meta
  <2>4. render_ty(pty) = ty
    BY <2>1 DEF render_ty, render_inner
  <2> HIDE DEF ty
  <2>5. \A i \in 1..n : trampoline_types(ty[i + 1]) = cb_ffi(pty[i + 1])
    BY <2>1, <2>2, ElementOfSeq, TokAgrees
  <2>6. [i \in 1..(Len(ty) - 1) |-> trampoline_types(ty[i + 1])]
            = [i \in 1..(Len(pty) - 1) |-> cb_ffi(pty[i + 1])]
    <3>1. Len(ty) - 1 = n /\ Len(pty) - 1 = n
      BY <2>1, <2>2
    <3> QED  BY <2>5, <3>1
  <2>7. call_args(ty) = <<FnPointer(FlattenSeq([i \in 1..(Len(ty) - 1) |->
                                trampoline_types(ty[i + 1])])), <<"u64">>>>
    BY <2>2 DEF call_args
  <2>8. extern_params(pty) = <<FnPointer(FlattenSeq([i \in 1..(Len(pty) - 1) |->
                                cb_ffi(pty[i + 1])])), <<"u64">>>>
    BY <2>1 DEF extern_params
  <2> QED  BY <2>3, <2>4, <2>6, <2>7, <2>8
<1> QED  BY <1>1, <1>2, <1>3, <1>4, <1>5, Names DEF PTys

\* The out-parameters of a result that is neither optional nor in a buffer.
LEMMA SingleOut ==
    ASSUME NEW ty, ty[1] # ":option", ~Buffered(Inner(ty)), ty[1] # ":unit"
    PROVE  /\ ty[1] = ":handle" => out_args(ty) = <<<<"ptr", "ptr">>>>
           /\ ty[1] # ":handle" => out_args(ty) = <<<<"ptr", scalar_cffi(Inner(ty)[1])>>>>
<1>1. out_args(ty) = <<>> \o (IF ty[1] = ":handle" THEN <<<<"ptr", "ptr">>>>
                             ELSE <<<<"ptr", scalar_cffi(Inner(ty)[1])>>>>)
  BY Zenon DEF out_args
<1>2. ty[1] = ":handle" => out_args(ty) = <<>> \o <<<<"ptr", "ptr">>>>
  BY <1>1, Zenon
<1>3. ty[1] # ":handle" => out_args(ty) = <<>> \o <<<<"ptr", scalar_cffi(Inner(ty)[1])>>>>
  BY <1>1, Zenon
<1> QED  BY <1>2, <1>3, JoinTwo

\* The same for results, with what the wrapper does of the result later: it
\* looks for a flag, a buffer or nothing exactly where the shim writes one.
LEMMA ResultAgrees ==
    ASSUME NEW rty \in RTys
    PROVE  LET ty == render_ty(result_meta(rty))
           IN /\ out_args(ty) = out_params(rty)
              /\ ty = <<":unit">> <=> rty = <<"Unit">>
              /\ ty[1] = ":option" <=> rty[1] \in {"OptionScalar", "OptionStr", "OptionBytes"}
              /\ Buffered(Inner(ty)) <=> HasBuffer(rty)
              /\ rty[1] = "VecScalar" => Inner(ty) = <<":vec", rty[2]>> /\ rty[2] \in Scalars
              /\ rty[1] # "VecScalar" => Inner(ty)[1] # ":vec"
              /\ ty # <<":option", "bool">>
              /\ ty[1] = ":handle" => ty[2] = "WordBag"
<1> DEFINE ty == render_ty(result_meta(rty))
           Goal == /\ out_args(ty) = out_params(rty)
                   /\ ty = <<":unit">> <=> rty = <<"Unit">>
                   /\ ty[1] = ":option" <=> rty[1] \in {"OptionScalar", "OptionStr", "OptionBytes"}
                   /\ Buffered(Inner(ty)) <=> HasBuffer(rty)
                   /\ rty[1] = "VecScalar" => Inner(ty) = <<":vec", rty[2]>> /\ rty[2] \in Scalars
                   /\ rty[1] # "VecScalar" => Inner(ty)[1] # ":vec"
                   /\ ty # <<":option", "bool">>
                   /\ ty[1] = ":handle" => ty[2] = "WordBag"
<1>0. \A s \in Scalars : s \notin {":string", ":bytes", ":vec", ":unit", ":option", ":handle", "bool"}
  BY Names DEF ScalarNames
<1>1. CASE rty = <<"Unit">>
  <2>1. ty = <<":unit">> /\ Inner(ty) = <<":unit">>
    BY <1>1 DEF result_meta, render_ty, render_inner, Inner
  <2>2. out_args(ty) = <<>> /\ out_params(rty) = <<>>
    BY <1>1, <2>1 DEF out_args, out_params, Buffered
  <2> QED  BY <1>1, <2>1, <2>2 DEF Buffered, HasBuffer
<1>2. CASE rty = <<"Bool">>
  <2>1. ty = <<"bool">> /\ Inner(ty) = <<"bool">>
    BY <1>2 DEF result_meta, render_ty, render_inner, Inner
  <2>2. ~Buffered(Inner(ty)) /\ scalar_cffi(Inner(ty)[1]) = "u8"
    BY <2>1 DEF Buffered, scalar_cffi
  <2>3. out_args(ty) = out_params(rty)
    BY <1>2, <2>1, <2>2, SingleOut DEF out_params
  <2> QED  BY <1>2, <2>1, <2>3 DEF Buffered, HasBuffer
<1>3. ASSUME NEW c \in {"Str", "Bytes"}, rty = <<c>> PROVE Goal
  <2> DEFINE r == IF c = "Str" THEN ":string" ELSE ":bytes"
  <2>1. ty = <<r>> /\ Inner(ty) = <<r>>
    BY <1>3 DEF result_meta, render_ty, render_inner, Inner
  <2>2. out_args(ty) = <<<<"ptr", "ptr">>, <<"ptr", "usize">>>>
    BY <2>1, ConcatEmptySeq DEF out_args, Buffered
  <2>3. out_params(rty) = <<<<"ptr", "ptr">>, <<"ptr", "usize">>>>
    BY <1>3 DEF out_params
  <2> QED  BY <1>3, <2>1, <2>2, <2>3 DEF Buffered, HasBuffer
<1>4. ASSUME NEW c \in {"OptionStr", "OptionBytes"}, rty = <<c>> PROVE Goal
  <2> DEFINE m == IF c = "OptionStr" THEN "Str" ELSE "Bytes"
             r == IF c = "OptionStr" THEN ":string" ELSE ":bytes"
  <2>1. result_meta(rty) = <<"Option", m>>
    BY <1>4 DEF result_meta
  <2>2. render_inner(<<m>>) = <<r>> /\ Tail(<<"Option", m>>) = <<m>>
    BY DEF render_inner
  <2>3. ty = <<":option", r>>
    BY <2>1, <2>2, Join11 DEF render_ty
  <2>4. Inner(ty) = <<r>>
    BY <2>3 DEF Inner
  <2>5. out_args(ty) = <<<<"ptr", "u8">>, <<"ptr", "ptr">>, <<"ptr", "usize">>>>
    BY <2>3, <2>4, Join12 DEF out_args, Buffered
  <2>6. out_params(rty) = <<<<"ptr", "u8">>, <<"ptr", "ptr">>, <<"ptr", "usize">>>>
    BY <1>4 DEF out_params
  <2>7. r \in {":string", ":bytes"}
    OBVIOUS
  <2> HIDE DEF r, ty
  <2> QED  BY <1>4, <2>3, <2>4, <2>5, <2>6, <2>7 DEF Buffered, HasBuffer
<1>5. CASE rty = <<"Handle", "WordBag">>
  <2>1. ty = <<":handle", "WordBag">> /\ Inner(ty) = <<":handle", "WordBag">>
    BY <1>5 DEF result_meta, render_ty, render_inner, Inner
  <2>2. ~Buffered(Inner(ty))
    BY <2>1 DEF Buffered
  <2>3. out_args(ty) = out_params(rty)
    BY <1>5, <2>1, <2>2, SingleOut DEF out_params
  <2> QED  BY <1>5, <2>1, <2>3 DEF Buffered, HasBuffer
<1>6. ASSUME NEW s \in Scalars, rty = <<"Scalar", s>> PROVE Goal
  <2>1. ty = <<s>>
    BY <1>6 DEF result_meta, render_ty, render_inner
  <2>2. Inner(ty) = <<s>>
    BY <1>0, <2>1 DEF Inner
  <2>3. ~Buffered(Inner(ty)) /\ scalar_cffi(Inner(ty)[1]) = s
    BY <1>0, <2>2 DEF Buffered, scalar_cffi
  <2>4. out_params(rty) = <<<<"ptr", s>>>>
    BY <1>6 DEF out_params
  <2>5. out_args(ty) = out_params(rty)
    BY <1>0, <2>1, <2>3, <2>4, SingleOut
  <2> HIDE DEF ty
  <2> QED  BY <1>0, <1>6, <2>1, <2>2, <2>5 DEF Buffered, HasBuffer
<1>7. ASSUME NEW s \in Scalars, rty = <<"VecScalar", s>> PROVE Goal
  <2>1. ty = <<":vec", s>> /\ Inner(ty) = <<":vec", s>>
    BY <1>7 DEF result_meta, render_ty, render_inner, Inner
  <2>2. out_args(ty) = <<<<"ptr", "ptr">>, <<"ptr", "usize">>>>
    BY <2>1, ConcatEmptySeq DEF out_args, Buffered
  <2>3. out_params(rty) = <<<<"ptr", "ptr">>, <<"ptr", "usize">>>>
    BY <1>7 DEF out_params
  <2> HIDE DEF ty
  <2> QED  BY <1>0, <1>7, <2>1, <2>2, <2>3 DEF Buffered, HasBuffer
<1>8. ASSUME NEW s \in Scalars, rty = <<"OptionScalar", s>> PROVE Goal
  <2>1. result_meta(rty) = <<"Option", "Scalar", s>>
    BY <1>8 DEF result_meta
  <2>2. ty = <<":option", s>>
    BY <2>1, Join11 DEF render_ty, render_inner
  <2>3. Inner(ty) = <<s>>
    BY <2>2 DEF Inner
  <2>4. out_args(ty) = <<<<"ptr", "u8">>, <<"ptr", s>>>>
    BY <1>0, <2>2, <2>3, Join11 DEF out_args, Buffered, scalar_cffi
  <2>5. out_params(rty) = <<<<"ptr", "u8">>, <<"ptr", s>>>>
    BY <1>8 DEF out_params
  <2> HIDE DEF ty
  <2> QED  BY <1>0, <1>8, <2>2, <2>3, <2>4, <2>5 DEF Buffered, HasBuffer
<1> QED  BY <1>1, <1>2, <1>3, <1>4, <1>5, <1>6, <1>7, <1>8 DEF RTys, RFixed

\* The rendered parameters the loader might refuse, and where they come from.
LEMMA ParamRendered ==
    ASSUME NEW pty \in PTys
    PROVE  LET ty == render_ty(param_meta(pty))
           IN /\ ty # <<":option", "bool">>
              /\ ty[1] = ":handle" => ty[2] = "WordBag"
              /\ ty[1] = ":callback" <=> pty[1] = "Callback"
<1> DEFINE ty == render_ty(param_meta(pty))
           Goal == /\ ty # <<":option", "bool">>
                   /\ ty[1] = ":handle" => ty[2] = "WordBag"
                   /\ ty[1] = ":callback" <=> pty[1] = "Callback"
<1> SUFFICES Goal
  OBVIOUS
<1>0. \A s \in Scalars : s \notin {":handle", ":callback", ":option", "bool"}
  BY Names DEF ScalarNames
<1>1. CASE pty \in {<<"Bool">>, <<"StrRef">>, <<"BytesRef">>, <<"HandleRef", "WordBag">>}
  <2>1. CASE pty = <<"Bool">>
    BY <2>1 DEF param_meta, render_ty, render_inner
  <2>2. CASE pty = <<"StrRef">>
    BY <2>2 DEF param_meta, render_ty, render_inner
  <2>3. CASE pty = <<"BytesRef">>
    BY <2>3 DEF param_meta, render_ty, render_inner
  <2>4. CASE pty = <<"HandleRef", "WordBag">>
    BY <2>4 DEF param_meta, render_ty, render_inner
  <2> QED  BY <1>1, <2>1, <2>2, <2>3, <2>4
<1>2. CASE pty \in {<<"OptionStr">>, <<"OptionBytes">>}
  <2>1. param_meta(pty) \in {<<"Option", "Str">>, <<"Option", "Bytes">>} /\ pty[1] # "Callback"
    BY <1>2 DEF param_meta
  <2>2. ty \in {<<":option", ":string">>, <<":option", ":bytes">>}
    BY <2>1, Join11 DEF render_ty, render_inner
  <2> HIDE DEF ty
  <2> QED  BY <2>1, <2>2
<1>3. ASSUME NEW s \in Scalars, pty = <<"Scalar", s>> PROVE Goal
  <2>1. ty = <<s>>
    BY <1>3 DEF param_meta, render_ty, render_inner
  <2> HIDE DEF ty
  <2> QED  BY <1>0, <1>3, <2>1
<1>6. ASSUME NEW s \in Scalars, pty = <<"VecScalar", s>> PROVE Goal
  <2>1. ty = <<":vec", s>>
    BY <1>6 DEF param_meta, render_ty, render_inner
  <2> HIDE DEF ty
  <2> QED  BY <1>0, <1>6, <2>1
<1>4. ASSUME NEW s \in Scalars, pty = <<"OptionScalar", s>> PROVE Goal
  <2>1. param_meta(pty) = <<"Option", "Scalar", s>>
    BY <1>4 DEF param_meta
  <2>2. ty = <<":option", s>>
    BY <2>1, Join11 DEF render_ty, render_inner
  <2> HIDE DEF ty
  <2> QED  BY <1>0, <1>4, <2>2
<1>5. ASSUME NEW c \in {"Callback", "StoredCallback"}, NEW a \in Seq(CbToks), pty = <<c>> \o a
      PROVE  Goal
  <2> DEFINE r == IF c = "Callback" THEN ":callback" ELSE ":stored-callback"
  <2>1. pty[1] = c /\ Tail(pty) = a
    BY <1>5, Term
  <2>2. param_meta(pty) = pty
    BY <2>1 DEF param_meta
  <2>3. ty = <<r>> \o a
    BY <2>1, <2>2 DEF render_ty, render_inner
  <2>4. (<<r>> \o a)[1] = r /\ r \in {":callback", ":stored-callback"}
    BY Term
  <2>5. ty[1] = r
    BY <2>3, <2>4
  <2>6. r = ":callback" <=> c = "Callback"
    OBVIOUS
  <2> HIDE DEF ty, r
  <2> QED  BY <2>1, <2>4, <2>5, <2>6
<1> QED  BY <1>1, <1>2, <1>3, <1>4, <1>5, <1>6 DEF PTys, Fixed

-----------------------------------------------------------------------------
(* Classification ends in these types or refuses.                          *)

LEMMA CallbackClassified ==
    ASSUME NEW ty, Len(ty) \in Nat, Len(ty) >= 2, ty[1] \in {"Callback", "StoredCallback"}
    PROVE  classify_callback(ty) \in PTys \cup {Unsupported}
<1> DEFINE n == Len(ty) - 2
           a == [i \in 1..n |-> CallbackTok(ty[i + 2])]
<1>1. CASE ~(ty[2] = "()" /\ \A i \in 3..Len(ty) : ty[i] \in Scalars \cup {"bool", "&str"})
  BY <1>1 DEF classify_callback
<1>2. CASE ty[2] = "()" /\ \A i \in 3..Len(ty) : ty[i] \in Scalars \cup {"bool", "&str"}
  <2>1. classify_callback(ty) = <<ty[1]>> \o a
    BY <1>2 DEF classify_callback
  <2>2. n \in Nat
    OBVIOUS
  <2>3. \A i \in 1..n : CallbackTok(ty[i + 2]) \in CbToks
    <3> SUFFICES ASSUME NEW i \in 1..n PROVE CallbackTok(ty[i + 2]) \in CbToks
      OBVIOUS
    <3>1. i + 2 \in 3..Len(ty)
      BY <2>2
    <3>2. ty[i + 2] \in Scalars \cup {"bool", "&str"}
      BY <1>2, <3>1
    <3> QED  BY <3>2 DEF CallbackTok, CbToks
  <2>4. a \in [1..n -> CbToks]
    BY <2>3
  <2>5. a \in Seq(CbToks)
    <3> HIDE DEF a, n
    <3> QED  BY <2>2, <2>4, SeqDef
  <2>6. \A c \in {"Callback", "StoredCallback"}, b \in Seq(CbToks) : <<c>> \o b \in PTys
    BY DEF PTys
  <2> HIDE DEF a
  <2> QED  BY <2>1, <2>5, <2>6
<1> QED  BY <1>1, <1>2

LEMMA PlainClassified ==
    ASSUME NEW t \in Plain
    PROVE  /\ t \in Seq(ScalarNames \cup {"bool", "&str", "&[]"})
           /\ t[1] # "Option" /\ t # <<"&self">>
           /\ classify_plain(t) \in PTys
           /\ OptionOf(classify_plain(t)) \in PTys \cup {Unsupported}
<1>0. \A s \in Scalars : s \in ScalarNames /\ s \notin {"bool", "&str", "&[]", "&", "&self", "Option",
                                                       "Callback", "StoredCallback"}
  BY Names DEF ScalarNames
<1>1. ASSUME NEW s \in Scalars, t = <<s>>
      PROVE  /\ t \in Seq(ScalarNames \cup {"bool", "&str", "&[]"})
             /\ t[1] # "Option" /\ t # <<"&self">>
             /\ classify_plain(t) \in PTys
             /\ OptionOf(classify_plain(t)) \in PTys \cup {Unsupported}
  <2>1. classify_plain(t) = <<"Scalar", s>>
    BY <1>0, <1>1 DEF classify_plain
  <2>2. OptionOf(<<"Scalar", s>>) = <<"OptionScalar", s>>
    BY DEF OptionOf
  <2> QED  BY <1>0, <1>1, <2>1, <2>2 DEF PTys
<1>2. CASE t = <<"bool">>
  <2>1. classify_plain(t) = <<"Bool">>
    BY <1>0, <1>2 DEF classify_plain
  <2>2. OptionOf(<<"Bool">>) = Unsupported
    BY DEF OptionOf
  <2> QED  BY <1>2, <2>1, <2>2 DEF PTys, Fixed
<1>3. CASE t = <<"&str">>
  <2>1. classify_plain(t) = <<"StrRef">>
    BY <1>0, <1>3 DEF classify_plain
  <2>2. OptionOf(<<"StrRef">>) = <<"OptionStr">>
    BY DEF OptionOf
  <2> QED  BY <1>3, <2>1, <2>2 DEF PTys, Fixed
<1>4. CASE t = <<"&[]", "u8">>
  <2>1. classify_plain(t) = <<"BytesRef">>
    BY <1>0, <1>4 DEF classify_plain
  <2>2. OptionOf(<<"BytesRef">>) = <<"OptionBytes">>
    BY DEF OptionOf
  <2>3. "u8" \in ScalarNames
    BY DEF ScalarNames
  <2> QED  BY <1>4, <2>1, <2>2, <2>3 DEF PTys, Fixed
<1>5. ASSUME NEW s \in Scalars, t = <<"&[]", s>>, s # "u8"
      PROVE  /\ t \in Seq(ScalarNames \cup {"bool", "&str", "&[]"})
             /\ t[1] # "Option" /\ t # <<"&self">>
             /\ classify_plain(t) \in PTys
             /\ OptionOf(classify_plain(t)) \in PTys \cup {Unsupported}
  <2>1. classify_plain(t) = <<"VecScalar", s>>
    BY <1>0, <1>5 DEF classify_plain
  <2>2. OptionOf(<<"VecScalar", s>>) = Unsupported
    BY DEF OptionOf
  <2>3. t \in Seq(ScalarNames \cup {"bool", "&str", "&[]"})
    BY <1>0, <1>5
  <2>4. <<"VecScalar", s>> \in PTys
    BY DEF PTys
  <2>5. t[1] # "Option" /\ t # <<"&self">>
    BY <1>5
  <2> QED  BY <2>1, <2>2, <2>3, <2>4, <2>5
<1> QED  BY <1>1, <1>2, <1>3, <1>4, <1>5 DEF Plain

\* Every parameter an author may write becomes one of the types or is refused.
LEMMA ParamClassified ==
    ASSUME NEW ty \in RustParams \cup Receivers
    PROVE  classify_param(ty) \in PTys \cup {Unsupported}
<1>0. \A s \in Scalars : s \notin {"&", "&mut", "&'static", "String", "Callback",
                                   "StoredCallback", "&self", "&mut self", "self"}
  BY Names DEF ScalarNames
<1>1. CASE ty \in Plain
  BY <1>1, PlainClassified DEF classify_param
<1>2. ASSUME NEW t \in Plain, ty = <<"Option">> \o t
      PROVE  classify_param(ty) \in PTys \cup {Unsupported}
  <2>1. ty[1] = "Option" /\ Tail(ty) = t
    BY <1>2, PlainClassified, Term
  <2> QED  BY <2>1, PlainClassified DEF classify_param
<1>3. CASE ty = <<"&", "WordBag">>
  <2>1. classify_param(ty) = <<"HandleRef", "WordBag">>
    BY <1>0, <1>3 DEF classify_param, classify_plain
  <2> QED  BY <2>1 DEF PTys, Fixed
<1>4. CASE ty \in {<<"&mut", "WordBag">>, <<"&'static", "str">>, <<"String">>,
                   <<"&mut self">>, <<"self">>}
  <2> DEFINE Refused == ty[1] \in {"&mut", "&'static", "String", "&mut self", "self"} /\ ty # <<"&self">>
  <2>1. Refused
    <3>1. CASE ty = <<"&mut", "WordBag">>
      BY <3>1
    <3>2. CASE ty = <<"&'static", "str">>
      BY <3>2
    <3>3. CASE ty = <<"String">>
      BY <3>3
    <3>4. CASE ty = <<"&mut self">>
      BY <3>4
    <3>5. CASE ty = <<"self">>
      BY <3>5
    <3> QED  BY <1>4, <3>1, <3>2, <3>3, <3>4, <3>5
  <2>2. classify_plain(ty) = Unsupported
    BY <1>0, <2>1 DEF classify_plain
  <2> QED  BY <2>1, <2>2 DEF classify_param
<1>5. CASE ty = <<"&self">>
  <2>1. classify_param(ty) = <<"HandleRef", "WordBag">>
    BY <1>5 DEF classify_param
  <2> QED  BY <2>1 DEF PTys, Fixed
<1>6. CASE ty \in {<<"Callback", "()", "&str", "bool">>, <<"Callback", "()">>,
                   <<"Callback", "i64", "bool">>, <<"Callback", "()", "&WordBag">>,
                   <<"StoredCallback", "()", "bool", "&str">>}
  <2>1. Len(ty) \in Nat /\ Len(ty) >= 2 /\ ty[1] \in {"Callback", "StoredCallback"}
    BY <1>6
  <2>2. classify_plain(ty) = classify_callback(ty)
    BY <1>0, <2>1 DEF classify_plain
  <2>3. classify_param(ty) = classify_callback(ty)
    BY <2>1, <2>2 DEF classify_param
  <2> QED  BY <2>1, <2>3, CallbackClassified
<1> QED  BY <1>1, <1>2, <1>3, <1>4, <1>5, <1>6 DEF RustParams, Receivers

\* The same for results.
LEMMA ResultClassified ==
    ASSUME NEW ty \in RustResults, NEW ctor \in BOOLEAN
    PROVE  classify_result(ty, ctor) \in RTys \cup {Unsupported}
<1>0. \A s \in Scalars : s \in ScalarNames
            /\ s \notin {"()", "bool", "String", "Vec", "WordBag", "Option"}
  BY Names DEF ScalarNames
<1>1. ASSUME NEW t \in PlainResults, NEW c \in BOOLEAN
      PROVE  /\ t \in Seq(ScalarNames \cup {"bool", "String", "Vec", "WordBag"})
             /\ t[1] # "Option"
             /\ classify_plain_result(t, c) \in RTys \cup {Unsupported}
             /\ OptionOf(classify_plain_result(t, c)) \in RTys \cup {Unsupported}
  <2> DEFINE Goal == /\ t \in Seq(ScalarNames \cup {"bool", "String", "Vec", "WordBag"})
                     /\ t[1] # "Option"
                     /\ classify_plain_result(t, c) \in RTys \cup {Unsupported}
                     /\ OptionOf(classify_plain_result(t, c)) \in RTys \cup {Unsupported}
  <2>1. ASSUME NEW s \in Scalars, t = <<s>> PROVE Goal
    <3>1. classify_plain_result(t, c) = <<"Scalar", s>>
      BY <1>0, <2>1 DEF classify_plain_result
    <3>2. OptionOf(<<"Scalar", s>>) = <<"OptionScalar", s>>
      BY DEF OptionOf
    <3> QED  BY <1>0, <2>1, <3>1, <3>2 DEF RTys
  <2>2. CASE t = <<"bool">>
    <3>1. classify_plain_result(t, c) = <<"Bool">>
      BY <1>0, <2>2 DEF classify_plain_result
    <3>2. OptionOf(<<"Bool">>) = Unsupported
      BY DEF OptionOf
    <3> QED  BY <2>2, <3>1, <3>2 DEF RTys, RFixed
  <2>3. CASE t = <<"String">>
    <3>1. classify_plain_result(t, c) = <<"Str">>
      BY <1>0, <2>3 DEF classify_plain_result
    <3>2. OptionOf(<<"Str">>) = <<"OptionStr">>
      BY DEF OptionOf
    <3> QED  BY <2>3, <3>1, <3>2 DEF RTys, RFixed
  <2>4. CASE t = <<"Vec", "u8">>
    <3>1. classify_plain_result(t, c) = <<"Bytes">>
      BY <1>0, <2>4 DEF classify_plain_result
    <3>2. OptionOf(<<"Bytes">>) = <<"OptionBytes">>
      BY DEF OptionOf
    <3>3. "u8" \in ScalarNames
      BY DEF ScalarNames
    <3> QED  BY <2>4, <3>1, <3>2, <3>3 DEF RTys, RFixed
  <2>5. ASSUME NEW s \in Scalars, t = <<"Vec", s>>, s # "u8" PROVE Goal
    <3>1. classify_plain_result(t, c) = <<"VecScalar", s>>
      BY <1>0, <2>5 DEF classify_plain_result
    <3>2. OptionOf(<<"VecScalar", s>>) = Unsupported
      BY DEF OptionOf
    <3> QED  BY <1>0, <2>5, <3>1, <3>2 DEF RTys
  <2>6. CASE t = <<"WordBag">>
    <3>1. classify_plain_result(t, c) = IF c THEN <<"Handle", "WordBag">> ELSE Unsupported
      BY <1>0, <2>6 DEF classify_plain_result
    <3>2. /\ OptionOf(<<"Handle", "WordBag">>) = Unsupported
          /\ OptionOf(Unsupported) = Unsupported
      BY DEF OptionOf, Unsupported
    <3> QED  BY <2>6, <3>1, <3>2 DEF RTys, RFixed
  <2> QED  BY <2>1, <2>2, <2>3, <2>4, <2>5, <2>6 DEF PlainResults
<1>2. CASE ty \in PlainResults
  BY <1>1, <1>2 DEF classify_result
<1>3. CASE ty = <<"()">>
  <2>1. classify_result(ty, ctor) = <<"Unit">>
    BY <1>0, <1>3 DEF classify_result, classify_plain_result
  <2> QED  BY <2>1 DEF RTys, RFixed
<1>4. ASSUME NEW t \in PlainResults, ty = <<"Option">> \o t
      PROVE  classify_result(ty, ctor) \in RTys \cup {Unsupported}
  <2>1. ty[1] = "Option" /\ Tail(ty) = t
    BY <1>1, <1>4, Term
  <2> QED  BY <1>1, <2>1 DEF classify_result
<1> QED  BY <1>2, <1>3, <1>4 DEF RustResults

-----------------------------------------------------------------------------
(* The inductive invariant.                                                *)

Built == {"compiled", "unloadable", "loaded"}
Slots == {"some_out", "out_ptr", "out_len", "out"}

TextOK ==
    /\ stage \in {"writing", "refused", "compiled", "unloadable", "loaded"}
    /\ text \in Seq(RustParams \cup Receivers) /\ Len(text) <= MaxParams

\* The manifest is the image of the function, parameter by parameter.
Compiled ==
    stage \in Built =>
        /\ shim.params \in Seq(PTys) /\ shim.result \in RTys
        /\ shim.signature = FlattenSeq([i \in 1..Len(shim.params) |-> extern_params(shim.params[i])])
                                \o out_params(shim.result)
        /\ manifest.params = [i \in 1..Len(shim.params) |-> render_ty(param_meta(shim.params[i]))]
        /\ manifest.result = render_ty(result_meta(shim.result))
        /\ manifest.handles \subseteq {"WordBag"}
        /\ manifest.on_dump => shim.params = <<>>

CountsOK ==
    /\ gen \in Generations
    /\ LIVE_ALLOCATIONS \in [Generations -> Nat] /\ lost \in [Generations -> 0..MaxLost]

Buffers == [gen : 0..MaxGeneration, size : Nat, align : Nat]
Calls == [pc : {"idle", "shim", "returned", "copied", "done"}, gen : 0..MaxGeneration,
          status : 0..4, some : BOOLEAN, len : 0..MaxLen,
          wrote : SUBSET Slots, read : SUBSET Slots, buffer : Buffers]

\* What a call that has returned without an error holds.
Holds(c) ==
    /\ c.wrote = write_ok(c.some) /\ (~c.some => Optional)
    /\ c.buffer = IF HasBuffer(shim.result) /\ c.some
                  THEN into_raw(c.gen, shim.result, c.len) ELSE NoBuffer

InCall ==
    /\ call.pc = "idle" => call = Idle
    /\ call.pc # "idle" => stage = "loaded" /\ call.gen \in Generations
    /\ call.pc = "shim" => call.wrote = {} /\ call.status = 0 /\ call.buffer = NoBuffer
    /\ call.pc \in {"shim", "returned"} => call.read = {}
    /\ call.pc = "returned" /\ call.status # 0 => call.buffer = NoBuffer
    /\ call.pc = "returned" /\ call.status = 0 => Holds(call)
    /\ call.pc \in {"copied", "done"} =>
            Holds(call) /\ call.read = reads /\ (call.pc = "copied" <=> "out_ptr" \in reads)

Inv == TextOK /\ Compiled /\ SidesAgree /\ CountsOK /\ call \in Calls /\ InCall /\ NothingLeaks

-----------------------------------------------------------------------------

LEMMA Constants ==
    /\ MaxParams \in Nat /\ MaxLen \in Nat /\ MaxLost \in Nat
    /\ MaxGeneration \in Nat /\ 1 \in Generations
    /\ \A g \in Generations : g \in 0..MaxGeneration /\ g # 0
  BY BoundaryAssumption DEF Generations

LEMMA IdleFacts ==
    /\ Idle \in Calls /\ Idle.pc = "idle" /\ Idle.buffer = NoBuffer /\ NoBuffer.gen = 0
    /\ Idle.read = {} /\ Idle.wrote = {} /\ Idle.status = 0 /\ Idle.len = 0
    /\ NoBuffer \in Buffers
<1>1. NoBuffer \in Buffers /\ NoBuffer.gen = 0
  BY Constants DEF NoBuffer, Buffers
<1>2. Idle \in Calls
  BY <1>1, Constants DEF Idle, Calls, Slots
<1> QED  BY <1>1, <1>2 DEF Idle

LEMMA InitInv == Init => Inv
<1> SUFFICES ASSUME Init PROVE Inv
  OBVIOUS
<1>1. TextOK
  BY Constants, EmptySeq DEF Init, TextOK
<1>2. Compiled /\ SidesAgree
  BY DEF Init, Compiled, SidesAgree, Built
<1>3. CountsOK
  BY Constants DEF Init, CountsOK
<1>4. call \in Calls /\ InCall
  BY IdleFacts DEF Init, InCall
<1>5. NothingLeaks
  BY IdleFacts, Constants DEF Init, NothingLeaks
<1> QED  BY <1>1, <1>2, <1>3, <1>4, <1>5 DEF Inv

-----------------------------------------------------------------------------
(* Building and loading.                                                   *)

\* No call is in progress before the crate is loaded.
LEMMA BuildKeeps ==
    ASSUME Inv, stage # "loaded", UNCHANGED calls, TextOK', Compiled', SidesAgree'
    PROVE  Inv'
<1>1. call.pc = "idle" /\ UNCHANGED <<gen, LIVE_ALLOCATIONS, lost, call>>
  BY DEF Inv, InCall, calls
<1>2. InCall'
  BY <1>1 DEF Inv, InCall
<1>3. CountsOK' /\ NothingLeaks'
  BY <1>1 DEF Inv, CountsOK, NothingLeaks
<1> QED  BY <1>1, <1>2, <1>3 DEF Inv

LEMMA WriteParamKeeps ==
    ASSUME Inv, NEW ty \in RustParams \cup Receivers, WriteParam(ty)
    PROVE  Inv'
<1>1. /\ stage = "writing" /\ Len(text) < MaxParams /\ text' = Append(text, ty)
      /\ UNCHANGED <<stage, shim, manifest, wrapper, calls>>
  BY DEF WriteParam
<1>2. TextOK'
  <2>1. text \in Seq(RustParams \cup Receivers) /\ Len(text) \in Nat
    BY LenProperties DEF Inv, TextOK
  <2>2. text' \in Seq(RustParams \cup Receivers) /\ Len(text') = Len(text) + 1
    BY <1>1, <2>1, AppendProperties
  <2>3. Len(text') <= MaxParams
    BY <1>1, <2>1, <2>2, Constants
  <2> QED  BY <1>1, <2>2, <2>3 DEF TextOK
<1>3. Compiled' /\ SidesAgree'
  BY <1>1 DEF Compiled, SidesAgree, Built
<1> QED  BY <1>1, <1>2, <1>3, BuildKeeps

LEMMA EmptiedText ==
    ASSUME text' = <<>>, stage' \in {"refused", "compiled"}
    PROVE  TextOK'
  BY EmptySeq, Constants DEF TextOK

LEMMA ExportRefusedKeeps ==
    ASSUME Inv, NEW kind, NEW result, NEW on_dump, ExportRefused(kind, result, on_dump)
    PROVE  Inv'
<1>1. /\ stage = "writing" /\ stage' = "refused" /\ text' = <<>> /\ UNCHANGED calls
  BY DEF ExportRefused
<1>2. Compiled' /\ SidesAgree'
  BY <1>1 DEF Compiled, SidesAgree, Built
<1> QED  BY <1>1, <1>2, EmptiedText, BuildKeeps

LEMMA ExportKeeps ==
    ASSUME Inv, NEW kind \in {"free", "method", "ctor"}, NEW result \in RustResults,
           NEW error \in BOOLEAN, NEW on_dump \in BOOLEAN, NEW handles \in SUBSET {"WordBag"},
           Export(kind, result, error, on_dump, handles)
    PROVE  Inv'
<1> DEFINE f == gen_fn(result, kind = "ctor", error)
           m == render_manifest(f, on_dump, handles)
           ps == [i \in 1..Len(text) |-> classify_param(text[i])]
           res == classify_result(result, kind = "ctor")
<1>1. /\ stage = "writing" /\ stage' = "compiled" /\ text' = <<>> /\ UNCHANGED calls
      /\ Exportable(kind, result) /\ (on_dump => text = <<>>)
      /\ shim' = f /\ manifest' = m
  BY DEF Export, on_dump_guard
<1>2. /\ ps \in Seq(PTys) /\ Len(ps) = Len(text) /\ (on_dump => ps = <<>>)
  <2>1. text \in Seq(RustParams \cup Receivers) /\ Len(text) \in Nat
    BY LenProperties DEF Inv, TextOK
  <2>2. \A i \in 1..Len(text) : classify_param(text[i]) \in PTys
    BY <1>1, <2>1, ElementOfSeq, ParamClassified DEF Exportable
  <2>3. ps \in [1..Len(text) -> PTys]
    BY <2>2
  <2>4. ps \in Seq(PTys) /\ Len(ps) = Len(text)
    <3> DEFINE n == Len(text)
    <3>1. ps \in [1..n -> PTys] /\ n \in Nat
      BY <2>1, <2>3
    <3> HIDE DEF ps, n
    <3>2. ps \in Seq(PTys)
      BY <3>1, SeqDef
    <3>3. Len(ps) = n
      BY <3>1, <3>2
    <3> QED  BY <3>2, <3>3 DEF n
  <2>5. on_dump => ps = <<>>
    <3> SUFFICES ASSUME on_dump PROVE ps = <<>>
      OBVIOUS
    <3>1. Len(text) = 0
      BY <1>1
    <3> HIDE DEF ps
    <3> QED  BY <2>4, <3>1, EmptySeq
  <2> QED  BY <2>4, <2>5
<1>3. res \in RTys
  BY <1>1, ResultClassified DEF Exportable
<1>4. /\ f.params = ps /\ f.result = res
      /\ f.signature = FlattenSeq([i \in 1..Len(ps) |-> extern_params(ps[i])]) \o out_params(res)
  BY DEF gen_fn
<1> HIDE DEF ps, res, f
<1>5. /\ m.params = [i \in 1..Len(ps) |-> render_ty(param_meta(ps[i]))]
      /\ m.result = render_ty(result_meta(res))
      /\ m.on_dump = on_dump /\ m.handles = handles
  BY <1>4 DEF render_manifest
<1> HIDE DEF m
<1>6. Compiled'
  BY <1>1, <1>2, <1>3, <1>4, <1>5 DEF Compiled
<1>7. SidesAgree'
  BY <1>1 DEF SidesAgree
<1> QED  BY <1>1, <1>6, <1>7, EmptiedText, BuildKeeps

\* The wrapper's signature, derived from the manifest, is the shim's.
LEMMA LoadKeeps == ASSUME Inv, Load PROVE Inv'
<1> DEFINE ps == shim.params
           n == Len(shim.params)
<1>1. /\ stage = "compiled" /\ stage' = "loaded" /\ Loadable
      /\ wrapper' = FlattenSeq([i \in 1..Len(manifest.params) |-> call_args(manifest.params[i])])
                        \o out_args(manifest.result)
      /\ UNCHANGED <<text, shim, manifest, calls>>
  BY DEF Load
<1>2. /\ ps \in Seq(PTys) /\ shim.result \in RTys /\ n \in Nat
      /\ shim.signature = FlattenSeq([i \in 1..n |-> extern_params(ps[i])]) \o out_params(shim.result)
      /\ manifest.params = [i \in 1..n |-> render_ty(param_meta(ps[i]))]
      /\ manifest.result = render_ty(result_meta(shim.result))
      /\ manifest.on_dump => ps = <<>>
  BY <1>1, LenProperties DEF Inv, Compiled, Built
<1>3. out_args(manifest.result) = out_params(shim.result)
  BY <1>2, ResultAgrees
<1>4. Len(manifest.params) = n /\ \A i \in 1..n : manifest.params[i] = render_ty(param_meta(ps[i]))
  BY <1>2
<1>5. \A i \in 1..n : call_args(manifest.params[i]) = extern_params(ps[i])
  BY <1>2, <1>4, ElementOfSeq, ParamAgrees
<1>6. [i \in 1..Len(manifest.params) |-> call_args(manifest.params[i])]
        = [i \in 1..n |-> extern_params(ps[i])]
  BY <1>4, <1>5
<1>7. wrapper' = shim.signature
  BY <1>1, <1>2, <1>3, <1>6
<1>8. manifest.on_dump => shim.signature = <<>>
  <2> SUFFICES ASSUME manifest.on_dump PROVE shim.signature = <<>>
    OBVIOUS
  <2>1. ps = <<>> /\ n = 0 /\ shim.result = <<"Unit">>
    BY <1>1, <1>2, ResultAgrees DEF Loadable
  <2>2. out_params(shim.result) = <<>>
    BY <2>1 DEF out_params
  <2>3. [i \in 1..n |-> extern_params(ps[i])] = <<>>
    BY <2>1
  <2>4. FlattenSeq(<<>>) = <<>>
    BY DEF FlattenSeq
  <2>5. <<>> \o <<>> = <<>>
    BY EmptySeq, ConcatEmptySeq
  <2> QED  BY <1>2, <2>2, <2>3, <2>4, <2>5
<1>9. TextOK' /\ Compiled'
  BY <1>1 DEF Inv, TextOK, Compiled, Built
<1>10. SidesAgree'
  BY <1>1, <1>7, <1>8 DEF SidesAgree
<1> QED  BY <1>1, <1>9, <1>10, BuildKeeps

\* What compiles and does not load.
LEMMA LoadRefusedKeeps == ASSUME Inv, LoadRefused PROVE Inv'
<1> DEFINE ps == shim.params
           n == Len(shim.params)
<1>1. /\ stage = "compiled" /\ stage' = "unloadable" /\ ~Loadable
      /\ UNCHANGED <<text, shim, manifest, wrapper, calls>>
  BY DEF LoadRefused
<1>2. /\ ps \in Seq(PTys) /\ shim.result \in RTys /\ n \in Nat
      /\ manifest.params = [i \in 1..n |-> render_ty(param_meta(ps[i]))]
      /\ manifest.result = render_ty(result_meta(shim.result))
      /\ manifest.handles \subseteq {"WordBag"}
      /\ manifest.on_dump => ps = <<>>
  BY <1>1, LenProperties DEF Inv, Compiled, Built
<1>3. Len(manifest.params) = n /\ \A i \in 1..n : manifest.params[i] = render_ty(param_meta(ps[i]))
  BY <1>2
<1>4. \A i \in 1..n : /\ manifest.params[i] # <<":option", "bool">>
                      /\ manifest.params[i][1] = ":handle" => manifest.params[i][2] = "WordBag"
                      /\ manifest.params[i][1] = ":callback" <=> ps[i][1] = "Callback"
  <2> SUFFICES ASSUME NEW i \in 1..n
               PROVE  /\ manifest.params[i] # <<":option", "bool">>
                      /\ manifest.params[i][1] = ":handle" => manifest.params[i][2] = "WordBag"
                      /\ manifest.params[i][1] = ":callback" <=> ps[i][1] = "Callback"
    OBVIOUS
  <2>1. ps[i] \in PTys
    BY <1>2, ElementOfSeq
  <2>2. manifest.params[i] = render_ty(param_meta(ps[i]))
    BY <1>3
  <2> QED  BY <2>1, <2>2, ParamRendered
<1>5. /\ manifest.result # <<":option", "bool">>
      /\ manifest.result[1] = ":handle" => manifest.result[2] = "WordBag"
      /\ manifest.result = <<":unit">> <=> shim.result = <<"Unit">>
  BY <1>2, ResultAgrees
<1>6. <<":option", "bool">> \notin Types(manifest)
  BY <1>3, <1>4, <1>5 DEF Types
<1>7. \A ty \in Types(manifest) : ty[1] = ":handle" => ty[2] = "WordBag"
  BY <1>3, <1>4, <1>5 DEF Types
<1>8. \/ \E i, j \in 1..n : i # j /\ ps[i][1] = "Callback" /\ ps[j][1] = "Callback"
      \/ manifest.handles = {}
      \/ manifest.on_dump /\ shim.result # <<"Unit">>
  <2>1. CASE \E ty \in Types(manifest) : ty[1] = ":handle" /\ ty[2] \notin manifest.handles
    BY <1>2, <1>7, <2>1
  <2>2. CASE \E i, j \in Callbacks(manifest) : i # j
    BY <1>3, <1>4, <2>2 DEF Callbacks
  <2>3. CASE manifest.on_dump /\ ~(manifest.params = <<>> /\ manifest.result = <<":unit">>)
    <3>1. manifest.params = <<>>
      BY <1>2, <2>3
    <3> QED  BY <1>5, <2>3, <3>1
  <2> QED  BY <1>1, <1>6, <2>1, <2>2, <2>3 DEF Loadable
<1>9. TextOK' /\ Compiled'
  BY <1>1 DEF Inv, TextOK, Compiled, Built
<1>10. SidesAgree'
  BY <1>1, <1>8 DEF SidesAgree
<1> QED  BY <1>1, <1>9, <1>10, BuildKeeps

LEMMA ReloadKeeps == ASSUME Inv, Reload PROVE Inv'
<1>1. /\ gen < MaxGeneration /\ gen' = gen + 1
      /\ UNCHANGED <<text, stage, shim, manifest, wrapper, LIVE_ALLOCATIONS, lost, call>>
  BY DEF Reload
<1>2. CountsOK'
  BY <1>1, Constants DEF Inv, CountsOK, Generations
<1>3. TextOK' /\ Compiled' /\ SidesAgree'
  <2>1. TextOK'
    BY <1>1 DEF Inv, TextOK
  <2>2. Compiled'
    BY <1>1 DEF Inv, Compiled
  <2>3. SidesAgree'
    BY <1>1 DEF Inv, SidesAgree
  <2> QED  BY <2>1, <2>2, <2>3
<1>4. InCall'
  BY <1>1 DEF Inv, InCall, Holds, write_ok, Optional, reads, OptionForm
<1>5. NothingLeaks'
  BY <1>1 DEF Inv, NothingLeaks
<1> QED  BY <1>1, <1>2, <1>3, <1>4, <1>5 DEF Inv

-----------------------------------------------------------------------------
(* Calls.                                                                  *)

\* A step of a call leaves the function as it is.
LEMMA RunKeeps ==
    ASSUME Inv, unchanged, call' \in Calls, InCall', NothingLeaks',
           LIVE_ALLOCATIONS' \in [Generations -> Nat], lost' \in [Generations -> 0..MaxLost]
    PROVE  Inv'
<1>1. UNCHANGED <<text, stage, shim, manifest, wrapper, gen>>
  BY DEF unchanged
<1>2. TextOK' /\ Compiled' /\ SidesAgree'
  <2>1. TextOK'
    BY <1>1 DEF Inv, TextOK
  <2>2. Compiled'
    BY <1>1 DEF Inv, Compiled
  <2>3. SidesAgree'
    BY <1>1 DEF Inv, SidesAgree
  <2> QED  BY <2>1, <2>2, <2>3
<1>3. CountsOK'
  BY <1>1 DEF Inv, CountsOK
<1> QED  BY <1>2, <1>3 DEF Inv

\* A step that neither allocates nor releases, and keeps the buffer.
LEMMA QuietKeeps ==
    ASSUME Inv, unchanged, UNCHANGED <<LIVE_ALLOCATIONS, lost>>,
           call' \in Calls, InCall', call'.buffer = call.buffer
    PROVE  Inv'
<1>1. NothingLeaks'
  BY DEF Inv, NothingLeaks
<1> QED  BY <1>1, RunKeeps DEF Inv, CountsOK

\* The call is over and holds no buffer.
LEMMA EndKeeps ==
    ASSUME Inv, unchanged, UNCHANGED <<LIVE_ALLOCATIONS, lost>>, call.buffer = NoBuffer,
           call' = Idle
    PROVE  Inv'
<1>1. InCall' /\ call' \in Calls /\ call'.buffer = NoBuffer
  BY IdleFacts DEF InCall
<1> QED  BY <1>1, QuietKeeps

LEMMA CallKeeps == ASSUME Inv, NEW g \in Generations, Call(g) PROVE Inv'
<1>1. /\ stage = "loaded" /\ call.pc = "idle" /\ call' = [Idle EXCEPT !.pc = "shim", !.gen = g]
      /\ unchanged /\ UNCHANGED <<LIVE_ALLOCATIONS, lost>>
  BY DEF Call
<1>2. call = Idle /\ stage' = "loaded"
  BY <1>1 DEF Inv, InCall, unchanged
<1>3. /\ call' \in Calls /\ call'.pc = "shim" /\ call'.gen = g /\ call'.status = 0
      /\ call'.wrote = {} /\ call'.read = {} /\ call'.buffer = NoBuffer
  <2>1. g \in 0..MaxGeneration
    BY Constants
  <2> QED  BY <1>1, <2>1, IdleFacts DEF Calls
<1>4. InCall'
  BY <1>2, <1>3 DEF InCall
<1> QED  BY <1>1, <1>2, <1>3, <1>4, QuietKeeps, IdleFacts

\* The shim answers with an error: nothing is written and nothing allocated.
LEMMA ReturnsKeeps == ASSUME Inv, NEW status \in 1..4, Returns(status) PROVE Inv'
<1>1. /\ call.pc = "shim" /\ call' = [call EXCEPT !.pc = "returned", !.status = status]
      /\ unchanged /\ UNCHANGED <<LIVE_ALLOCATIONS, lost>>
  BY DEF Returns
<1>2. /\ call \in Calls /\ stage = "loaded" /\ stage' = "loaded" /\ call.gen \in Generations
      /\ call.read = {} /\ call.buffer = NoBuffer
  BY <1>1 DEF Inv, InCall, unchanged
<1>3. /\ call' \in Calls /\ call'.pc = "returned" /\ call'.status = status
      /\ call'.gen = call.gen /\ call'.read = {} /\ call'.buffer = NoBuffer
  <2>1. status \in 0..4
    OBVIOUS
  <2> QED  BY <1>1, <1>2, <2>1 DEF Calls
<1>4. InCall'
  BY <1>2, <1>3 DEF InCall
<1> QED  BY <1>1, <1>2, <1>3, <1>4, QuietKeeps

\* The buffers into_raw makes.
LEMMA IntoRaw ==
    ASSUME NEW rty \in RTys, NEW g \in Generations, NEW len \in 0..MaxLen
    PROVE  LET b == into_raw(g, rty, len)
               e == size_of[ElementOf(rty)]
           IN /\ e \in {1, 2, 4, 8} /\ b \in Buffers
              /\ b = NoBuffer <=> len = 0
              /\ b # NoBuffer => b.gen = g /\ b.size # 0
              /\ len # 0 => b = [gen |-> g, size |-> len * e, align |-> e]
              /\ len * e = 0 <=> len = 0
<1> DEFINE b == into_raw(g, rty, len)
           e == size_of[ElementOf(rty)]
<1>1. ElementOf(rty) \in ScalarNames
  <2>1. "u8" \in ScalarNames
    BY DEF ScalarNames
  <2>2. rty[1] = "VecScalar" => rty[2] \in Scalars
    BY ResultAgrees
  <2> QED  BY <2>1, <2>2, Names DEF ElementOf
<1>2. e \in {1, 2, 4, 8}
  BY <1>1 DEF size_of, ScalarNames
<1>3. align_of[ElementOf(rty)] = e
  BY DEF align_of
<1>4. len \in Nat /\ g \in 0..MaxGeneration /\ g # 0
  BY Constants
<1>5. b = IF len = 0 THEN NoBuffer ELSE [gen |-> g, size |-> len * e, align |-> e]
  BY <1>3 DEF into_raw
<1> HIDE DEF b, e
<1>6. len * e \in Nat /\ (len * e = 0 <=> len = 0)
  <2>1. CASE e = 1
    BY <1>4, <2>1
  <2>2. CASE e = 2
    BY <1>4, <2>2
  <2>3. CASE e = 4
    BY <1>4, <2>3
  <2>4. CASE e = 8
    BY <1>4, <2>4
  <2> QED  BY <1>2, <2>1, <2>2, <2>3, <2>4
<1> DEFINE sz == len * e
<1>7. sz \in Nat /\ (sz = 0 <=> len = 0) /\ e \in Nat
  BY <1>2, <1>6
<1>8. b = IF len = 0 THEN NoBuffer ELSE [gen |-> g, size |-> sz, align |-> e]
  BY <1>5
<1> HIDE DEF sz
<1>9. b \in Buffers
  BY <1>4, <1>7, <1>8, IdleFacts DEF Buffers
<1>10. (b = NoBuffer <=> len = 0) /\ (b # NoBuffer => b.gen = g /\ b.size # 0)
  BY <1>4, <1>7, <1>8, IdleFacts
<1> QED  BY <1>2, <1>6, <1>8, <1>9, <1>10 DEF b, e, sz

\* A value is written, its buffer counted.
LEMMA ShimOkKeeps ==
    ASSUME Inv, NEW some \in BOOLEAN, NEW len \in 0..MaxLen, ShimOk(some, len)
    PROVE  Inv'
<1> DEFINE b == IF HasBuffer(shim.result) /\ some
                THEN into_raw(call.gen, shim.result, len) ELSE NoBuffer
           w == write_ok(some)
<1>1. /\ call.pc = "shim" /\ (~some => Optional) /\ unchanged /\ lost' = lost
      /\ call' = [call EXCEPT !.pc = "returned", !.some = some, !.len = len,
                              !.wrote = w, !.buffer = b]
      /\ LIVE_ALLOCATIONS' = [LIVE_ALLOCATIONS EXCEPT ![call.gen] = IF b = NoBuffer THEN @ ELSE @ + 1]
  BY DEF ShimOk
<1>2. /\ call \in Calls /\ stage = "loaded" /\ stage' = "loaded" /\ call.gen \in Generations
      /\ call.read = {} /\ call.status = 0 /\ call.buffer = NoBuffer /\ shim' = shim
  BY <1>1 DEF Inv, InCall, unchanged
<1>3. shim.result \in RTys
  BY <1>2 DEF Inv, Compiled, Built
<1>4. b \in Buffers /\ (b # NoBuffer => b.gen = call.gen)
  BY <1>2, <1>3, IntoRaw, IdleFacts
<1>5. w \in SUBSET Slots
  BY DEF write_ok, Slots
<1>6. w = write_ok(some)' /\ (Optional' <=> Optional)
  BY <1>2 DEF write_ok, Optional
<1>7. b = IF HasBuffer(shim'.result) /\ some THEN into_raw(call.gen, shim'.result, len) ELSE NoBuffer
  BY <1>2
<1> HIDE DEF b, w
<1>8. /\ call' \in Calls /\ call'.pc = "returned" /\ call'.some = some /\ call'.len = len
      /\ call'.wrote = w /\ call'.buffer = b
      /\ call'.gen = call.gen /\ call'.status = 0 /\ call'.read = {}
  <2>1. call' \in Calls
    BY <1>1, <1>2, <1>4, <1>5 DEF Calls
  <2>2. /\ call'.pc = "returned" /\ call'.some = some /\ call'.len = len
        /\ call'.wrote = w /\ call'.buffer = b
    BY <1>1, <1>2 DEF Calls
  <2>3. call'.gen = call.gen /\ call'.status = 0 /\ call'.read = {}
    BY <1>1, <1>2 DEF Calls
  <2> QED  BY <2>1, <2>2, <2>3
<1>9. Holds(call)'
  BY <1>1, <1>6, <1>7, <1>8 DEF Holds
<1>10. InCall'
  BY <1>2, <1>8, <1>9 DEF InCall
<1>11. LIVE_ALLOCATIONS \in [Generations -> Nat] /\ lost \in [Generations -> 0..MaxLost]
  BY DEF Inv, CountsOK
<1>12. LIVE_ALLOCATIONS' \in [Generations -> Nat]
  BY <1>1, <1>2, <1>11
<1>13. NothingLeaks'
  <2> SUFFICES ASSUME NEW g \in Generations
               PROVE  LIVE_ALLOCATIONS'[g] = lost'[g] + (IF call'.buffer.gen = g THEN 1 ELSE 0)
    BY DEF NothingLeaks
  <2>1. LIVE_ALLOCATIONS[g] = lost[g] /\ g # 0 /\ lost[g] \in Nat
    <3>1. g # 0 /\ lost[g] \in Nat
      BY <1>11, Constants
    <3>2. LIVE_ALLOCATIONS[g] = lost[g] + (IF call.buffer.gen = g THEN 1 ELSE 0)
      BY DEF Inv, NothingLeaks
    <3>3. call.buffer.gen # g
      BY <1>2, <3>1, IdleFacts
    <3> QED  BY <3>1, <3>2, <3>3
  <2>2. CASE b = NoBuffer
    BY <1>1, <1>8, <1>11, <2>1, <2>2, IdleFacts
  <2>3. CASE b # NoBuffer
    BY <1>1, <1>2, <1>4, <1>8, <1>11, <2>1, <2>3
  <2> QED  BY <2>2, <2>3
<1> QED  BY <1>1, <1>8, <1>10, <1>11, <1>12, <1>13, RunKeeps

LEMMA SignalKeeps == ASSUME Inv, Signal PROVE Inv'
<1>1. /\ call.pc = "returned" /\ call.status # 0 /\ call' = Idle
      /\ unchanged /\ UNCHANGED <<LIVE_ALLOCATIONS, lost>>
  BY DEF Signal
<1>2. call.buffer = NoBuffer
  BY <1>1 DEF Inv, InCall
<1> QED  BY <1>1, <1>2, EndKeeps

\* The wrapper reads what the shim has written: it decides by the manifest,
\* the shim by its type.
LEMMA ReadsAgree ==
    ASSUME Inv, stage = "loaded"
    PROVE  reads = write_ok(call.some) /\ shim.result \in RTys
<1>1. shim.result \in RTys /\ manifest.result = render_ty(result_meta(shim.result))
  BY DEF Inv, Compiled, Built
<1>2. /\ manifest.result = <<":unit">> <=> shim.result = <<"Unit">>
      /\ OptionForm <=> Optional
      /\ Buffered(Inner(manifest.result)) <=> HasBuffer(shim.result)
  BY <1>1, ResultAgrees DEF OptionForm, Optional
<1>3. reads = write_ok(call.some)
  BY <1>2 DEF reads, write_ok
<1> QED  BY <1>1, <1>3

LEMMA ConvertKeeps == ASSUME Inv, Convert PROVE Inv'
<1> DEFINE p == IF "out_ptr" \in reads THEN "copied" ELSE "done"
           rd == reads
<1>1. /\ call.pc = "returned" /\ call.status = 0
      /\ call' = [call EXCEPT !.read = rd, !.pc = p]
      /\ unchanged /\ UNCHANGED <<LIVE_ALLOCATIONS, lost>>
  BY DEF Convert
<1>2. /\ call \in Calls /\ stage = "loaded" /\ stage' = "loaded" /\ call.gen \in Generations
      /\ Holds(call) /\ UNCHANGED <<shim, manifest>>
  BY <1>1 DEF Inv, InCall, unchanged
<1>3. rd \in SUBSET Slots /\ p \in {"copied", "done"} /\ (p = "copied" <=> "out_ptr" \in reads)
  BY DEF reads, Slots
<1> HIDE DEF p, rd
<1>4. /\ call' \in Calls /\ call'.pc = p /\ call'.read = rd /\ call'.gen = call.gen
      /\ call'.some = call.some /\ call'.len = call.len /\ call'.wrote = call.wrote
      /\ call'.buffer = call.buffer
  <2>1. call' \in Calls
    BY <1>1, <1>2, <1>3 DEF Calls
  <2>2. call'.pc = p /\ call'.read = rd /\ call'.gen = call.gen
    BY <1>1, <1>2 DEF Calls
  <2>3. /\ call'.some = call.some /\ call'.len = call.len /\ call'.wrote = call.wrote
        /\ call'.buffer = call.buffer
    BY <1>1, <1>2 DEF Calls
  <2> QED  BY <2>1, <2>2, <2>3
<1>5. Holds(call)'
  BY <1>2, <1>4 DEF Holds, write_ok, Optional
<1>6. rd = reads'
  BY <1>2, <1>4 DEF rd, reads, OptionForm
<1>7. InCall'
  <2>1. p \in {"copied", "done"} /\ (p = "copied" <=> "out_ptr" \in reads')
    BY <1>3, <1>6 DEF rd
  <2> QED  BY <1>2, <1>4, <1>5, <1>6, <2>1 DEF InCall
<1> QED  BY <1>1, <1>4, <1>7, QuietKeeps

\* Without a buffer to copy there is none to give back.
LEMMA FinishKeeps == ASSUME Inv, Finish PROVE Inv'
<1>1. /\ call.pc = "done" /\ call' = Idle
      /\ unchanged /\ UNCHANGED <<LIVE_ALLOCATIONS, lost>>
  BY DEF Finish
<1>2. stage = "loaded" /\ Holds(call) /\ "out_ptr" \notin reads
  BY <1>1 DEF Inv, InCall
<1>3. "out_ptr" \notin write_ok(call.some)
  BY <1>2, ReadsAgree
<1>4. HasBuffer(shim.result) => shim.result # <<"Unit">>
  BY DEF HasBuffer
<1>5. ~(HasBuffer(shim.result) /\ call.some)
  BY <1>3, <1>4 DEF write_ok
<1>6. call.buffer = NoBuffer
  BY <1>2, <1>5 DEF Holds
<1> QED  BY <1>1, <1>6, EndKeeps

\* What the cleanup form gives back is what the shim allocated.
LEMMA ReleaseAgrees ==
    ASSUME Inv, call.pc = "copied"
    PROVE  IF release.size = 0 THEN call.buffer = NoBuffer ELSE call.buffer = release
<1> DEFINE e == size_of[ElementOf(shim.result)]
           inner == Inner(manifest.result)
           size == IF inner[1] = ":vec" THEN vec_elt_size[inner[2]] ELSE 1
<1>1. /\ stage = "loaded" /\ call.gen \in Generations /\ call \in Calls
      /\ Holds(call) /\ "out_ptr" \in reads
  BY DEF Inv, InCall
<1>2. shim.result \in RTys /\ "out_ptr" \in write_ok(call.some)
  BY <1>1, ReadsAgree
<1>3. HasBuffer(shim.result) /\ (Optional => call.some)
  BY <1>2 DEF write_ok
<1>4. call.some
  BY <1>1, <1>3 DEF Holds
<1>5. call.buffer = into_raw(call.gen, shim.result, call.len)
  BY <1>1, <1>3, <1>4 DEF Holds
<1>6. manifest.result = render_ty(result_meta(shim.result))
  BY <1>1 DEF Inv, Compiled, Built
<1>7. size = e
  <2>1. CASE shim.result[1] = "VecScalar"
    <3>1. inner = <<":vec", shim.result[2]>>
      BY <1>2, <1>6, <2>1, ResultAgrees
    <3>2. size = vec_elt_size[shim.result[2]]
      BY <3>1
    <3> QED  BY <2>1, <3>2, Names DEF ElementOf
  <2>2. CASE shim.result[1] # "VecScalar"
    <3>1. inner[1] # ":vec"
      BY <1>2, <1>6, <2>2, ResultAgrees
    <3>2. e = 1
      BY <2>2 DEF ElementOf, size_of
    <3> QED  BY <3>1, <3>2
  <2> QED  BY <2>1, <2>2
<1>8. call.len \in 0..MaxLen
  BY <1>1 DEF Calls
<1>9. release = [gen |-> call.gen, size |-> call.len * size, align |-> size]
  BY DEF release
<1> HIDE DEF e, size
<1>10. release = [gen |-> call.gen, size |-> call.len * e, align |-> e]
  BY <1>7, <1>9
<1>11. /\ call.buffer = NoBuffer <=> call.len = 0
       /\ call.len # 0 => call.buffer = [gen |-> call.gen, size |-> call.len * e, align |-> e]
       /\ call.len * e = 0 <=> call.len = 0
  BY <1>1, <1>2, <1>5, <1>8, IntoRaw DEF e
<1>12. release.size = call.len * e
  BY <1>10
<1> QED  BY <1>10, <1>11, <1>12

\* The buffer the call holds, if any, is of its generation.
LEMMA BufferGen ==
    ASSUME Inv, call.pc # "idle"
    PROVE  call.buffer = NoBuffer \/ call.buffer.gen = call.gen
<1>1. stage = "loaded" /\ call.gen \in Generations /\ call \in Calls
  BY DEF Inv, InCall
<1>2. shim.result \in RTys /\ call.len \in 0..MaxLen
  BY <1>1 DEF Inv, Compiled, Built, Calls
<1>3. CASE Holds(call)
  BY <1>1, <1>2, <1>3, IntoRaw DEF Holds
<1>4. CASE ~Holds(call)
  BY <1>1, <1>4 DEF Inv, InCall, Calls
<1> QED  BY <1>3, <1>4

LEMMA ReleaseKeeps == ASSUME Inv, Release PROVE Inv'
<1>1. /\ call.pc = "copied" /\ call' = Idle /\ unchanged /\ lost' = lost
      /\ LIVE_ALLOCATIONS' = [LIVE_ALLOCATIONS EXCEPT
                                ![release.gen] = IF release.size = 0 THEN @ ELSE @ - 1]
  BY DEF Release, dealloc
<1>2. IF release.size = 0 THEN call.buffer = NoBuffer ELSE call.buffer = release
  BY <1>1, ReleaseAgrees
<1>3. LIVE_ALLOCATIONS \in [Generations -> Nat] /\ lost \in [Generations -> 0..MaxLost]
  BY DEF Inv, CountsOK
<1>4. CASE release.size = 0
  <2>1. LIVE_ALLOCATIONS' = LIVE_ALLOCATIONS /\ call.buffer = NoBuffer
    BY <1>1, <1>2, <1>3, <1>4
  <2> QED  BY <1>1, <2>1, EndKeeps
<1>5. CASE release.size # 0
  <2> DEFINE h == release.gen
  <2>1. /\ call.buffer.gen = h /\ h = call.gen /\ h \in Generations
    <3>1. release.gen = call.gen /\ call.gen \in Generations
      BY <1>1 DEF Inv, InCall, release
    <3> QED  BY <1>2, <1>5, <3>1
  <2>2. \A g \in Generations : /\ LIVE_ALLOCATIONS[g] = lost[g] + (IF g = h THEN 1 ELSE 0)
                               /\ lost[g] \in Nat
    BY <1>3, <2>1, Constants DEF Inv, NothingLeaks
  <2>3. LIVE_ALLOCATIONS' = [LIVE_ALLOCATIONS EXCEPT ![h] = @ - 1]
    BY <1>1, <1>5
  <2> HIDE DEF h
  <2>4. \A g \in Generations : LIVE_ALLOCATIONS'[g] = lost[g]
    BY <1>3, <2>1, <2>2, <2>3
  <2>5. LIVE_ALLOCATIONS' \in [Generations -> Nat]
    <3>1. LIVE_ALLOCATIONS[h] - 1 \in Nat
      BY <2>1, <2>2
    <3> QED  BY <1>3, <2>3, <3>1
  <2>6. NothingLeaks'
    BY <1>1, <2>2, <2>4, IdleFacts, Constants DEF NothingLeaks
  <2>7. InCall' /\ call' \in Calls
    BY <1>1, IdleFacts DEF InCall
  <2> QED  BY <1>1, <1>3, <2>5, <2>6, <2>7, RunKeeps
<1> QED  BY <1>4, <1>5

\* An interrupt loses the buffer, if there is one, and that is on record.
LEMMA InterruptKeeps == ASSUME Inv, Interrupt PROVE Inv'
<1>1. /\ call.pc = "returned" /\ call' = Idle /\ unchanged
      /\ LIVE_ALLOCATIONS' = LIVE_ALLOCATIONS
      /\ \A g \in Generations : lost[g] < MaxLost
      /\ lost' = [lost EXCEPT ![call.gen] = IF call.buffer = NoBuffer THEN @ ELSE @ + 1]
  BY DEF Interrupt
<1>2. LIVE_ALLOCATIONS \in [Generations -> Nat] /\ lost \in [Generations -> 0..MaxLost]
  BY DEF Inv, CountsOK
<1>3. call.gen \in Generations
  BY <1>1 DEF Inv, InCall
<1>4. CASE call.buffer = NoBuffer
  <2>1. lost' = lost
    BY <1>1, <1>2, <1>4
  <2> QED  BY <1>1, <1>4, <2>1, EndKeeps
<1>5. CASE call.buffer # NoBuffer
  <2>1. call.buffer.gen = call.gen
    BY <1>1, <1>5, BufferGen
  <2>2. \A g \in Generations : /\ LIVE_ALLOCATIONS[g] = lost[g] + (IF g = call.gen THEN 1 ELSE 0)
                               /\ lost[g] \in Nat /\ lost[g] + 1 \in 0..MaxLost
    BY <1>1, <1>2, <2>1, Constants DEF Inv, NothingLeaks
  <2>3. lost' = [lost EXCEPT ![call.gen] = @ + 1]
    BY <1>1, <1>5
  <2>4. \A g \in Generations : lost'[g] = LIVE_ALLOCATIONS[g]
    BY <1>2, <1>3, <2>2, <2>3
  <2>5. lost' \in [Generations -> 0..MaxLost]
    BY <1>2, <1>3, <2>2, <2>3
  <2>6. NothingLeaks'
    BY <1>1, <1>2, <2>4, IdleFacts, Constants DEF NothingLeaks
  <2>7. InCall' /\ call' \in Calls
    BY <1>1, IdleFacts DEF InCall
  <2> QED  BY <1>1, <1>2, <2>5, <2>6, <2>7, RunKeeps
<1> QED  BY <1>4, <1>5

-----------------------------------------------------------------------------

LEMMA RunningKeeps == ASSUME Inv, Running PROVE Inv'
<1>1. CASE ShimPanics \/ ShimInvalid \/ ShimErr \/ ShimCbErr
  BY <1>1, ReturnsKeeps DEF ShimPanics, ShimInvalid, ShimErr, ShimCbErr
<1> QED  BY <1>1, CallKeeps, ShimOkKeeps, SignalKeeps, ConvertKeeps, FinishKeeps,
            ReleaseKeeps, InterruptKeeps DEF Running

LEMMA StutterKeeps == ASSUME Inv, UNCHANGED vars PROVE Inv'
<1>1. /\ UNCHANGED <<text, stage, shim, manifest, wrapper, gen, LIVE_ALLOCATIONS, lost, call>>
      /\ unchanged
  BY DEF vars, unchanged
<1>2. InCall'
  BY <1>1 DEF Inv, InCall, Holds, write_ok, Optional, reads, OptionForm
<1> QED  BY <1>1, <1>2, QuietKeeps DEF Inv

LEMMA NextInv == Inv /\ [Next]_vars => Inv'
<1> SUFFICES ASSUME Inv, [Next]_vars PROVE Inv'
  OBVIOUS
<1>1. ASSUME NEW kind \in {"free", "method", "ctor"}, NEW result \in RustResults,
             NEW on_dump \in BOOLEAN,
             \/ ExportRefused(kind, result, on_dump)
             \/ \E error \in BOOLEAN, handles \in SUBSET {"WordBag"} :
                    Export(kind, result, error, on_dump, handles)
      PROVE  Inv'
  BY <1>1, ExportRefusedKeeps, ExportKeeps
<1> QED  BY <1>1, WriteParamKeeps, LoadKeeps, LoadRefusedKeeps, ReloadKeeps, RunningKeeps,
            StutterKeeps DEF Next

LEMMA Invariance == Spec => []Inv
  BY InitInv, NextInv, PTL DEF Spec

\* Type correctness, of the counters above all: LIVE_ALLOCATIONS never falls
\* below zero in any generation's library (runtime dealloc).
THEOREM TypeCorrect == Spec => []TypeOK
<1>1. Inv => TypeOK
  BY DEF Inv, TextOK, CountsOK, Calls, TypeOK
<1> QED  BY <1>1, Invariance, PTL

\* Macro and loader derive the same C signature for every exportable function,
\* whatever its parameters, and what compiles and does not load is one of
\* three known things (extern_params and out_params of rulisp-macros against
\* wrapper-form and result-plumbing of codegen.lisp).
THEOREM SignaturesAgree == Spec => []SidesAgree
<1>1. Inv => SidesAgree
  BY DEF Inv
<1> QED  BY <1>1, Invariance, PTL

\* The wrapper reads no out-parameter that the shim left unwritten (write_ok
\* against the ok-forms of result-plumbing).
THEOREM NoUnwrittenRead == Spec => []OnlyWrittenIsRead
<1>1. Inv => OnlyWrittenIsRead
  <2> SUFFICES ASSUME Inv PROVE call.read \subseteq call.wrote
    BY DEF OnlyWrittenIsRead
  <2>1. CASE call.pc \in {"copied", "done"}
    <3>1. stage = "loaded" /\ call.read = reads /\ call.wrote = write_ok(call.some)
      BY <2>1 DEF Inv, InCall, Holds
    <3> QED  BY <3>1, ReadsAgree
  <2>2. CASE call.pc \in {"idle", "shim", "returned"}
    <3>1. call.read = {}
      BY <2>2, IdleFacts DEF Inv, InCall
    <3> QED  BY <3>1
  <2> QED  BY <2>1, <2>2 DEF Inv, Calls
<1> QED  BY <1>1, Invariance, PTL

\* A buffer goes back to the library that allocated it, with the size and the
\* alignment it was allocated with, and an empty one does not go back at all
\* (into_raw against %take-string-result, %take-bytes-result and
\* %take-vec-result).
THEOREM GivenBack == Spec => []GivenBackAsAllocated
<1>1. Inv => GivenBackAsAllocated
  BY ReleaseAgrees DEF GivenBackAsAllocated
<1> QED  BY <1>1, Invariance, PTL

\* Every library's LIVE_ALLOCATIONS is the number of its buffers that an
\* interrupt has lost, and the one of the call in progress.
THEOREM NoLeak == Spec => []NothingLeaks
<1>1. Inv => NothingLeaks
  BY DEF Inv
<1> QED  BY <1>1, Invariance, PTL

=============================================================================
