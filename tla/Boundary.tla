-------------------------------- MODULE Boundary --------------------------------
(***************************************************************************)
(* One exported function on its way across the boundary, and its calls.    *)
(* The macro classifies the Rust signature and emits a C shim and metadata;*)
(* the runtime renders the metadata as a manifest; the loader reads it and *)
(* compiles a wrapper that calls the shim by a C signature of its own.     *)
(* Nothing but the manifest connects the two signatures.                   *)
(*                                                                         *)
(* Then the function is called, by wrappers of this and of earlier         *)
(* generations, and its result handed over: a buffer is allocated by Rust, *)
(* copied by Lisp and given back to the library that allocated it.         *)
(*                                                                         *)
(* A Rust type, a classified type (PTy, RTy), its metadata and a manifest  *)
(* type are terms <<constructor, arguments...>>; a C type is such a term   *)
(* too.  One call is followed: calls share only an atomic counter.         *)
(***************************************************************************)
EXTENDS Naturals, SequencesExt

CONSTANTS
    Scalars,        \* scalar types used, out of the ten of SCALARS
    MaxParams,      \* bound: parameters written
    MaxGeneration,  \* bound: generations of the library loaded
    MaxLen,         \* bound: elements of a result
    MaxLost         \* bound: calls abandoned by an interrupt

\* The layout of the scalar types (rustc, for the 64-bit targets of meta.rs).
size_of == [i8 |-> 1, u8 |-> 1, i16 |-> 2, u16 |-> 2, i32 |-> 4, u32 |-> 4,
            f32 |-> 4, i64 |-> 8, u64 |-> 8, f64 |-> 8]
align_of == size_of

ASSUME BoundaryAssumption ==
    /\ Scalars \subseteq DOMAIN size_of
    /\ MaxGeneration \in Nat \ {0} /\ {MaxParams, MaxLen, MaxLost} \subseteq Nat

VARIABLES
    text,      \* the parameters as written, types in Rust
    stage,     \* "writing", "refused", "compiled", "unloadable", "loaded"
    shim,      \* the function as the macro knows it, and the C signature of its shim
    manifest,  \* what the manifest says of it
    wrapper,   \* the C signature the wrapper calls
    gen,       \* the crate's current generation
    LIVE_ALLOCATIONS,  \* one counter per generation's library
    lost,      \* history: buffers an interrupt has left behind
    call       \* the call in progress

vars == <<text, stage, shim, manifest, wrapper, gen, LIVE_ALLOCATIONS, lost, call>>

Generations == 1..MaxGeneration
Unsupported == <<"unsupported">>
NoBuffer == [gen |-> 0, size |-> 0, align |-> 0]

-----------------------------------------------------------------------------
(* rulisp-macros: classification.                                          *)

\* Types an author may write for a parameter and for a result.
Plain == {<<s>> : s \in Scalars} \cup {<<"bool">>, <<"&str">>, <<"&[]", "u8">>}
            \cup {<<"&[]", s>> : s \in Scalars}
RustParams ==
    Plain \cup {<<"Option">> \o t : t \in Plain}
        \cup {<<"&", "WordBag">>, <<"&mut", "WordBag">>, <<"&'static", "str">>, <<"String">>}
        \cup {<<"Callback", "()", "&str", "bool">>, <<"Callback", "()">>,
              <<"Callback", "i64", "bool">>, <<"Callback", "()", "&WordBag">>,
              <<"StoredCallback", "()", "bool", "&str">>}
Receivers == {<<"&self">>, <<"&mut self">>, <<"self">>}
PlainResults == {<<s>> : s \in Scalars} \cup {<<"bool">>, <<"String">>, <<"Vec", "u8">>, <<"WordBag">>}
            \cup {<<"Vec", s>> : s \in Scalars}
RustResults == PlainResults \cup {<<"()">>} \cup {<<"Option">> \o t : t \in PlainResults}

\* classify_callback: the result is () and the arguments are scalars or &str.
CallbackTok(a) == IF a = "&str" THEN ":string" ELSE a

classify_callback(ty) ==
    IF ty[2] = "()" /\ \A i \in 3..Len(ty) : ty[i] \in Scalars \cup {"bool", "&str"}
    THEN <<ty[1]>> \o [i \in 1..(Len(ty) - 2) |-> CallbackTok(ty[i + 2])]
    ELSE Unsupported

classify_plain(ty) ==
    CASE ty[1] \in Scalars -> <<"Scalar", ty[1]>>
      [] ty[1] = "bool" -> <<"Bool">>
      [] ty[1] = "&str" -> <<"StrRef">>
      [] ty[1] = "&[]" -> IF ty[2] = "u8" THEN <<"BytesRef">> ELSE <<"VecScalar", ty[2]>>
      [] ty[1] = "&" -> <<"HandleRef", ty[2]>>
      [] ty[1] \in {"Callback", "StoredCallback"} -> classify_callback(ty)
      [] OTHER -> Unsupported

OptionOf(inner) ==
    CASE inner[1] = "Scalar" -> <<"OptionScalar", inner[2]>>
      [] inner[1] \in {"StrRef", "Str"} -> <<"OptionStr">>
      [] inner[1] \in {"BytesRef", "Bytes"} -> <<"OptionBytes">>
      [] OTHER -> Unsupported

\* Option<bool>, Option<&[T]>, &mut, a named lifetime, a type of the wrong
\* side and everything else are compile errors.
classify_param(ty) ==
    IF ty[1] = "Option" THEN OptionOf(classify_plain(Tail(ty)))
    ELSE IF ty = <<"&self">> THEN <<"HandleRef", "WordBag">>
    ELSE classify_plain(ty)

classify_plain_result(ty, ctor) ==
    CASE ty[1] = "()" -> <<"Unit">>
      [] ty[1] \in Scalars -> <<"Scalar", ty[1]>>
      [] ty[1] = "bool" -> <<"Bool">>
      [] ty[1] = "String" -> <<"Str">>
      [] ty[1] = "Vec" -> IF ty[2] = "u8" THEN <<"Bytes">> ELSE <<"VecScalar", ty[2]>>
      [] OTHER -> IF ctor THEN <<"Handle", ty[1]>> ELSE Unsupported

\* A handle is the result of a constructor; an Option of one is refused.
classify_result(ty, ctor) ==
    IF ty[1] = "Option" THEN OptionOf(classify_plain_result(Tail(ty), TRUE))
    ELSE classify_plain_result(ty, ctor)

-----------------------------------------------------------------------------
(* rulisp-macros: the C signature of the shim.                             *)

Bytes == <<<<"ptr", "u8">>, <<"usize">>>>

cb_ffi(tok) ==
    CASE tok = ":string" -> <<"ptr", "usize">>
      [] tok = "bool" -> <<"u8">>
      [] OTHER -> <<tok>>

FnPointer(types) == <<"fn", "u64">> \o types

extern_params(pty) ==
    CASE pty[1] = "Scalar" -> <<<<pty[2]>>>>
      [] pty[1] = "Bool" -> <<<<"u8">>>>
      [] pty[1] \in {"StrRef", "BytesRef"} -> Bytes
      [] pty[1] = "VecScalar" -> <<<<"ptr", pty[2]>>, <<"usize">>>>
      [] pty[1] = "OptionScalar" -> <<<<"u8">>, <<pty[2]>>>>
      [] pty[1] \in {"OptionStr", "OptionBytes"} -> <<<<"u8">>>> \o Bytes
      [] pty[1] = "HandleRef" -> <<<<"ptr", "void">>>>
      [] pty[1] \in {"Callback", "StoredCallback"} ->
            <<FnPointer(FlattenSeq([i \in 1..(Len(pty) - 1) |-> cb_ffi(pty[i + 1])])), <<"u64">>>>

\* Out-parameters: pointers to where the result goes.
out_params(rty) ==
    CASE rty[1] = "Unit" -> <<>>
      [] rty[1] = "Scalar" -> <<<<"ptr", rty[2]>>>>
      [] rty[1] = "Bool" -> <<<<"ptr", "u8">>>>
      [] rty[1] \in {"Str", "Bytes", "VecScalar"} -> <<<<"ptr", "ptr">>, <<"ptr", "usize">>>>
      [] rty[1] = "Handle" -> <<<<"ptr", "ptr">>>>
      [] rty[1] = "OptionScalar" -> <<<<"ptr", "u8">>, <<"ptr", rty[2]>>>>
      [] rty[1] \in {"OptionStr", "OptionBytes"} ->
            <<<<"ptr", "u8">>, <<"ptr", "ptr">>, <<"ptr", "usize">>>>

-----------------------------------------------------------------------------
(* The manifest: gen_meta_const makes metadata, meta.rs renders it.        *)

param_meta(pty) ==
    CASE pty[1] = "Bool" -> <<"Scalar", "bool">>
      [] pty[1] = "StrRef" -> <<"Str">>
      [] pty[1] = "BytesRef" -> <<"Bytes">>
      [] pty[1] = "HandleRef" -> <<"Handle", pty[2]>>
      [] pty[1] = "VecScalar" -> <<"Vec", pty[2]>>
      [] pty[1] = "OptionScalar" -> <<"Option", "Scalar", pty[2]>>
      [] pty[1] = "OptionStr" -> <<"Option", "Str">>
      [] pty[1] = "OptionBytes" -> <<"Option", "Bytes">>
      [] OTHER -> pty

result_meta(rty) ==
    CASE rty[1] = "Bool" -> <<"Scalar", "bool">>
      [] rty[1] = "VecScalar" -> <<"Vec", rty[2]>>
      [] rty[1] = "OptionScalar" -> <<"Option", "Scalar", rty[2]>>
      [] rty[1] = "OptionStr" -> <<"Option", "Str">>
      [] rty[1] = "OptionBytes" -> <<"Option", "Bytes">>
      [] OTHER -> rty

\* render_ty and render_result, as the s-expression the loader will read.
render_inner(meta) ==
    CASE meta[1] = "Scalar" -> <<meta[2]>>
      [] meta[1] = "Str" -> <<":string">>
      [] meta[1] = "Bytes" -> <<":bytes">>
      [] meta[1] = "Unit" -> <<":unit">>
      [] meta[1] = "Handle" -> <<":handle", meta[2]>>
      [] meta[1] = "Vec" -> <<":vec", meta[2]>>
      [] meta[1] = "Callback" -> <<":callback">> \o Tail(meta)
      [] meta[1] = "StoredCallback" -> <<":stored-callback">> \o Tail(meta)

render_ty(meta) ==
    IF meta[1] = "Option" THEN <<":option">> \o render_inner(Tail(meta)) ELSE render_inner(meta)

-----------------------------------------------------------------------------
(* The loader: codegen.lisp.                                               *)

\* +scalar-types+
scalar_cffi(tok) == IF tok = "bool" THEN "u8" ELSE tok

\* +vec-elt-types+: element size, passed to dealloc as the alignment too.
vec_elt_size == [i8 |-> 1, i16 |-> 2, i32 |-> 4, i64 |-> 8, u8 |-> 1, u16 |-> 2,
                 u32 |-> 4, u64 |-> 8, f32 |-> 4, f64 |-> 8]

trampoline_types(tok) == IF tok = ":string" THEN <<"ptr", "usize">> ELSE <<scalar_cffi(tok)>>

\* Mutant: a flag follows the optional string it belongs to.
call_args_flag_last(ty) ==
    CASE ty \in {<<":option", ":string">>, <<":option", ":bytes">>} -> Bytes \o <<<<"u8">>>>
      [] ty[1] \in {":string", ":bytes"} -> Bytes
      [] ty[1] = ":option" -> <<<<"u8">>, <<scalar_cffi(ty[2])>>>>
      [] ty[1] = ":vec" -> <<<<"ptr", ty[2]>>, <<"usize">>>>
      [] ty[1] = ":handle" -> <<<<"ptr", "void">>>>
      [] ty[1] \in {":callback", ":stored-callback"} ->
            <<FnPointer(FlattenSeq([i \in 1..(Len(ty) - 1) |-> trampoline_types(ty[i + 1])])), <<"u64">>>>
      [] OTHER -> <<<<scalar_cffi(ty[1])>>>>

\* The arguments wrapper-form passes for a parameter of type ty.
call_args(ty) ==
    CASE ty[1] \in {":string", ":bytes"} -> Bytes
      [] ty[1] = ":option" -> IF ty[2] \in {":string", ":bytes"} THEN <<<<"u8">>>> \o Bytes
                              ELSE <<<<"u8">>, <<scalar_cffi(ty[2])>>>>
      [] ty[1] = ":vec" -> <<<<"ptr", ty[2]>>, <<"usize">>>>
      [] ty[1] = ":handle" -> <<<<"ptr", "void">>>>
      [] ty[1] \in {":callback", ":stored-callback"} ->
            <<FnPointer(FlattenSeq([i \in 1..(Len(ty) - 1) |-> trampoline_types(ty[i + 1])])), <<"u64">>>>
      [] OTHER -> <<<<scalar_cffi(ty[1])>>>>

Buffered(ty) == ty[1] \in {":string", ":bytes", ":vec"}
Inner(ty) == IF ty[1] = ":option" THEN Tail(ty) ELSE ty

\* result-plumbing: the foreign objects a result is written to.
out_args(ty) ==
    (IF ty[1] = ":option" THEN <<<<"ptr", "u8">>>> ELSE <<>>)
        \o (IF Buffered(Inner(ty)) THEN <<<<"ptr", "ptr">>, <<"ptr", "usize">>>>
            ELSE IF ty[1] = ":unit" THEN <<>>
            ELSE IF ty[1] = ":handle" THEN <<<<"ptr", "ptr">>>>
            ELSE <<<<"ptr", scalar_cffi(Inner(ty)[1])>>>>)

-----------------------------------------------------------------------------
(* Building and loading.                                                   *)

NoFn == [params |-> <<>>, result |-> <<"Unit">>, error |-> FALSE, signature |-> <<>>]
NoSpec == [params |-> <<>>, result |-> <<":unit">>, on_dump |-> FALSE, handles |-> {}]
Idle == [pc |-> "idle", gen |-> 0, status |-> 0, some |-> FALSE, len |-> 0,
         wrote |-> {}, read |-> {}, buffer |-> NoBuffer]

Init ==
    /\ text = <<>> /\ stage = "writing"
    /\ shim = NoFn /\ manifest = NoSpec /\ wrapper = <<>>
    /\ gen = 1
    /\ LIVE_ALLOCATIONS = [g \in Generations |-> 0]
    /\ lost = [g \in Generations |-> 0]
    /\ call = Idle

calls == <<gen, LIVE_ALLOCATIONS, lost, call>>

WriteParam(ty) ==
    /\ stage = "writing" /\ Len(text) < MaxParams
    /\ ty \in Receivers => text = <<>>
    /\ text' = Append(text, ty)
    /\ UNCHANGED <<stage, shim, manifest, wrapper, calls>>

\* kind is a free fn, a method or a constructor.
Exportable(kind, result) ==
    /\ \A i \in 1..Len(text) : classify_param(text[i]) # Unsupported
    /\ kind = "method" <=> (text # <<>> /\ text[1] = <<"&self">>)
    /\ classify_result(result, kind = "ctor") # Unsupported

gen_fn(result, ctor, error) ==
    LET params == [i \in 1..Len(text) |-> classify_param(text[i])]
        res == classify_result(result, ctor)
    IN [params |-> params, result |-> res, error |-> error,
        signature |-> FlattenSeq([i \in 1..Len(params) |-> extern_params(params[i])]) \o out_params(res)]

\* module!: the function on_dump names is a free fn without parameters.
on_dump_guard(kind) == kind = "free" /\ text = <<>>

render_manifest(f, on_dump, handles) ==
    [params |-> [i \in 1..Len(f.params) |-> render_ty(param_meta(f.params[i]))],
     result |-> render_ty(result_meta(f.result)), on_dump |-> on_dump, handles |-> handles]

\* error tells Result from a plain result, on_dump that module! names the
\* function as its dump hook; handles are the types module! lists.
Export(kind, result, error, on_dump, handles) ==
    /\ stage = "writing"
    /\ Exportable(kind, result) /\ (on_dump => on_dump_guard(kind))
    /\ LET f == gen_fn(result, kind = "ctor", error)
       IN shim' = f /\ manifest' = render_manifest(f, on_dump, handles)
    /\ stage' = "compiled" /\ text' = <<>>
    /\ UNCHANGED <<wrapper, calls>>

\* A compile error.
ExportRefused(kind, result, on_dump) ==
    /\ stage = "writing"
    /\ ~Exportable(kind, result) \/ (on_dump /\ ~on_dump_guard(kind))
    /\ stage' = "refused" /\ text' = <<>>
    /\ UNCHANGED <<shim, manifest, wrapper, calls>>

Types(spec) == {spec.result} \cup {spec.params[i] : i \in 1..Len(spec.params)}
Callbacks(spec) == {i \in 1..Len(spec.params) : spec.params[i][1] = ":callback"}

\* What the reader and wrapper-form refuse: an Option of bool, an unknown
\* handle type, two callbacks, a dump hook that takes or returns something.
Loadable ==
    /\ <<":option", "bool">> \notin Types(manifest)
    /\ \A ty \in Types(manifest) : ty[1] = ":handle" => ty[2] \in manifest.handles
    /\ \A i, j \in Callbacks(manifest) : i = j
    /\ manifest.on_dump => manifest.params = <<>> /\ manifest.result = <<":unit">>

Load ==
    /\ stage = "compiled" /\ Loadable
    /\ stage' = "loaded"
    /\ wrapper' = FlattenSeq([i \in 1..Len(manifest.params) |-> call_args(manifest.params[i])])
                    \o out_args(manifest.result)
    /\ UNCHANGED <<text, shim, manifest, calls>>

LoadRefused ==
    /\ stage = "compiled" /\ ~Loadable
    /\ stage' = "unloadable"
    /\ UNCHANGED <<text, shim, manifest, wrapper, calls>>

\* The library is loaded again, beside the old one; wrappers and calls of the
\* old generation go on.
Reload ==
    /\ stage = "loaded" /\ gen < MaxGeneration
    /\ gen' = gen + 1
    /\ UNCHANGED <<text, stage, shim, manifest, wrapper, LIVE_ALLOCATIONS, lost, call>>

-----------------------------------------------------------------------------
(* A call: the shim's side.                                                *)

unchanged == UNCHANGED <<text, stage, shim, manifest, wrapper, gen>>

\* A wrapper of generation g is called and calls its shim.
Call(g) ==
    /\ stage = "loaded" /\ call.pc = "idle" /\ g <= gen
    /\ call' = [Idle EXCEPT !.pc = "shim", !.gen = g]
    /\ unchanged /\ UNCHANGED <<LIVE_ALLOCATIONS, lost>>

Returns(status) ==
    /\ call.pc = "shim"
    /\ call' = [call EXCEPT !.pc = "returned", !.status = status]
    /\ unchanged /\ UNCHANGED <<LIVE_ALLOCATIONS, lost>>

Takes(ptys) == \E i \in 1..Len(shim.params) : shim.params[i][1] \in ptys

ShimPanics == Returns(2)
ShimInvalid == Takes({"StrRef", "OptionStr"}) /\ Returns(3)
ShimErr == shim.error /\ Returns(1)
ShimCbErr == shim.error /\ Takes({"Callback"}) /\ Returns(4)

Optional == shim.result[1] \in {"OptionScalar", "OptionStr", "OptionBytes"}
ElementOf(rty) == IF rty[1] = "VecScalar" THEN rty[2] ELSE "u8"
HasBuffer(rty) == rty[1] \in {"Str", "Bytes", "VecScalar", "OptionStr", "OptionBytes"}

\* write_ok: the slots written for a value that is there, or is None.
write_ok(some) ==
    (IF Optional THEN {"some_out"} ELSE {})
        \cup (IF (Optional /\ ~some) \/ shim.result = <<"Unit">> THEN {}
              ELSE IF HasBuffer(shim.result) THEN {"out_ptr", "out_len"} ELSE {"out"})

\* bytes_into_raw, string_into_raw and vec_into_raw: an empty buffer is none.
into_raw(g, rty, len) ==
    IF len = 0 THEN NoBuffer
    ELSE [gen |-> g, size |-> len * size_of[ElementOf(rty)], align |-> align_of[ElementOf(rty)]]

ShimOk(some, len) ==
    LET b == IF HasBuffer(shim.result) /\ some THEN into_raw(call.gen, shim.result, len) ELSE NoBuffer
    IN /\ call.pc = "shim"
       /\ ~some => Optional
       /\ len > 0 => HasBuffer(shim.result) /\ some
       /\ call' = [call EXCEPT !.pc = "returned", !.some = some, !.len = len,
                               !.wrote = write_ok(some), !.buffer = b]
       /\ LIVE_ALLOCATIONS' = [LIVE_ALLOCATIONS EXCEPT ![call.gen] = IF b = NoBuffer THEN @ ELSE @ + 1]
       /\ unchanged /\ UNCHANGED lost

-----------------------------------------------------------------------------
(* A call: the wrapper's side, by what the manifest says of the result.    *)

\* signal-crate-status
Signal ==
    /\ call.pc = "returned" /\ call.status # 0
    /\ call' = Idle
    /\ unchanged /\ UNCHANGED <<LIVE_ALLOCATIONS, lost>>

OptionForm == manifest.result[1] = ":option"

\* Mutant: the value is read whether it is there or not.
reads_always ==
    (IF OptionForm THEN {"some_out"} ELSE {})
        \cup (IF manifest.result = <<":unit">> THEN {}
              ELSE IF Buffered(Inner(manifest.result)) THEN {"out_ptr", "out_len"} ELSE {"out"})

\* The ok-form: the slots read.
reads ==
    (IF OptionForm THEN {"some_out"} ELSE {})
        \cup (IF (OptionForm /\ ~call.some) \/ manifest.result = <<":unit">> THEN {}
              ELSE IF Buffered(Inner(manifest.result)) THEN {"out_ptr", "out_len"} ELSE {"out"})

\* A value, a handle, NIL or no value; or a buffer, to be copied.
Convert ==
    /\ call.pc = "returned" /\ call.status = 0
    /\ call' = [call EXCEPT !.read = reads, !.pc = IF "out_ptr" \in reads THEN "copied" ELSE "done"]
    /\ unchanged /\ UNCHANGED <<LIVE_ALLOCATIONS, lost>>

Finish ==
    /\ call.pc = "done"
    /\ call' = Idle
    /\ unchanged /\ UNCHANGED <<LIVE_ALLOCATIONS, lost>>

\* Mutant: the pointer is taken from the crate and not from the wrapper.
release_current ==
    LET inner == Inner(manifest.result)
        size == IF inner[1] = ":vec" THEN vec_elt_size[inner[2]] ELSE 1
    IN [gen |-> gen, size |-> call.len * size, align |-> size]

\* What the cleanup form passes to dealloc, and of which generation.
release ==
    LET inner == Inner(manifest.result)
        size == IF inner[1] = ":vec" THEN vec_elt_size[inner[2]] ELSE 1
    IN [gen |-> call.gen, size |-> call.len * size, align |-> size]

\* The library gives a buffer back; size 0 is no buffer.
dealloc(b) ==
    LIVE_ALLOCATIONS' = [LIVE_ALLOCATIONS EXCEPT ![b.gen] = IF b.size = 0 THEN @ ELSE @ - 1]

\* Mutant: a copy that signals skips the cleanup.
ReleaseUnlessSignalled ==
    /\ call.pc = "copied"
    /\ dealloc(release) \/ UNCHANGED LIVE_ALLOCATIONS
    /\ call' = Idle
    /\ unchanged /\ UNCHANGED lost

\* Mutant: an empty buffer is given back too.
ReleaseEmpty ==
    /\ call.pc = "copied"
    /\ LIVE_ALLOCATIONS' = [LIVE_ALLOCATIONS EXCEPT ![release.gen] = @ - 1]
    /\ call' = Idle
    /\ unchanged /\ UNCHANGED lost

\* %take-string-result, %take-bytes-result and %take-vec-result: the copy is
\* made or has signalled, the cleanup form runs.
Release ==
    /\ call.pc = "copied"
    /\ dealloc(release)
    /\ call' = Idle
    /\ unchanged /\ UNCHANGED lost

\* The thread is unwound after the shim returned and before the result is
\* under the protection of the cleanup form.
Interrupt ==
    /\ call.pc = "returned"
    /\ \A g \in Generations : lost[g] < MaxLost
    /\ lost' = [lost EXCEPT ![call.gen] = IF call.buffer = NoBuffer THEN @ ELSE @ + 1]
    /\ call' = Idle
    /\ unchanged /\ UNCHANGED LIVE_ALLOCATIONS

Running ==
    \/ \E g \in Generations : Call(g)
    \/ ShimPanics \/ ShimInvalid \/ ShimErr \/ ShimCbErr
    \/ \E some \in BOOLEAN, len \in 0..MaxLen : ShimOk(some, len)
    \/ Signal \/ Convert \/ Finish \/ Release \/ Interrupt

Next ==
    \/ \E ty \in RustParams \cup Receivers : WriteParam(ty)
    \/ \E kind \in {"free", "method", "ctor"}, result \in RustResults, on_dump \in BOOLEAN :
        \/ ExportRefused(kind, result, on_dump)
        \/ \E error \in BOOLEAN, handles \in SUBSET {"WordBag"} :
            Export(kind, result, error, on_dump, handles)
    \/ Load \/ LoadRefused \/ Reload
    \/ Running

Spec == Init /\ [][Next]_vars

-----------------------------------------------------------------------------
(* Properties *)

TypeOK ==
    /\ stage \in {"writing", "refused", "compiled", "unloadable", "loaded"}
    /\ Len(text) <= MaxParams
    /\ gen \in Generations
    /\ LIVE_ALLOCATIONS \in [Generations -> Nat] /\ lost \in [Generations -> 0..MaxLost]
    /\ call.pc \in {"idle", "shim", "returned", "copied", "done"}
    /\ call.status \in 0..4 /\ call.len \in 0..MaxLen

\* The two sides agree though each derives its signature for itself: the
\* wrapper calls the shim with the C types the shim was compiled for, in
\* order, callbacks with the types Rust will pass, a dump hook with none
\* (crate.lisp:634 calls it so); and a type the macro emits is one the
\* loader takes: what compiles and does not load has two callbacks, a handle
\* type that module! does not list, or a dump hook with a result.
SidesAgree ==
    /\ stage = "loaded" => wrapper = shim.signature
    /\ stage = "loaded" /\ manifest.on_dump => shim.signature = <<>>
    /\ stage = "unloadable" =>
            \/ \E i, j \in 1..Len(shim.params) :
                    i # j /\ shim.params[i][1] = "Callback" /\ shim.params[j][1] = "Callback"
            \/ manifest.handles = {}
            \/ manifest.on_dump /\ shim.result # <<"Unit">>

\* The wrapper reads no out-parameter the shim has not written: memory that
\* with-foreign-objects allocates is not initialised (BOUNDARY.md:30).
OnlyWrittenIsRead == call.read \subseteq call.wrote

\* What is about to be given back is what was allocated: by the library of
\* the same generation, whatever was loaded meanwhile, with the same size and
\* alignment; and no call is made for a buffer that was never allocated.
GivenBackAsAllocated ==
    call.pc = "copied" =>
        IF release.size = 0 THEN call.buffer = NoBuffer ELSE call.buffer = release

\* LIVE_ALLOCATIONS is exact: between calls every library counts the buffers
\* lost to an interrupt and no other, after errors, panics, None, empty and
\* undecodable results alike.
NothingLeaks ==
    \A g \in Generations :
        LIVE_ALLOCATIONS[g] = lost[g] + (IF call.buffer.gen = g THEN 1 ELSE 0)
=============================================================================
