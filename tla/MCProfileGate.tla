--------------------------- MODULE MCProfileGate ----------------------------
(***************************************************************************)
(* Builds 1 and 2 share build id, size and the anchors' bytes, 3 has other *)
(* code; the child's program is another ELF.  The directories hold a fit   *)
(* profile, one with every offset that nobody limits large, profiles       *)
(* beyond one side's ranges, incomplete ones, a candidate, two profiles of *)
(* one build, an unreadable one and none for the build.                    *)
(***************************************************************************)
EXTENDS ProfileGate, TLC

Segments(code) ==
  {[start |-> 4, bytes |-> code, exec |-> TRUE],
   [start |-> 9, bytes |-> <<"x", "y">>, exec |-> FALSE]}
Image(id, size, code) ==
  [buildId |-> id, size |-> size, type |-> "ET_EXEC", base |-> 4, segments |-> Segments(code)]
MCElf ==
  (1 :> Image("id", 10, <<"x", "y", "z">>)) @@ (2 :> Image("id", 10, <<"x", "y", "x">>)) @@
  (3 :> Image("other", 11, <<"y", "y", "z">>)) @@ (4 :> Image("id", 10, <<"x", "y", "z">>))

Anchor(rva, pattern, validators) ==
  [rva |-> rva, pattern |-> pattern, validators |-> validators]
Anchors == {Anchor(0, <<"x", Wild>>, {"executable"})}
Plain == [ufunction_func_offset |-> "small", ufunction_vtable_va |-> "large"]
NoTable == [f \in {} |-> "absent"]
(* Everything a profile can say, as large as it is let through. *)
Full ==
  [f \in DOMAIN LauncherRange |->
     IF "large" \in LauncherRange[f] \cap LoaderRange[f] THEN "large" ELSE "small"]
Only(fields) == [f \in fields |-> Full[f]]

Profile(b, status, anchors, reflection) ==
  [textual |-> TRUE, status |-> status, elf |-> FingerprintOf(b), anchors |-> anchors,
   reflection |-> reflection]
Says(reflection) == Profile(1, "validated", Anchors, reflection)
With(field, value) == Says((field :> value) @@ Full)

MCDirectories ==
  {{Profile(b, "validated", Anchors, Plain) : b \in {1, 2}},
   {Profile(1, "candidate", {}, Plain)},
   {Profile(2, "validated", {Anchor(0, <<"x", "y", "z">>, {"unique"})}, Plain)},
   {Profile(1, "validated", {Anchor(1, <<"y", "z">>, {"unique"})}, Full)},
   {Profile(1, "validated", {Anchor(5, <<"x">>, {"executable"})}, Plain)},
   {Profile(1, "validated", Anchors, Plain), Says(Full)},
   {Profile(3, "validated", {Anchor(0, <<"y">>, {})}, NoTable)},
   {[Profile(2, "validated", Anchors, Plain) EXCEPT !.textual = FALSE]},
   {[Profile(2, "validated", Anchors, Plain) EXCEPT !.elf.type = "ET_DYN"]}} \cup
  {{With(f, "large")} : f \in {"process_event_vtable_slot", "super_struct_offset",
                               "message_text_offset"}} \cup
  {{With("fframe_locals_offset", "zero")}, {With("gengine_global_va", "zero")}} \cup
  {{Says(reflection)} : reflection \in
     {Only({"ufunction_func_offset"}),
      Only(DOMAIN Full \ {"message_sender_offset"})}}
=============================================================================
