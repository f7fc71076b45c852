-------------------------------- MODULE MCFile --------------------------------
EXTENDS File

CONSTANTS call1, call2, call3, call4, byte

MCCalls == {call1, call2, call3, call4}
MCDescriptors == {3, 4}
MCInitial == <<byte, byte>>

Kinds(k1, k2, k3, k4) ==
    [c \in MCCalls |-> CASE c = call1 -> k1 [] c = call2 -> k2 [] c = call3 -> k3 [] OTHER -> k4]

\* whole-file calls side by side, the cursor of a File, and closing one
MCWorkloads ==
    {Kinds("read_file", "write_file", "none", "none"),
     Kinds("read_file", "append_file", "none", "none"),
     Kinds("append_file", "create_file", "none", "none"),
     Kinds("open", "write_some", "read_some", "seek"),
     Kinds("open", "write_some", "write_some", "none"),
     Kinds("open_append", "write_some", "write_some", "seek"),
     Kinds("open", "write_at", "read_at", "close"),
     Kinds("open", "close", "close", "read_file"),
     Kinds("open", "close", "close", "create_file")}
=============================================================================
