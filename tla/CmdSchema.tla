----------------------------- MODULE CmdSchema -----------------------------
(* The structures of libproc's own messages (cmd-pkt.xp and the code that  *)
(* is generated from it, docs/cmd-pkt.c), and those of an application.     *)
EXTENDS XdrTypes, TLC

CONSTANTS VOID, COMMAND, RESPONSE, OPAQUE_STRUCT_ARR, OPAQUE_STRUCT, DATAREQ, HEARTBEAT,
          RESPONSE_HDR, WD_PROC_NAME, WD_REG_INFO,   \* type numbers
          AppStructs      \* an application's structures

IPC_Void_Fields == <<>>
IPC_Command_Fields == <<Field(uint32), Field(uint32), Field(union)>>
IPC_Heartbeat_Fields == <<Field(uint64), Field(uint64), Field(uint64)>>
IPC_DataReq_Fields == <<Field(int32), Counted(arr(uint32), 1)>>
IPC_OpaqueStruct_Fields == <<Field(int32), Counted(byte_arr, 1)>>
IPC_OpaqueStructArr_Fields == <<Field(int32), Counted(arr(struct(OPAQUE_STRUCT)), 1)>>
IPC_Response_Fields == <<Field(uint32), Field(uint32), Field(uint32), Field(union)>>
IPC_ResponseHeader_Fields == <<Field(uint32), Field(uint32), Field(uint32)>>
IPC_WDProcName_Fields == <<Field(string_arr)>>
IPC_WDRegInfo_Fields == <<Field(string_arr), Field(uint32), Field(int32)>>

\* IPC_structs_constructor: the structures that are registered.
IPC_structs ==
  (VOID :> Plain(IPC_Void_Fields)) @@ (COMMAND :> Plain(IPC_Command_Fields))
    @@ (HEARTBEAT :> Plain(IPC_Heartbeat_Fields)) @@ (DATAREQ :> Plain(IPC_DataReq_Fields))
    @@ (OPAQUE_STRUCT :> Plain(IPC_OpaqueStruct_Fields))
    @@ (OPAQUE_STRUCT_ARR :> Plain(IPC_OpaqueStructArr_Fields))
    @@ (RESPONSE :> Plain(IPC_Response_Fields)) @@ (RESPONSE_HDR :> Plain(IPC_ResponseHeader_Fields))
    @@ (WD_PROC_NAME :> Plain(IPC_WDProcName_Fields)) @@ (WD_REG_INFO :> Plain(IPC_WDRegInfo_Fields))
    @@ AppStructs
=============================================================================
