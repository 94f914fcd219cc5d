---------------------------- MODULE SmtMessages ----------------------------
(***************************************************************************)
(* The messages of the library's agents (libsmt/smtmsg.c): what the body   *)
(* of each is made of, which events carry it, and how all of them are      *)
(* packed into and out of a block of memory.                                *)
(*                                                                         *)
(* A body is a structure, followed by the strings and the data that its    *)
(* fields point to.  The put_ functions fill both, the get_ functions read  *)
(* both, in the order of the fields, and do not follow the addresses, which *)
(* are of the sender's block.                                               *)
(***************************************************************************)
EXTENDS Integers, SequencesExt

CONSTANTS
  NULL,            \* the null pointer
  WORD, QBYTE      \* how many values these types have

-----------------------------------------------------------------------------
(* Fields: numbers and tags; strings, which may be missing; and data, each  *)
(* with a field of the given type for its size.                             *)

Value(name)       == [name |-> name, kind |-> "value", range |-> 1]
Text(name)        == [name |-> name, kind |-> "text", range |-> 1]
Data(name, range) == [name |-> name, kind |-> "data", range |-> range]

(* The bytes a field takes behind the structure: a string with its zero     *)
(* byte, as much data as its size, which is cut to its type, says.          *)
Taken(f, x) ==
  CASE f.kind = "value" \/ x = NULL -> << >>
    [] f.kind = "text" /\ x # NULL -> Append(x, 0)
    [] f.kind = "data" /\ x # NULL -> SubSeq(x, 1, Len(x) % f.range)

(* What the structure holds for it: a value, an address in the block, or a  *)
(* size.                                                                    *)
Held(f, x, at) ==
  CASE f.kind = "value" -> x
    [] f.kind = "text"  -> IF x = NULL THEN NULL ELSE at
    [] f.kind = "data"  -> Len(Taken(f, x))

(* The put_ functions: what one field adds to the block, what is there      *)
(* after each of the fields, and the whole block.                           *)
PutField(f, x, b) ==
  [held  |-> Append(b.held, Held(f, x, Len(b.bytes) + 1)),
   bytes |-> b.bytes \o Taken(f, x)]

Packing(body, args) ==
  LET b[i \in 0 .. Len(body)] ==
        IF i = 0 THEN [held |-> << >>, bytes |-> << >>]
                 ELSE PutField(body[i], args[i], b[i - 1])
  IN  b

Put(body, args) == Packing(body, args)[Len(body)]

(* strlen and strcpy, from a place in the block.                            *)
StringAt(bytes, at) ==
  SubSeq(bytes, at, Min({k \in at .. Len(bytes) : bytes[k] = 0}) - 1)

(* What a field is read as, with how much of the block has been read.      *)
Field(f, held, bytes, at) ==
  CASE f.kind = "value" -> held
    [] f.kind = "text"  -> IF held = NULL THEN NULL ELSE StringAt(bytes, at)
    [] f.kind = "data"  -> SubSeq(bytes, at, at + held - 1)

(* Mutant: does not move on behind data.                                    *)
GetFieldDataStays(f, held, bytes, p) ==
  LET x == Field(f, held, bytes, p.at)
  IN  [got |-> Append(p.got, x),
       at  |-> IF f.kind = "data" THEN p.at ELSE p.at + Len(Taken(f, x))]

(* The get_ functions: params and how far they have read.                   *)
GetField(f, held, bytes, p) ==
  LET x == Field(f, held, bytes, p.at)
  IN  [got |-> Append(p.got, x), at |-> p.at + Len(Taken(f, x))]

Unpacking(body, b) ==
  LET p[i \in 0 .. Len(body)] ==
        IF i = 0 THEN [got |-> << >>, at |-> 1]
                 ELSE GetField(body[i], b.held[i], b.bytes, p[i - 1])
  IN  p

Get(body, b) == Unpacking(body, b)[Len(body)].got

(* The fields that get_ allocates memory for, and free_ frees.              *)
Allocated(body, got) ==
  {body[i].name : i \in {j \in DOMAIN body : body[j].kind # "value" /\ got[j] # NULL}}

-----------------------------------------------------------------------------
(* The bodies.                                                              *)

smtlib_shutdown == <<Value("signal")>>
smtlog_filename == <<Text("filename")>>
smtlog_text == <<Text("text")>>
smtxlog_open ==
  <<Text("log_path"), Text("log_file"), Text("log_format"), Text("cycle_when"),
    Text("cycle_how"), Text("cycle_time"), Text("cycle_date"),
    Text("cycle_size"), Text("cycle_lines"), Text("cycle_argument")>>
smtxlog_log == <<Text("file_name"), Data("value", WORD)>>
smtxlog_put == <<Text("message")>>
smtoper_set_log == <<Text("agent_name"), Text("thread_name")>>
smtoper_message == <<Text("text")>>
smtrdns_get_host_name ==
  <<Value("ip_address"), Text("ip_string"), Value("request_tag")>>
smtrdns_get_host_ip == <<Text("host_name"), Value("request_tag")>>
smtrdns_host_name ==
  <<Value("ip_address"), Text("host_name"), Value("request_tag")>>
smtrdns_host_ip ==
  <<Value("ip_address"), Text("host_name"), Value("request_tag")>>
smtslot_specification == <<Text("times")>>
smtslot_error == <<Text("message")>>
smtsock_read ==
  <<Value("timeout"), Value("socket"), Value("max_size"), Value("min_size"),
    Value("tag")>>
smtsock_write ==
  <<Value("timeout"), Value("socket"), Data("data", WORD), Value("reply"),
    Value("tag")>>
smtsock_close ==
  <<Value("timeout"), Value("socket"), Value("reply"), Value("tag")>>
smtsock_readh ==
  <<Value("timeout"), Value("socket"), Value("max_size"), Value("min_size"),
    Value("tag")>>
smtsock_writeh ==
  <<Value("timeout"), Value("socket"), Data("data", QBYTE), Value("reply"),
    Value("tag")>>
smtsock_input == <<Value("timeout"), Value("socket"), Value("tag")>>
smtsock_output == <<Value("timeout"), Value("socket"), Value("tag")>>
smtsock_connect ==
  <<Value("timeout"), Text("type"), Text("host"), Text("service"),
    Value("port"), Value("address"), Value("tag")>>
smtsock_flush == <<Value("socket"), Value("alltypes")>>
smtsock_read_reply == <<Data("data", WORD), Value("tag")>>
smtsock_readh_reply == <<Data("data", QBYTE), Value("tag")>>
smtsock_connect_ok == <<Value("socket"), Value("tag")>>
smtsock_reply == <<Value("tag")>>
smtsock_error == <<Text("message"), Value("tag")>>
smttran_putb == <<Value("socket"), Data("data", WORD), Text("pipe")>>
smttran_getb == <<Value("socket"), Text("pipe")>>
smttran_puth == <<Value("socket"), Data("data", QBYTE), Text("pipe")>>
smttran_geth == <<Value("socket"), Text("pipe")>>
smttran_putf ==
  <<Value("socket"), Text("filename"), Value("filetype"), Value("start"),
    Value("end"), Text("pipe")>>
smttran_getf ==
  <<Value("socket"), Text("filename"), Value("filetype"), Value("start"),
    Value("end"), Value("append"), Value("maxsize"), Text("pipe")>>
smttran_putb_ok == <<Value("size")>>
smttran_getb_ok == <<Data("data", WORD)>>
smttran_puth_ok == <<Value("size")>>
smttran_geth_ok == <<Data("data", QBYTE)>>
smttran_putf_ok == <<Value("size")>>
smttran_getf_ok == <<Value("size")>>
smttran_pipe_create ==
  <<Text("name"), Value("input_rate"), Value("output_rate")>>
smttran_error == <<Text("reason")>>
smtupm_message == <<Value("ident"), Text("string")>>
smtpop_connection == <<Text("server"), Text("user"), Text("password")>>
smtpop_connect_ok == <<Value("msg_cnt"), Value("msg_size")>>
smtpop_error == <<Text("reason"), Value("code")>>
smtpop_session_info == <<Value("count"), Value("size")>>
smtpop_msg_session_info == <<Value("msg_id"), Value("size")>>
smtpop_msg_id == <<Value("msg_id"), Text("attach_dir")>>
smtpop_msg_header ==
  <<Value("msg_id"), Text("from"), Text("to"), Text("cc"), Text("date"),
    Text("subject")>>
smtpop_msg ==
  <<Value("msg_id"), Text("from"), Text("to"), Text("cc"), Text("date"),
    Text("subject"), Text("body"), Text("attachments"), Text("attach_dir")>>
smtsmtp_message ==
  <<Text("smtp_server"), Text("msg_body"), Text("sender_uid"),
    Text("dest_uids"), Text("subject")>>
smtsmtp_chunk == <<Text("chunk")>>
smtsmtp_reply == <<Value("code"), Text("msg")>>
smttmtp_write == <<Text("host"), Text("port"), Data("data", WORD)>>
smttmtp_listen == <<Text("port")>>
smttmtp_error == <<Text("message")>>
smttmtp_incoming_message == <<Data("data", WORD)>>

-----------------------------------------------------------------------------
(* The events, and the bodies they are sent with by the lsend_ functions.   *)

SMTLIB_SHUTDOWN == [name |-> "SMTLIB SHUTDOWN", body |-> smtlib_shutdown]
SMTLOG_CYCLE == [name |-> "SMTLOG CYCLE", body |-> smtlog_filename]
SMTLOG_OPEN == [name |-> "SMTLOG OPEN", body |-> smtlog_filename]
SMTLOG_APPEND == [name |-> "SMTLOG APPEND", body |-> smtlog_filename]
SMTLOG_PUT == [name |-> "SMTLOG PUT", body |-> smtlog_text]
SMTXLOG_OPEN == [name |-> "SMTXLOG OPEN", body |-> smtxlog_open]
SMTXLOG_LOG == [name |-> "SMTXLOG LOG", body |-> smtxlog_log]
SMTXLOG_PUT == [name |-> "SMTXLOG PUT", body |-> smtxlog_put]
SMTOPER_SET_LOG == [name |-> "SMTOPER SET LOG", body |-> smtoper_set_log]
SMTOPER_ERROR == [name |-> "SMTOPER ERROR", body |-> smtoper_message]
SMTOPER_WARNING == [name |-> "SMTOPER WARNING", body |-> smtoper_message]
SMTOPER_INFO == [name |-> "SMTOPER INFO", body |-> smtoper_message]
SMTRDNS_GET_HOST_NAME == [name |-> "SMTRDNS GET HOST NAME", body |-> smtrdns_get_host_name]
SMTRDNS_GET_HOST_IP == [name |-> "SMTRDNS GET HOST IP", body |-> smtrdns_get_host_ip]
SMTRDNS_HOST_NAME == [name |-> "SMTRDNS HOST NAME", body |-> smtrdns_host_name]
SMTRDNS_HOST_IP == [name |-> "SMTRDNS HOST IP", body |-> smtrdns_host_ip]
SMTSLOT_SPECIFY == [name |-> "SMTSLOT SPECIFY", body |-> smtslot_specification]
SMTSLOT_ERROR == [name |-> "SMTSLOT ERROR", body |-> smtslot_error]
SMTSOCK_READ == [name |-> "SMTSOCK READ", body |-> smtsock_read]
SMTSOCK_READR == [name |-> "SMTSOCK READR", body |-> smtsock_read]
SMTSOCK_WRITE == [name |-> "SMTSOCK WRITE", body |-> smtsock_write]
SMTSOCK_CLOSE == [name |-> "SMTSOCK CLOSE", body |-> smtsock_close]
SMTSOCK_READH == [name |-> "SMTSOCK READH", body |-> smtsock_readh]
SMTSOCK_READRH == [name |-> "SMTSOCK READRH", body |-> smtsock_readh]
SMTSOCK_WRITEH == [name |-> "SMTSOCK WRITEH", body |-> smtsock_writeh]
SMTSOCK_INPUT == [name |-> "SMTSOCK INPUT", body |-> smtsock_input]
SMTSOCK_OUTPUT == [name |-> "SMTSOCK OUTPUT", body |-> smtsock_output]
SMTSOCK_CONNECT == [name |-> "SMTSOCK CONNECT", body |-> smtsock_connect]
SMTSOCK_FLUSH == [name |-> "SMTSOCK FLUSH", body |-> smtsock_flush]
SMTSOCK_READ_OK == [name |-> "SMTSOCK READ OK", body |-> smtsock_read_reply]
SMTSOCK_READ_CLOSED == [name |-> "SMTSOCK READ CLOSED", body |-> smtsock_read_reply]
SMTSOCK_READ_TIMEOUT == [name |-> "SMTSOCK READ TIMEOUT", body |-> smtsock_read_reply]
SMTSOCK_READH_OK == [name |-> "SMTSOCK READH OK", body |-> smtsock_readh_reply]
SMTSOCK_READH_CLOSED == [name |-> "SMTSOCK READH CLOSED", body |-> smtsock_readh_reply]
SMTSOCK_READH_TIMEOUT == [name |-> "SMTSOCK READH TIMEOUT", body |-> smtsock_readh_reply]
SMTSOCK_CONNECT_OK == [name |-> "SMTSOCK CONNECT OK", body |-> smtsock_connect_ok]
SMTSOCK_OK == [name |-> "SMTSOCK OK", body |-> smtsock_reply]
SMTSOCK_CLOSED == [name |-> "SMTSOCK CLOSED", body |-> smtsock_reply]
SMTSOCK_TIMEOUT == [name |-> "SMTSOCK TIMEOUT", body |-> smtsock_reply]
SMTSOCK_ERROR == [name |-> "SMTSOCK ERROR", body |-> smtsock_error]
SMTTRAN_PUT_BLOCK == [name |-> "SMTTRAN PUT BLOCK", body |-> smttran_putb]
SMTTRAN_GET_BLOCK == [name |-> "SMTTRAN GET BLOCK", body |-> smttran_getb]
SMTTRAN_PUT_HUGE == [name |-> "SMTTRAN PUT HUGE", body |-> smttran_puth]
SMTTRAN_GET_HUGE == [name |-> "SMTTRAN GET HUGE", body |-> smttran_geth]
SMTTRAN_PUT_FILE == [name |-> "SMTTRAN PUT FILE", body |-> smttran_putf]
SMTTRAN_GET_FILE == [name |-> "SMTTRAN GET FILE", body |-> smttran_getf]
SMTTRAN_PUTB_OK == [name |-> "SMTTRAN PUTB OK", body |-> smttran_putb_ok]
SMTTRAN_GETB_OK == [name |-> "SMTTRAN GETB OK", body |-> smttran_getb_ok]
SMTTRAN_PUTH_OK == [name |-> "SMTTRAN PUTH OK", body |-> smttran_puth_ok]
SMTTRAN_GETH_OK == [name |-> "SMTTRAN GETH OK", body |-> smttran_geth_ok]
SMTTRAN_PUTF_OK == [name |-> "SMTTRAN PUTF OK", body |-> smttran_putf_ok]
SMTTRAN_GETF_OK == [name |-> "SMTTRAN GETF OK", body |-> smttran_getf_ok]
SMTTRAN_PIPE_CREATE == [name |-> "SMTTRAN PIPE CREATE", body |-> smttran_pipe_create]
SMTTRAN_ERROR == [name |-> "SMTTRAN ERROR", body |-> smttran_error]
SMTUPM_PUT_BLOCK == [name |-> "SMTUPM PUT BLOCK", body |-> smtupm_message]
SMTPOP_CONNECT == [name |-> "SMTPOP CONNECT", body |-> smtpop_connection]
SMTPOP_CONNECT_OK == [name |-> "SMTPOP CONNECT_OK", body |-> smtpop_connect_ok]
SMTPOP_ERROR == [name |-> "SMTPOP ERROR", body |-> smtpop_error]
SMTPOP_SESSION_INFO == [name |-> "SMTPOP SESSION_INFO", body |-> smtpop_session_info]
SMTPOP_MSG_SESSION_INFO == [name |-> "SMTPOP MSG_SESSION_INFO", body |-> smtpop_msg_session_info]
SMTPOP_GET_MSG_HEADER == [name |-> "SMTPOP GET_MSG_HEADER", body |-> smtpop_msg_id]
SMTPOP_GET_MSG == [name |-> "SMTPOP GET_MSG", body |-> smtpop_msg_id]
SMTPOP_DELETE_MSG == [name |-> "SMTPOP DELETE_MSG", body |-> smtpop_msg_id]
SMTPOP_DELETE_OK == [name |-> "SMTPOP DELETE_OK", body |-> smtpop_msg_id]
SMTPOP_GET_MSG_INFO == [name |-> "SMTPOP GET_MSG_INFO", body |-> smtpop_msg_id]
SMTPOP_MSG_HEADER == [name |-> "SMTPOP MSG_HEADER", body |-> smtpop_msg_header]
SMTPOP_MSG == [name |-> "SMTPOP MSG", body |-> smtpop_msg]
SMTSMTP_SEND_MESSAGE == [name |-> "SMTSMTP SEND_MESSAGE", body |-> smtsmtp_message]
SMTSMTP_OPEN_MESSAGE == [name |-> "SMTSMTP OPEN_MESSAGE", body |-> smtsmtp_message]
SMTSMTP_MESSAGE_CHUNK == [name |-> "SMTSMTP MESSAGE CHUNK", body |-> smtsmtp_chunk]
SMTSMTP_OK == [name |-> "SMTSMTP OK", body |-> smtsmtp_reply]
SMTSMTP_ERROR == [name |-> "SMTSMTP ERROR", body |-> smtsmtp_reply]
SMTTMTP_WRITE == [name |-> "SMTTMTP WRITE", body |-> smttmtp_write]
SMTTMTP_LISTEN == [name |-> "SMTTMTP LISTEN", body |-> smttmtp_listen]
SMTTMTP_WRITE_ERROR == [name |-> "SMTTMTP WRITE ERROR", body |-> smttmtp_error]
SMTTMTP_LISTEN_ERROR == [name |-> "SMTTMTP LISTEN ERROR", body |-> smttmtp_error]
SMTTMTP_INCOMING_DATA == [name |-> "SMTTMTP INCOMING DATA", body |-> smttmtp_incoming_message]

Events ==
  {SMTLIB_SHUTDOWN, SMTLOG_CYCLE, SMTLOG_OPEN, SMTLOG_APPEND,
   SMTLOG_PUT, SMTXLOG_OPEN, SMTXLOG_LOG, SMTXLOG_PUT,
   SMTOPER_SET_LOG, SMTOPER_ERROR, SMTOPER_WARNING, SMTOPER_INFO,
   SMTRDNS_GET_HOST_NAME, SMTRDNS_GET_HOST_IP, SMTRDNS_HOST_NAME, SMTRDNS_HOST_IP,
   SMTSLOT_SPECIFY, SMTSLOT_ERROR, SMTSOCK_READ, SMTSOCK_READR,
   SMTSOCK_WRITE, SMTSOCK_CLOSE, SMTSOCK_READH, SMTSOCK_READRH,
   SMTSOCK_WRITEH, SMTSOCK_INPUT, SMTSOCK_OUTPUT, SMTSOCK_CONNECT,
   SMTSOCK_FLUSH, SMTSOCK_READ_OK, SMTSOCK_READ_CLOSED, SMTSOCK_READ_TIMEOUT,
   SMTSOCK_READH_OK, SMTSOCK_READH_CLOSED, SMTSOCK_READH_TIMEOUT, SMTSOCK_CONNECT_OK,
   SMTSOCK_OK, SMTSOCK_CLOSED, SMTSOCK_TIMEOUT, SMTSOCK_ERROR,
   SMTTRAN_PUT_BLOCK, SMTTRAN_GET_BLOCK, SMTTRAN_PUT_HUGE, SMTTRAN_GET_HUGE,
   SMTTRAN_PUT_FILE, SMTTRAN_GET_FILE, SMTTRAN_PUTB_OK, SMTTRAN_GETB_OK,
   SMTTRAN_PUTH_OK, SMTTRAN_GETH_OK, SMTTRAN_PUTF_OK, SMTTRAN_GETF_OK,
   SMTTRAN_PIPE_CREATE, SMTTRAN_ERROR, SMTUPM_PUT_BLOCK, SMTPOP_CONNECT,
   SMTPOP_CONNECT_OK, SMTPOP_ERROR, SMTPOP_SESSION_INFO, SMTPOP_MSG_SESSION_INFO,
   SMTPOP_GET_MSG_HEADER, SMTPOP_GET_MSG, SMTPOP_DELETE_MSG, SMTPOP_DELETE_OK,
   SMTPOP_GET_MSG_INFO, SMTPOP_MSG_HEADER, SMTPOP_MSG, SMTSMTP_SEND_MESSAGE,
   SMTSMTP_OPEN_MESSAGE, SMTSMTP_MESSAGE_CHUNK, SMTSMTP_OK, SMTSMTP_ERROR,
   SMTTMTP_WRITE, SMTTMTP_LISTEN, SMTTMTP_WRITE_ERROR, SMTTMTP_LISTEN_ERROR,
   SMTTMTP_INCOMING_DATA}
=============================================================================
