# TLA+ models of ringmaster

Ringmaster is a video-conferencing research platform. It has two programs.
`video_sender` (src/src/app/video_sender.cc) encodes raw frames with VP9 and sends them
over UDP. `video_receiver` (src/src/app/video_receiver.cc) reassembles the frames,
acknowledges every datagram and decodes them.

This directory models the parts of the code where ordering, loss, threads or
boundary arithmetic make behaviour hard to test. All definitions are translated from
the C++ source. `PROJECT.json` maps each definition to the lines it models.

## The system and how its parts interact

| Part | Code | Role |
|---|---|---|
| Wire format | `protocol.{hh,cc}`, `util/serialization.*` | `Datagram` (17-byte header plus payload) goes to the receiver. `AckMsg` and `ConfigMsg` go to the sender, behind a 1-byte type tag. Fields are big-endian `put_number`s. `WireParser` throws `out_of_range` on a short read. |
| Packetizer | `Encoder::packetize_encoded_frame`, `Datagram::set_mtu` | Cuts an encoded frame into `frag_cnt` datagrams of at most `max_payload` bytes. |
| Sender transport | `Encoder` (`encoder.cc`) plus three callbacks in `video_sender.cc` | Holds `send_buf_` (datagrams to send), `unacked_` (sent and not acked, keyed by `(frame_id, frag_id)`) and `frame_id_`. `handle_ack` takes an RTT sample and retransmits earlier unacked datagrams (at most `MAX_NUM_RTX` times each). `encode_frame` gives up on everything after `MAX_UNACKED_US` and forces a key frame. |
| Event loop | `util/poller.cc` | A single-threaded `poll` loop. It runs the fps-timer, socket-In, socket-Out and stats-timer callbacks, and Out is switched on and off by the callbacks. |
| Video input | `video/yuv4mpeg.cc`, `util/file_descriptor.cc`, `util/split.cc`, `util/conversion.cc` | `video_sender`'s YUV4MPEG2 file reader. The constructor checks the magic and the header's `W`, `H` and `C` tokens. Each fps-timer callback calls `read_frame` once per timer expiration (`num_exp`) and compresses the last frame read. At the end of the file, `read_frame` rewinds and skips the header line. |
| Receiver | `Frame`, `Decoder` (`decoder.cc`), main loop of `video_receiver.cc` | The main thread acks each datagram, `add_datagram`s it, then consumes complete frames. It skips ahead to a complete key frame when one exists. With `--lazy 0/1`, a worker thread takes the consumed frames through `shared_queue_` (mutex plus condition variable) and decodes them. |

The sender's frames flow as datagrams to the receiver's `frame_buf_`. Acks flow back
into `handle_ack`, which retransmits and drives the `send_buf_`/Out-interest
handshake with the poller. Give-up on the sender and skip-ahead on the receiver
together recover from loss.

## Modules

| Module | Models | State ↔ code | Actions ↔ code |
|---|---|---|---|
| `Packetizer` | frame splitting | `max_payload` ↔ `Datagram::max_payload`. `payloads` are the payload lengths of the last frame. | `set_mtu`, `packetize`. `FragCnt` and `PayloadSizes` are the code's arithmetic. The reference definition `Chunks` is recursive. `DecodeBuffer` instantiates it for its pass run. |
| `WireCodec` (+ `MCWireCodec`) | wire format | `msg` is what the peer serialised. `wire` is the bytes that arrived. | `Serialize` and `Truncate`. `PutNumber` (recursive), `GetNumber` and `ReadFields` model `Serializer`/`WireParser`. `ParseDatagram` and `ParseMsg` return parsed, rejected (`false`/`nullptr`) or thrown. |
| `Encoder` | sender transport | `frame_id`, `send_buf`, `unacked`, `ewma_rtt`, and `out_active` (the Out interest). `tx_fault` records that `add_unacked` threw. History: `sends`, and `abandoned` (the frame of the last give-up). | `compress_frame` (`compress_frame` + `encode_frame` give-up, which clears `send_buf_` and `unacked_` (`ClearedOnGiveUp`), + packetize), `send_datagrams` (the Out callback), `handle_ack(a)` (`handle_ack` + the In callback's activate). |
| `Decoder` | receiver | `next_frame`, `frame_buf`, `shared_queue`, `local_queue`, and `worker` (the worker's program counter). `rx_fault` records that `validate_datagram` threw. History: `decoded`. | `receive(d)`, `consume_next_frame`, `loop_done`, and the worker's `worker_wait`, `worker_spurious_wake`, `worker_drain` and `worker_decode`. |
| `FrameDelivery` | what the receiver promises its decoder (abstract) | `plan`, `produced`, and `delivered` (the ids handed to the decoder, in order). | `Produce`; `Deliver` of a produced frame that may follow the last one (a key frame, or the next id). `ReceiverPipeline` refines it. |
| `SenderTransmission` | what the sender promises about transmissions (abstract) | `produced` (frames encoded), `abandoned` (frames below it were given up), `sends` (transmissions per fragment). | `Encode`, which may give up every earlier frame, and `Transmit` of live fragments only, each at most `1+MaxNumRtx` times. `Transport` refines it with `produced <- frame_id`. `abandoned` is an `Encoder` history variable, the frame of the last give-up. |
| `Transport` | sender + receiver + lossy network | Instantiates `Encoder` and `Decoder`. `net` and `acks` are sets, so messages can be reordered, and `LoseDatagram` / `LoseAck` drop them. | One action per callback, plus `Tick` of the sender's clock. |
| `ReceiverPipeline` | receiver main thread + decode worker | Instantiates `Decoder`, and `FrameDelivery` with `delivered <- DecodedIds` (the ids of the `decoded` history). The sender's frame plan is fixed: frame 0 is KEY, and later frames are KEY (a forced key frame) or NONKEY. Their fragments arrive in any order, any number of times or never. | `Receive`, `ConsumeNext`, `ConsumeDone`, and the four worker steps. |
| `Handshake` (+ `MCHandshake`) | session start-up | `s_pc` (bind, wait in `recv_config_msg`, streaming, crashed) and `r_pc`. `net` is the datagrams in flight to the sender's port and `rcvbuf` its socket queue. `refused` is a pending ECONNREFUSED. `peer` and `interval` hold the sender's `connect` target and fps-timer period. `fps` is the receiver's `--fps` argument (from `FpsArgs`: the string, or absent, and the rate it means). `FpsOption` is `main`'s parsing of it (default 30, else `narrow_cast<uint16_t>(strict_stoi(optarg))`), and `ParsedFps` its result for every argument. | `Bind`, `ReceiverStart` (parses `--fps`; if that throws the receiver dies, else the ConfigMsg is built and serialised by `WireCodec`), `SenderRecv` (one `recv_config_msg` iteration, parsing with `WireCodec!ParseMsg`; on a ConfigMsg, `StartStream`: connect, Encoder, `Timerfd::set_time`) and `ReceiverRefused`. Environment actions: `StraySend`, `Deliver`, `Lose`. |
| `DecodeBuffer` (+ `MCDecodeBuffer`) | the size path of a frame into `decode_frame` | `max_payload` is chosen from `Workloads` (pairs of `max_payload` and frame size). `frags` are the payload sizes from `Packetizer!PayloadSizes`. `frame_size` is `Frame::frame_size_`. `buf_ptr` and `next` are `decode_frame`'s copy loop. | `Encode`, `insert_frag` (any fragment already delivered, any number of times; `AddFrag` adds its size only for an empty slot, as `Frame::insert_frag` does), `Handoff`, `CopyFrag` and `Decode`, with the code's real `MAX_DECODING_BUF` and `max_payload`. |
| `YUV4MPEG` (+ `MCYUV4MPEG`) | video input | `video` is the input file (bytes as one-character strings, with its frames and whether it is well-formed). `pos` and `eof` are the file offset and `FileDescriptor::eof_`. `raw_img` and `encoded` are the last frame read and the last one compressed. History: `ref`, the frame a cyclic reader reaches. | `Open` (constructor: `readn` of the magic, `getline`, `split` and `strict_stoi` of the header), `on_fps_timer` (`ReadFrames`: `read_frame` `num_exp` times, each `getline` + rewind via `reset_offset` + three `readn`s, copied into the image by `CopyPlanes`; `num_exp` ranges over `read_expirations`, what `Timerfd::read_expirations` can return). |
| `Conversion` | `util/conversion.{cc,hh}` | None (operators only). | `stoi` (leading blanks, sign, longest digit run, `out_of_range`), `strict_stoi` (throws unless the whole string was used) and `narrow_cast_u16`. A result is a value or `Thrown`. Used by `Handshake` for `--fps` and by `YUV4MPEG` for the header's `W`/`H`. |
| `Poller` | event loop | `roster`, `active`, and `pending` (the revents of the current round not yet dispatched). The encoder is reduced to `buf`, the length of `send_buf`. | `register_event`, `poll`, and the four callbacks. `on_fps_timer` includes `encode_frame`'s give-up, which clears `send_buf` (`KeptAfterGiveUp`); the give-up may happen in any state, since `unacked_` is not tracked. Kernel actions: `FpsExpire`, `StatsExpire`, `Arrive`, `Drain`. |

## Runs

| Run | Expect | Checks | Shows |
|---|---|---|---|
| `packetizer_oversize` | violation | `PayloadWithinMax` | **Bug.** `frag_cnt = size/(max_payload+1)+1` can leave a last fragment of `max_payload+1` bytes. TLC's example is max_payload 1 and size 3, giving payloads 1 and 2. At MTU 1500, a 2911-byte frame gives a 1456-byte payload and a datagram over the MTU. |
| `wire_codec` | pass | `TypeOK`, `RoundTrip`, `DatagramParseTotal` | Every message kind parses back to itself. Any prefix of a datagram is rejected below 17 bytes and parsed otherwise. |
| `wire_codec_short_ack` | violation | `MalformedMsgDropped` | A truncated ACK or ConfigMsg makes `Msg::parse_from_string` throw. Nothing in `video_sender` catches it, so the sender dies. The spec (§7) says such a message is dropped. |
| `transport` | pass | `TypeOK`, `FrameHeadersAgree`, `UnackedKeysFresh`, `ImplementsSenderTransmission` | Holds despite loss, reordering, duplicate deliveries, give-ups and retransmissions. The receiver's `validate_datagram` never throws. The sender's `add_unacked` never throws. The sender implements `SenderTransmission`: it sends only fragments of encoded frames, none more than `1+MAX_NUM_RTX` times, and after a give-up nothing of an earlier frame is sent again (a give-up that cleared `unacked_` but left `send_buf_` would break this). |
| `receiver_pipeline` | pass | `TypeOK`, `ImplementsFrameDelivery`, `HandedOffFrameDecoded`, `KeyFrameUnblocks` | The receiver implements `FrameDelivery`: the worker decodes produced frames in increasing order, starting with a key frame, each later one a key frame or the next id, whatever arrives in whatever order. Every frame put on `shared_queue_` is eventually decoded, so there is no lost wakeup between `notify_one` and `wait`. A complete key frame ahead of a stuck `next_frame_` is eventually consumed. |
| `handshake` | pass | `StreamsToRequester`, `ConfigStartsStream` | Stale ACKs, Invalid-tag and empty datagrams may reach the port first. Even so, a ConfigMsg that reaches the bound socket starts the stream, connected to that receiver, at period `BILLION / fps`. `StreamsToRequester` runs end to end from the `--fps` string: the sender only streams at the rate the user wrote. Arguments that are malformed (`30x`, empty) or out of range (`-1`, `65566`) kill the receiver instead of being wrapped or truncated. |
| `handshake_one_fps` | violation | `ConfigStartsStream` | **Bug.** `--fps 1` is a valid `frame_rate > 0`. It makes the sender arm its timer with `tv_nsec = 1000000000`. `timerfd_settime` rejects that value with EINVAL, and `video_sender` exits. |
| `decode_buffer` | pass | `DecodedSizeMatches` | For every `max_payload` ≤ 6 with frames ≤ 24 bytes, and for frames just below and just above 1 MB at MTU 1500, the bytes copied for the codec equal the receiver's `frame_size_` and the encoder's frame size, even when fragments arrive more than once. |
| `decode_buffer_exact` | violation | `FitsDecodes` | **Bug (off by one).** The `>=` test rejects a frame of exactly `MAX_DECODING_BUF` bytes "as exceeding" the buffer. That exception ends the worker thread. |
| `yuv4mpeg` | pass | `ValidInputNeverFails`, `EncodesFileCyclically` | For 2×2 images, three header spellings, frames with and without tags, 1–4 frames and 1–3 expirations per callback: a well-formed file never makes the sender throw, and each compressed image is whole and is the frame a cyclic reader of the file reaches. Five malformed files (wrong width, `C444`, bad magic, no frames, truncated) are refused or end the process. |
| `yuv4mpeg_odd_width` | violation | `EncodesFileCyclically` | **Bug.** `uv_size = W*H/4` is too small when W or H is odd (a 4:2:0 chroma plane is ⌈W/2⌉·⌈H/2⌉). At 3×2, `read_frame` reads 8 of the frame's 10 bytes, and TLC's trace ends with that 8-byte image compressed. (The next read would then start inside the chroma and throw on a missing `FRAME` line; this follows from the code but is not in the trace.) The divergence is from the YUV4MPEG2 layout that the code's `C420` check accepts, not from the spec: spec §6 itself writes W·H/4. |
| `poller` | pass | `TypeOK`, `SendBufDrains` | In any dispatch order of a poll round, and whether or not an encode gives up first, whatever the fps timer and the ACKs put in `send_buf` is eventually sent (`SendBufDrains`). `TypeOK` also checks that every event `poll` reports has a registered callback and that active interests stay within `roster_`. |

Each property of a passing run is also checked against a mutant: a plausible slip
in the code that it models, listed in `PROJECT.json`. TLC finds every such mutant
violating its property.

## Bounds and why they suffice

- **Transport:** 2 frames of up to 2 fragments, `MAX_NUM_RTX = 2`, `MAX_UNACKED_US = 1`, clock 0..2 (2.9 M states).
  - This reaches a give-up followed by a forced key frame while copies of the old frames are still in flight.
  - It reaches ACKs that arrive after the give-up, duplicate deliveries, and an entry retransmitted up to the cap.
  - `MAX_NUM_RTX = 2` keeps the cap reachable: a datagram is retransmitted only by ACKs of later sequence numbers, and 2×2 frames give 3 of them.
- **ReceiverPipeline:** 4 frames of up to 2 fragments, which is enough for a skip-ahead past an incomplete frame followed by further frames.
- **Poller:** 2 frames and 3 incoming messages, which covers every interleaving of the four callbacks within one round and across rounds.
- **Handshake:**
  - Up to 2 stray datagrams, in any order relative to the ConfigMsg and to `bind`.
  - `--fps` absent (default 30), `0`, `65535`, `+7`, ` 7`, `65566`, `-1`, `30x` and the empty string. These are the ends of the u16 range, the values just outside it, the sign and blank prefixes `stoi` accepts, and a trailing character and empty input, which it must reject.
  - This covers every path through `recv_config_msg` except its throw: a truncated ACK or ConfigMsg is not among the strays. That throw is `wire_codec_short_ack`'s finding.
- **YUV4MPEG:** 2×2 images (6 bytes a frame), up to 4 frames and up to 3 reads per callback, so one callback can wrap the file more than once. Pixel bytes include `\n` and `F`, so a misaligned `getline` could find a false line. The odd-width run uses 3×2.
- **DecodeBuffer:** every `max_payload` 1..6 with frame sizes 1..24, plus the real constants (1 MB buffer, `max_payload` 1455). The frame sizes sit at the buffer's edge.
- **WireCodec:** each field's values have distinct bytes (e.g. 0x01020304), so a swapped byte or field order shows.
  - TLC integers are signed 32-bit, so u64 `send_ts` values stay below 2^31. Byte order and width do not depend on that.

## Abstractions

- **RTT estimate:** `ewma_rtt_us_` is a double. Only its comparison with an integer matters, so each update is any integer between the old floor and the sample.
- **Payloads and codec:** payload bytes are dropped, except their lengths in `Packetizer` and `WireCodec`. A frame's type is KEY for the first frame and after a give-up, else NONKEY (`kf_mode = VPX_KF_DISABLED`).
- **Files:** a byte is a one-character string and a file is a sequence of them. Reads of a regular file return `min(requested, remaining)` bytes. `Conversion`'s strings are at most 9 characters, so `stoi`'s `int` arithmetic stays inside TLC's integers. Its `out_of_range` check is still modelled.
- **Network:** the network is a set, so any datagram can overtake any other and any can be lost.
- **Time:** time advances in ticks that are comparable with `MAX_UNACKED_US`.
- **Split between Transport and ReceiverPipeline:** `Transport` runs the receiver at `--lazy 2` (no worker). `ReceiverPipeline` checks the worker hand-off.

## Fairness

- **ReceiverPipeline:** the main thread and the worker are OS threads, so each has weak fairness.
  - The worker's condition-variable wait is not given fairness for spurious wakeups.
  - Nothing is assumed of delivery.
- **Handshake:** each program's main thread has weak fairness. The network and other hosts have none.
- **Poller:** the sender's loop thread, each pending callback, and the NIC draining the send buffer have weak fairness.
  - Timers and the arrival of messages have none.
- **Transport:** safety only, no fairness.
- `CHECK_DEADLOCK FALSE` is used where a behaviour really stops:
  - after the last frame (the frame and message bounds);
  - when a thread has died of an exception (the `tx_fault`/`rx_fault` states).

## Not modelled

- **Statistics, bitrate and most options:** `output_periodic_stats`, `set_target_bitrate`, and every command-line option except the receiver's `--fps`. The others (`--mtu`, `--lazy`, ports, `-o`, `-v`) only fix a model's constants (`Packetizer`'s MTU, the receiver's lazy level), and the model checks each constant value it uses.
- **Decoding and display:** vpx calls and SDL display. A lost ConfigMsg blocks both programs forever, and `Handshake` reaches those states. Nothing in the code retransmits, so no property asks for a session to start.
- **Video I/O:** V4L2 camera input is device I/O. The `RawImage` plane copies are modelled only as concatenation of the three planes (`CopyPlanes`); their byte-level `memcpy` and the codec are memory I/O. YUV4MPEG input is modelled; `Loop = FALSE` is not exercised because `video_sender` always loops.
- **Epoller:** unused by both programs, and the 12-run budget goes to code that runs. Reading it shows `epoll_wait` passed `sizeof(event_list)` (a byte count) as `maxevents`; this is not checked.
- **Spec §8 vs §4.4.3:** §8 says at most `MAX_NUM_RTX` transmissions while the code allows the original plus `MAX_NUM_RTX` retransmissions. `transport`'s `ImplementsSenderTransmission` checks the code's bound, `1+MAX_NUM_RTX`.
- **System-call wrappers:** these appear only as the nondeterminism of the network and of readiness.
- **Conversions at their edges:** `Conversion`'s blank set leaves out `\v`, which a TLA+ string cannot write; no argument of the runs starts with one. `Packetizer` leaves out `narrow_cast<uint16_t>(frag_cnt)`'s throw, which needs a frame over 65535 fragments (about 95 MB).
- **Clock:** `timestamp_us` is `system_clock`, which can step back and wrap the unsigned RTT sample. It is listed as a hazard; the model's clock is monotone.
